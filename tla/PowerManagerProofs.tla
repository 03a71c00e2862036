------------------------- MODULE PowerManagerProofs -------------------------
(***************************************************************************)
(* The power path for every cap, mode, level and request set: the driver's *)
(* invariants survive inside it, its own variables keep their types, and   *)
(* evaluate() is a critical section.                                       *)
(***************************************************************************)
EXTENDS PowerManager, Hv9910Proofs

-----------------------------------------------------------------------------
(* The composition drives Hv9910 only through its own actions. *)

LEMMA TasksPost ==
    ASSUME PowerAssumption
    PROVE  /\ \A t \in PolicyTasks : t \in Callers
           /\ "main" \in Callers /\ "tps" \in Callers
           /\ "timer" \in Callers /\ "admin" \in Callers
           /\ Nobody \notin Callers
BY DEF PowerAssumption, PolicyTasks, Nobody

LEMMA CommandsOrdinary ==
    ASSUME PowerAssumption
    PROVE  /\ EmergencyOff \in Requests
           /\ \A c \in Caps \cup {100} : SetScale(c) \in Requests
           /\ \A d \in DarkLimits : ApplyDimming(d) \in Requests
           /\ \A p \in AdminLevels \cup {0} : SetPending(TRUE, p) \in Requests
           /\ \A p \in AdminLevels : EnableAt(p) \in Requests
           /\ Disable \in Requests /\ Identify \in Requests
BY DEF PowerAssumption, PmCommands

LEMMA ScaleRange ==
    \A v : \A c \in Caps : ScaleOf(v, c) \in Caps \cup {100}
BY DEF ScaleOf

PmTypeOK ==
    /\ source \in Sources /\ prevSource \in Sources
    /\ ready \in BOOLEAN
    /\ tpsAt \in {"sample", "ready", "changed"}
    /\ powerMode \in Modes /\ cap \in Caps
    /\ lock \in Callers \cup {Nobody}
    /\ boot \in {"config", "monitor", "wait", "woken", "policy", "network"}
    /\ state \in States /\ scalePct \in Caps \cup {100}
    /\ firstReadySeen \in BOOLEAN /\ settling \in BOOLEAN
    /\ step \in [Callers -> {"out", "lock", "source", "ready", "decide",
                             "publish", "unlock", "reeval"}]
    /\ local \in [Callers -> Sources \cup Active]

\* Every step of the power path is a step of the driver or leaves it alone.
LEMMA StepsDriveHv ==
    ASSUME PowerAssumption, cap \in Caps, [PNext]_vars
    PROVE  [Next]_hvVars
<1>1. \A c \in Callers : \A cmd \in Requests \cup {Enable} : Post(c, cmd) => Next
  BY DEF Next
<1>2. "main" \in Callers /\ "admin" \in Callers  BY TasksPost
<1>3. CASE \E t \in PolicyTasks : Evaluate(t)
  <2>1. PICK t \in Callers : Evaluate(t)  BY <1>3, TasksPost
  <2>2. CASE TakeLock(t) \/ ReadSource(t) \/ ReadReady(t) \/ Unlock(t)
    BY <2>2 DEF TakeLock, ReadSource, ReadReady, Unlock
  <2>3. CASE DecideDark(t)
    BY <1>1, <2>3, CommandsOrdinary DEF DecideDark
  <2>4. CASE DecideActive(t)
    <3>1. scalePct' \in Caps \cup {100}  BY <2>4, ScaleRange DEF DecideActive
    <3>2. Post(t, SetScale(scalePct'))  BY <2>4 DEF DecideActive
    <3>3. SetScale(scalePct') \in Requests  BY <3>1, CommandsOrdinary
    <3> QED BY <1>1, <3>2, <3>3
  <2>5. CASE Publish(t)
    <3>1. Post(t, Enable) \/ UNCHANGED hvVars  BY <2>5 DEF Publish
    <3> QED BY <1>1, <3>1
  <2> QED BY <2>1, <2>2, <2>3, <2>4, <2>5 DEF Evaluate
<1>4. CASE TpsSample \/ TpsReady \/ TpsChanged \/ SettleFires \/ Reeval
  BY <1>4 DEF TpsSample, TpsReady, TpsChanged, SettleFires, Reeval
<1>5. CASE AppMain
  <2>1. CASE LoadConfig
    BY <1>1, <1>2, <2>1, CommandsOrdinary DEF LoadConfig
  <2>2. CASE InitMonitor \/ WaitReady \/ StartManager \/ StartNetwork
    BY <2>2 DEF InitMonitor, WaitReady, StartManager, StartNetwork
  <2> QED BY <1>5, <2>1, <2>2 DEF AppMain
<1>6. CASE AdminRequest
  <2>1. \A cmd \in Requests \cup {Enable} : Post("admin", cmd) => Next
    BY <1>1, <1>2
  <2>2. CASE HandleOn
    <3>1. Post("admin", Enable) \/ Post("admin", SetPending(TRUE, 0))
      BY <2>2 DEF HandleOn, AdminPost
    <3>2. SetPending(TRUE, 0) \in Requests  BY CommandsOrdinary
    <3> QED BY <2>1, <3>1, <3>2
  <2>3. ASSUME NEW p \in AdminLevels, HandleDim(p) PROVE Next
    <3>1. Post("admin", EnableAt(p)) \/ Post("admin", SetPending(TRUE, p))
      BY <2>3 DEF HandleDim, AdminPost
    <3>2. SetPending(TRUE, p) \in Requests /\ EnableAt(p) \in Requests
      BY CommandsOrdinary
    <3> QED BY <2>1, <3>1, <3>2
  <2>4. CASE HandleOff \/ HandleIdentify
    BY <2>1, <2>4, CommandsOrdinary DEF HandleOff, HandleIdentify, AdminPost
  <2>5. CASE HandleSetConfig
    BY <2>1, <2>5, CommandsOrdinary DEF HandleSetConfig
  <2> QED BY <1>6, <2>2, <2>3, <2>4, <2>5 DEF AdminRequest
<1>7. CASE \E t \in Callers : Posting(t)
  BY <1>7 DEF Posting, Next
<1>8. CASE DriverTask
  BY <1>8 DEF DriverTask, Next
<1>9. CASE UNCHANGED vars
  BY <1>9 DEF vars
<1> QED BY <1>3, <1>4, <1>5, <1>6, <1>7, <1>8, <1>9 DEF PNext

-----------------------------------------------------------------------------
(* The power path's own types, and the critical section. *)

LEMMA VerdictRange ==
    \A src, mode : Verdict(src, mode) \in States
BY DEF Verdict, States, Active

LEMMA GotoType ==
    ASSUME step \in [Callers -> {"out", "lock", "source", "ready", "decide",
                                 "publish", "unlock", "reeval"}],
           NEW t \in Callers,
           NEW s \in {"out", "lock", "source", "ready", "decide",
                      "publish", "unlock", "reeval"},
           Goto(t, s)
    PROVE  step' \in [Callers -> {"out", "lock", "source", "ready", "decide",
                                  "publish", "unlock", "reeval"}]
BY DEF Goto

\* Only an active state is ever left for Publish, which is what makes the
\* published state one of the four.
PublishesActive == \A t \in Callers : step[t] = "publish" => local[t] \in Active

LEMMA EvaluateType ==
    ASSUME PowerAssumption, PmTypeOK, PublishesActive, NEW t \in Callers, Evaluate(t)
    PROVE  PmTypeOK'
<1> USE DEF PmTypeOK, tpsVars, cfgVars, policyVars
<1>1. CASE TakeLock(t)
  <2>1. firstReadySeen' \in BOOLEAN  BY <1>1 DEF TakeLock
  <2>2. PICK s \in {"unlock", "source"} : Goto(t, s)  BY <1>1 DEF TakeLock
  <2> QED BY <1>1, <2>1, <2>2, GotoType DEF TakeLock
<1>2. CASE ReadSource(t)
  <2>1. local' \in [Callers -> Sources \cup Active]  BY <1>2 DEF ReadSource
  <2> QED BY <1>2, <2>1, GotoType DEF ReadSource
<1>3. CASE ReadReady(t)
  <2>1. local' \in [Callers -> Sources \cup Active]  BY <1>3 DEF ReadReady, Sources
  <2> QED BY <1>3, <2>1, GotoType DEF ReadReady
<1>4. CASE DecideDark(t)
  <2>1. state' \in States /\ scalePct' \in Caps \cup {100}
    BY <1>4, VerdictRange DEF DecideDark
  <2> QED BY <1>4, <2>1, GotoType DEF DecideDark
<1>5. CASE DecideActive(t)
  <2>1. scalePct' \in Caps \cup {100}  BY <1>5, ScaleRange DEF DecideActive
  <2>2. local' \in [Callers -> Sources \cup Active]  BY <1>5 DEF DecideActive
  <2> QED BY <1>5, <2>1, <2>2, GotoType DEF DecideActive
<1>6. CASE Publish(t)
  <2>1. firstReadySeen' \in BOOLEAN /\ settling' \in BOOLEAN  BY <1>6 DEF Publish
  <2>2. UNCHANGED <<tpsVars, cfgVars, lock, boot, scalePct, local>> /\ Goto(t, "unlock")
    BY <1>6 DEF Publish
  <2>3. state' \in States  BY <1>6 DEF Publish, PublishesActive, States
  <2> QED BY <2>1, <2>2, <2>3, GotoType
<1>7. CASE Unlock(t)
  <2>1. local' \in [Callers -> Sources \cup Active]  BY <1>7 DEF Unlock, Sources
  <2> QED BY <1>7, <2>1, GotoType DEF Unlock
<1> QED BY <1>1, <1>2, <1>3, <1>4, <1>5, <1>6, <1>7 DEF Evaluate

LEMMA EvaluateOrder ==
    ASSUME PowerAssumption, PmTypeOK, PublishesActive, OneEvaluation,
           NEW t \in Callers, Evaluate(t)
    PROVE  PublishesActive' /\ OneEvaluation'
<1> USE DEF PmTypeOK, Goto
<1>1. CASE TakeLock(t)
  <2> Nobody \notin Callers  BY TasksPost
  <2>1. \A u \in Callers : step[u] \in {"out", "lock", "reeval"}
    BY <1>1 DEF TakeLock, OneEvaluation
  <2>2. lock' = t /\ UNCHANGED local  BY <1>1 DEF TakeLock
  <2>3. PICK s \in {"unlock", "source"} : step' = [step EXCEPT ![t] = s]
    BY <1>1 DEF TakeLock
  <2> QED BY <2>1, <2>2, <2>3 DEF PublishesActive, OneEvaluation
<1>2. CASE ReadSource(t) \/ ReadReady(t)
  <2>1. \A u \in Callers : step'[u] = "publish" => step[u] = "publish" /\ local'[u] = local[u]
    BY <1>2 DEF ReadSource, ReadReady
  <2>2. \A u \in Callers : step'[u] \notin {"out", "lock", "reeval"}
           => step[u] \notin {"out", "lock", "reeval"}
    BY <1>2 DEF ReadSource, ReadReady
  <2>3. UNCHANGED lock  BY <1>2 DEF ReadSource, ReadReady
  <2> QED BY <2>1, <2>2, <2>3 DEF PublishesActive, OneEvaluation
<1>3. CASE DecideDark(t) \/ Publish(t)
  <2>1. UNCHANGED <<lock, local>> /\ step' = [step EXCEPT ![t] = "unlock"]
        /\ step[t] \in {"decide", "publish"}
    BY <1>3 DEF DecideDark, Publish
  <2> QED BY <2>1 DEF PublishesActive, OneEvaluation
<1>4. CASE DecideActive(t)
  <2>1. UNCHANGED lock /\ step' = [step EXCEPT ![t] = "publish"] /\ step[t] = "decide"
    BY <1>4 DEF DecideActive
  <2>2. PICK v \in Active : local' = [local EXCEPT ![t] = v]  BY <1>4 DEF DecideActive
  <2> QED BY <2>1, <2>2 DEF PublishesActive, OneEvaluation
<1>5. CASE Unlock(t)
  <2>1. lock = t /\ step' = [step EXCEPT ![t] = "out"]
    BY <1>5 DEF Unlock, OneEvaluation
  <2>2. \A u \in Callers \ {t} : step'[u] \in {"out", "lock", "reeval"}
    BY <2>1 DEF OneEvaluation
  <2>3. step'[t] = "out"  BY <2>1
  <2> QED BY <2>2, <2>3 DEF PublishesActive, OneEvaluation
<1> QED BY <1>1, <1>2, <1>3, <1>4, <1>5 DEF Evaluate

\* A task outside the critical section may queue for it.
LEMMA OutsideStep ==
    ASSUME PmTypeOK, PublishesActive, OneEvaluation, NEW t \in Callers,
           NEW s \in {"lock", "reeval"}, Goto(t, s), UNCHANGED <<lock, local>>
    PROVE  /\ step' \in [Callers -> {"out", "lock", "source", "ready", "decide",
                                     "publish", "unlock", "reeval"}]
           /\ PublishesActive' /\ OneEvaluation'
BY DEF PmTypeOK, Goto, PublishesActive, OneEvaluation

\* Steps that leave the evaluation alone leave its order alone.
LEMMA StillStep ==
    ASSUME PublishesActive, OneEvaluation, UNCHANGED <<step, lock, local>>
    PROVE  PublishesActive' /\ OneEvaluation'
BY DEF PublishesActive, OneEvaluation

PmInv == PmTypeOK /\ PublishesActive /\ OneEvaluation

LEMMA PmInitInv ==
    ASSUME PowerAssumption, PInit
    PROVE  PmInv
<1>1. PmTypeOK
  BY DEF PInit, PmInit, PmTypeOK, Sources, States, Nobody
<1>2. PublishesActive /\ OneEvaluation
  BY DEF PInit, PmInit, PublishesActive, OneEvaluation
<1> QED BY <1>1, <1>2 DEF PmInv

LEMMA PmNextInv ==
    ASSUME PowerAssumption, PmInv, [PNext]_vars
    PROVE  PmInv'
<1> USE DEF PmInv
<1>1. CASE \E t \in PolicyTasks : Evaluate(t)
  <2>1. PICK t \in Callers : Evaluate(t)  BY <1>1, TasksPost
  <2> QED BY <2>1, EvaluateType, EvaluateOrder
<1>2. /\ "main" \in Callers /\ "tps" \in Callers
      /\ "timer" \in Callers /\ "admin" \in Callers
  BY TasksPost
<1>3. CASE TpsSample
  <2>1. UNCHANGED <<step, lock, local>> /\ source' \in Sources
    BY <1>3 DEF TpsSample
  <2>2. PmTypeOK'
    BY <1>3, <2>1 DEF TpsSample, PmTypeOK, tpsVars, cfgVars, policyVars
  <2> QED BY <2>1, <2>2, StillStep
<1>4. CASE TpsReady \/ TpsChanged
  <2>1. Goto("tps", "lock") \/ UNCHANGED step
    BY <1>4 DEF TpsReady, TpsChanged, BeginEvaluate
  <2>2. UNCHANGED <<lock, local>>  BY <1>4 DEF TpsReady, TpsChanged
  <2>3. /\ step' \in [Callers -> {"out", "lock", "source", "ready", "decide",
                                  "publish", "unlock", "reeval"}]
        /\ PublishesActive' /\ OneEvaluation'
    BY <1>2, <2>1, <2>2, OutsideStep, StillStep DEF PmTypeOK
  <2>4. prevSource' \in Sources /\ source' \in Sources
        /\ tpsAt' \in {"sample", "ready", "changed"}
    BY <1>4 DEF TpsReady, TpsChanged, PmTypeOK
  <2>6. ready' \in BOOLEAN
    <3>1. CASE TpsReady  BY <3>1 DEF TpsReady
    <3>2. CASE TpsChanged  BY <3>2 DEF TpsChanged, PmTypeOK
    <3> QED BY <1>4, <3>1, <3>2
  <2>5. UNCHANGED <<cfgVars, boot, policyVars, settling>>
    BY <1>4 DEF TpsReady, TpsChanged
  <2> QED BY <2>2, <2>3, <2>4, <2>5, <2>6 DEF PmTypeOK, cfgVars, policyVars
<1>5. CASE SettleFires \/ Reeval
  <2>1. \E t \in Callers : Goto(t, "lock") \/ UNCHANGED step
    BY <1>2, <1>5 DEF SettleFires, Reeval, BeginEvaluate
  <2>2. UNCHANGED <<lock, local>>  BY <1>5 DEF SettleFires, Reeval
  <2>3. /\ step' \in [Callers -> {"out", "lock", "source", "ready", "decide",
                                  "publish", "unlock", "reeval"}]
        /\ PublishesActive' /\ OneEvaluation'
    BY <2>1, <2>2, OutsideStep, StillStep DEF PmTypeOK
  <2>4. settling' \in BOOLEAN /\ UNCHANGED <<tpsVars, cfgVars, boot, policyVars>>
    BY <1>5 DEF SettleFires, Reeval, PmTypeOK
  <2> QED BY <2>2, <2>3, <2>4 DEF PmTypeOK, tpsVars, cfgVars, policyVars
<1>6. CASE AppMain
  <2>1. Goto("main", "lock") \/ UNCHANGED step
    BY <1>6 DEF AppMain, LoadConfig, InitMonitor, WaitReady, StartManager, StartNetwork
  <2>2. UNCHANGED <<lock, local, tpsVars, cfgVars, policyVars, settling>>
    BY <1>6 DEF AppMain, LoadConfig, InitMonitor, WaitReady, StartManager, StartNetwork
  <2>3. boot' \in {"config", "monitor", "wait", "woken", "policy", "network"}
    BY <1>6 DEF AppMain, LoadConfig, InitMonitor, WaitReady, StartManager, StartNetwork
  <2>4. /\ step' \in [Callers -> {"out", "lock", "source", "ready", "decide",
                                  "publish", "unlock", "reeval"}]
        /\ PublishesActive' /\ OneEvaluation'
    BY <1>2, <2>1, <2>2, OutsideStep, StillStep DEF PmTypeOK
  <2> QED BY <2>2, <2>3, <2>4 DEF PmTypeOK, tpsVars, cfgVars, policyVars
<1>7. CASE HandleSetConfig
  <2>1. Goto("admin", "reeval") /\ powerMode' \in Modes /\ cap' \in Caps
        /\ UNCHANGED <<tpsVars, lock, boot, policyVars, settling, local>>
    BY <1>7 DEF HandleSetConfig
  <2>2. /\ step' \in [Callers -> {"out", "lock", "source", "ready", "decide",
                                  "publish", "unlock", "reeval"}]
        /\ PublishesActive' /\ OneEvaluation'
    BY <1>2, <2>1, OutsideStep
  <2> QED BY <2>1, <2>2 DEF PmTypeOK, tpsVars, policyVars
<1>8. CASE UNCHANGED pmVars
  BY <1>8, StillStep DEF pmVars, PmTypeOK, tpsVars, cfgVars, policyVars
<1>9. CASE HandleOn \/ (\E p \in AdminLevels : HandleDim(p)) \/ HandleOff \/ HandleIdentify
  <2>1. UNCHANGED pmVars
    BY <1>9 DEF HandleOn, HandleDim, HandleOff, HandleIdentify, AdminPost
  <2> QED BY <1>8, <2>1
<1>10. CASE (\E t \in Callers : Posting(t)) \/ DriverTask \/ UNCHANGED vars
  <2>1. UNCHANGED pmVars  BY <1>10 DEF Posting, DriverTask, vars
  <2> QED BY <1>8, <2>1
<1> QED BY <1>1, <1>3, <1>4, <1>5, <1>6, <1>7, <1>9, <1>10 DEF PNext, AdminRequest

-----------------------------------------------------------------------------
(* The whole power path. *)

AllInv == IInv /\ PmInv

\* The driver's invariant and the power manager's own, in every execution.
THEOREM PowerInvariance == PSpec => []AllInv
<1>1. PInit => AllInv
  BY InitInv, PmInitInv, Hv9910Assumption, PowerAssumption DEF PInit, AllInv
<1>2. AllInv /\ [PNext]_vars => AllInv'
  <2> SUFFICES ASSUME AllInv, [PNext]_vars PROVE AllInv'
    OBVIOUS
  <2>1. [Next]_hvVars
    BY StepsDriveHv, PowerAssumption DEF AllInv, PmInv, PmTypeOK
  <2>2. IInv'  BY <2>1, NextInv, Hv9910Assumption DEF AllInv
  <2>3. PmInv'  BY PmNextInv, PowerAssumption DEF AllInv
  <2> QED BY <2>2, <2>3 DEF AllInv
<1> QED BY <1>1, <1>2, PTL DEF PSpec

\* Every variable of the power path keeps its type, the published state is
\* always one of the four and the queue never exceeds its capacity.
THEOREM PowerTypeCorrect == PSpec => []PTypeOK
<1>1. IInv => TypeOK  BY DEF IInv, QueueInv, DriverInv, DriverTypeOK, TypeOK
<1>2. AllInv => PTypeOK  BY <1>1 DEF AllInv, PmInv, PmTypeOK, PTypeOK
<1> QED BY <1>2, PowerInvariance, PTL

\* Whatever the four tasks do, at most one of them is inside evaluate().
THEOREM EvaluateExclusive == PSpec => []OneEvaluation
<1>1. AllInv => OneEvaluation  BY DEF AllInv, PmInv
<1> QED BY <1>1, PowerInvariance, PTL

\* Inside the power path the LED still shows exactly the level under the cap
\* and the latch: the tasks reach the driver only through its queue.
THEOREM PowerRenders == PSpec => []RenderInSync
<1>1. AllInv => RenderInSync  BY DEF AllInv, IInv, DriverInv
<1> QED BY <1>1, PowerInvariance, PTL
=============================================================================
