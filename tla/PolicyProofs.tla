---------------------------- MODULE PolicyProofs ----------------------------
(***************************************************************************)
(* The published state and the cap are never out of date, for every        *)
(* schedule of the tasks: the policy loses no update of the source, the    *)
(* readiness or the configuration, and the driver ends under the cap that  *)
(* was decided last.                                                       *)
(***************************************************************************)
EXTENDS PowerManagerProofs

-----------------------------------------------------------------------------
(* The invariant.  StateIsCurrent speaks of the moments when nothing is    *)
(* under way; what makes it true is what holds in between.                 *)

Inside == {"source", "ready", "decide", "publish", "unlock"}

\* Readiness and source agree, except in the middle of a monitor iteration
\* that has seen a change; no task is asked to evaluate while it does.
MonitorInv ==
    /\ tpsAt # "ready" => ready = (source # "NONE")
    /\ tpsAt = "ready" => ready = (prevSource # "NONE") /\ step["tps"] = "out"
    /\ tpsAt = "sample" => prevSource = source
    /\ ~Started => step["main"] = "out"

\* Whoever holds the lock is inside evaluate().
HolderInside == \A t \in Callers : lock = t => step[t] \in Inside

\* An evaluation is still to come that starts after everything that changed.
Owed ==
    \/ ~Started
    \/ source # prevSource
    \/ step["tps"] = "lock" \/ step["main"] = "lock"
    \/ step["admin"] \in {"lock", "reeval"}

Current ==
    /\ state = Verdict(source, powerMode)
    /\ scalePct = ScaleOf(state, cap)

\* With none owed, the evaluation under way has read what is still so.
Faithful(t) ==
    /\ step[t] \in {"ready", "decide"} => local[t] = source
    /\ step[t] = "publish" => /\ local[t] = Verdict(source, powerMode)
                              /\ scalePct = ScaleOf(local[t], cap)
    /\ step[t] = "unlock" => Current

CurrentInv ==
    ~Owed => /\ lock = Nobody => Current
             /\ \A t \in Callers : lock = t => Faithful(t)

PolicyInv == PmInv /\ MonitorInv /\ HolderInside /\ CurrentInv

-----------------------------------------------------------------------------
(* Steps outside evaluate(). *)

\* A task that is not inside takes nothing from the one that is.
LEMMA OutsiderMoves ==
    ASSUME PmTypeOK, HolderInside, NEW t \in Callers, NEW s,
           step[t] \in {"out", "reeval"}, Goto(t, s), UNCHANGED lock
    PROVE  /\ HolderInside'
           /\ \A u \in Callers : lock = u => step'[u] = step[u]
           /\ \A u \in Callers \ {t} : step'[u] = step[u]
           /\ step'[t] = s
<1>1. step' = [step EXCEPT ![t] = s] /\ DOMAIN step = Callers
  BY DEF Goto, PmTypeOK
<1>2. lock # t  BY DEF HolderInside, Inside
<1> QED BY <1>1, <1>2 DEF HolderInside

\* What was current stays so while nothing the policy reads has moved.
LEMMA StillCurrent ==
    ASSUME CurrentInv, UNCHANGED <<state, scalePct, local, lock>>,
           \A u \in Callers : lock = u => step'[u] = step[u],
           ~Owed' => ~Owed /\ UNCHANGED <<source, powerMode, cap>>
    PROVE  CurrentInv'
BY DEF CurrentInv, Faithful, Current

\* A monitor iteration that sees a change always ends in a call to evaluate.
LEMMA MonitorStep ==
    ASSUME PowerAssumption, PolicyInv, TpsSample \/ TpsReady \/ TpsChanged
    PROVE  MonitorInv' /\ HolderInside' /\ CurrentInv'
<1> USE DEF PolicyInv, PmInv
<1>1. /\ "main" \in Callers /\ "tps" \in Callers /\ "admin" \in Callers
  BY TasksPost
<1>2. UNCHANGED <<state, scalePct, local, lock, boot, powerMode, cap>>
  BY DEF TpsSample, TpsReady, TpsChanged, cfgVars, policyVars
<1>3. Started' = Started  BY <1>2 DEF Started
<1>4. CASE TpsSample
  <2>1. UNCHANGED <<step, ready, prevSource>> /\ tpsAt = "sample" /\ tpsAt' = "ready"
        /\ step["tps"] = "out"
    BY <1>4 DEF TpsSample
  <2>2. prevSource = source /\ ready = (source # "NONE")  BY <2>1 DEF MonitorInv
  <2>3. MonitorInv'  BY <1>3, <2>1, <2>2 DEF MonitorInv
  <2>4. HolderInside'  BY <1>2, <2>1 DEF HolderInside
  <2>5. ~Owed' => ~Owed /\ UNCHANGED source  BY <1>3, <2>1, <2>2 DEF Owed
  <2> QED BY <1>2, <2>1, <2>3, <2>4, <2>5, StillCurrent
<1>5. CASE TpsReady
  <2>1. UNCHANGED <<source, prevSource>> /\ tpsAt = "ready" /\ tpsAt' = "changed"
        /\ ready' = (source # "NONE")
    BY <1>5 DEF TpsReady
  <2>2. step["tps"] = "out"  BY <2>1 DEF MonitorInv
  <2>3. Goto("tps", "lock") \/ UNCHANGED step  BY <1>5 DEF TpsReady, BeginEvaluate
  <2>4. CASE UNCHANGED step
    <3>1. MonitorInv'  BY <1>3, <2>1, <2>4 DEF MonitorInv
    <3>2. HolderInside'  BY <1>2, <2>4 DEF HolderInside
    <3>3. ~Owed' => ~Owed  BY <1>3, <2>1, <2>4 DEF Owed
    <3> QED BY <1>2, <2>1, <2>4, <3>1, <3>2, <3>3, StillCurrent
  <2>5. CASE Goto("tps", "lock")
    <3>1. /\ HolderInside' /\ step'["tps"] = "lock"
          /\ \A u \in Callers \ {"tps"} : step'[u] = step[u]
      BY <1>1, <1>2, <2>2, <2>5, OutsiderMoves
    <3>2. step'["main"] = step["main"]  BY <1>1, <3>1
    <3>3. MonitorInv'  BY <1>3, <2>1, <3>2 DEF MonitorInv
    <3>4. CurrentInv'  BY <3>1 DEF CurrentInv, Owed
    <3> QED BY <3>1, <3>3, <3>4
  <2> QED BY <2>3, <2>4, <2>5
<1>6. CASE TpsChanged
  <2>1. UNCHANGED <<source, ready>> /\ tpsAt = "changed" /\ tpsAt' = "sample"
        /\ prevSource' = source /\ step["tps"] = "out"
    BY <1>6 DEF TpsChanged
  <2>2. CASE Goto("tps", "lock")
    <3>1. /\ HolderInside' /\ step'["tps"] = "lock"
          /\ \A u \in Callers \ {"tps"} : step'[u] = step[u]
      BY <1>1, <1>2, <2>1, <2>2, OutsiderMoves
    <3>2. step'["main"] = step["main"]  BY <1>1, <3>1
    <3>3. MonitorInv'  BY <1>3, <2>1, <3>2 DEF MonitorInv
    <3>4. CurrentInv'  BY <3>1 DEF CurrentInv, Owed
    <3> QED BY <3>1, <3>3, <3>4
  <2>3. CASE UNCHANGED step /\ (source = prevSource \/ ~Started)
    <3>1. MonitorInv'  BY <1>3, <2>1, <2>3 DEF MonitorInv
    <3>2. HolderInside'  BY <1>2, <2>3 DEF HolderInside
    <3>3. ~Owed' => ~Owed  BY <1>3, <2>1, <2>3 DEF Owed
    <3> QED BY <1>2, <2>1, <2>3, <3>1, <3>2, <3>3, StillCurrent
  <2> QED BY <1>6, <2>2, <2>3 DEF TpsChanged, BeginEvaluate
<1> QED BY <1>4, <1>5, <1>6

\* The other calls for an evaluation, and the steps that call for none.
LEMMA OtherStep ==
    ASSUME PowerAssumption, PolicyInv, SettleFires \/ Reeval \/ AppMain \/ HandleSetConfig
    PROVE  MonitorInv' /\ HolderInside' /\ CurrentInv'
<1> USE DEF PolicyInv, PmInv
<1>1. /\ "main" \in Callers /\ "tps" \in Callers /\ "admin" \in Callers
      /\ "timer" \in Callers
  BY TasksPost
<1>2. UNCHANGED <<tpsVars, state, scalePct, local, lock>>
  BY DEF SettleFires, Reeval, AppMain, HandleSetConfig, policyVars,
         LoadConfig, InitMonitor, WaitReady, StartManager, StartNetwork
<1>3. UNCHANGED <<source, ready, prevSource, tpsAt>>  BY <1>2 DEF tpsVars
<1>4. CASE SettleFires
  <2>1. step["timer"] = "out" /\ Goto("timer", "lock")
        /\ UNCHANGED <<boot, powerMode, cap>>
    BY <1>4 DEF SettleFires, cfgVars
  <2>2. /\ HolderInside'
        /\ \A u \in Callers : lock = u => step'[u] = step[u]
        /\ \A u \in Callers \ {"timer"} : step'[u] = step[u]
    BY <1>1, <1>2, <2>1, OutsiderMoves
  <2>3. UNCHANGED <<step["tps"], step["main"], step["admin"]>>  BY <1>1, <2>2
  <2>4. MonitorInv'  BY <1>3, <2>1, <2>3 DEF MonitorInv, Started
  <2>5. ~Owed' => ~Owed  BY <1>3, <2>1, <2>3 DEF Owed, Started
  <2> QED BY <1>2, <1>3, <2>1, <2>2, <2>4, <2>5, StillCurrent
<1>5. CASE Reeval
  <2>1. step["admin"] = "reeval" /\ UNCHANGED <<boot, powerMode, cap>>
    BY <1>5 DEF Reeval, cfgVars
  <2>2. CASE Goto("admin", "lock")
    <3>1. /\ HolderInside' /\ step'["admin"] = "lock"
          /\ \A u \in Callers \ {"admin"} : step'[u] = step[u]
      BY <1>1, <1>2, <2>1, <2>2, OutsiderMoves
    <3>2. UNCHANGED <<step["tps"], step["main"]>>  BY <1>1, <3>1
    <3>3. MonitorInv'  BY <1>3, <2>1, <3>2 DEF MonitorInv, Started
    <3>4. CurrentInv'  BY <3>1 DEF CurrentInv, Owed
    <3> QED BY <3>1, <3>3, <3>4
  <2>3. CASE UNCHANGED step
    <3>1. MonitorInv'  BY <1>3, <2>1, <2>3 DEF MonitorInv, Started
    <3>2. HolderInside'  BY <1>2, <2>3 DEF HolderInside
    <3>3. ~Owed' => ~Owed  BY <1>3, <2>1, <2>3 DEF Owed, Started
    <3> QED BY <1>2, <1>3, <2>1, <2>3, <3>1, <3>2, <3>3, StillCurrent
  <2> QED BY <1>5, <2>2, <2>3 DEF Reeval, BeginEvaluate
<1>6. CASE StartManager
  <2>1. ~Started /\ Started' /\ Goto("main", "lock")
    BY <1>6 DEF StartManager, Started
  <2>2. step["main"] = "out"  BY <2>1 DEF MonitorInv
  <2>3. /\ HolderInside' /\ step'["main"] = "lock"
        /\ \A u \in Callers \ {"main"} : step'[u] = step[u]
    BY <1>1, <1>2, <2>1, <2>2, OutsiderMoves
  <2>4. step'["tps"] = step["tps"]  BY <1>1, <2>3
  <2>5. MonitorInv'  BY <1>3, <2>1, <2>4 DEF MonitorInv
  <2>6. CurrentInv'  BY <2>3 DEF CurrentInv, Owed
  <2> QED BY <2>3, <2>5, <2>6
<1>7. CASE LoadConfig \/ InitMonitor \/ WaitReady \/ StartNetwork
  <2>1. UNCHANGED <<step, powerMode, cap>>
    BY <1>7 DEF LoadConfig, InitMonitor, WaitReady, StartNetwork, cfgVars
  <2>2. Started' = Started
    BY <1>7 DEF LoadConfig, InitMonitor, WaitReady, StartNetwork, Started
  <2>3. MonitorInv'  BY <1>3, <2>1, <2>2 DEF MonitorInv
  <2>4. HolderInside'  BY <1>2, <2>1 DEF HolderInside
  <2>5. ~Owed' => ~Owed  BY <1>3, <2>1, <2>2 DEF Owed
  <2> QED BY <1>2, <1>3, <2>1, <2>3, <2>4, <2>5, StillCurrent
<1>8. CASE HandleSetConfig
  <2>1. step["admin"] = "out" /\ Goto("admin", "reeval") /\ UNCHANGED boot
    BY <1>8 DEF HandleSetConfig, AdminIdle
  <2>2. /\ HolderInside' /\ step'["admin"] = "reeval"
        /\ \A u \in Callers \ {"admin"} : step'[u] = step[u]
    BY <1>1, <1>2, <2>1, OutsiderMoves
  <2>3. UNCHANGED <<step["tps"], step["main"]>>  BY <1>1, <2>2
  <2>4. MonitorInv'  BY <1>3, <2>1, <2>3 DEF MonitorInv, Started
  <2>5. CurrentInv'  BY <2>2 DEF CurrentInv, Owed
  <2> QED BY <2>2, <2>4, <2>5
<1> QED BY <1>4, <1>5, <1>6, <1>7, <1>8 DEF AppMain

-----------------------------------------------------------------------------
(* Steps of evaluate(). *)

\* A task inside moves on; nobody else is inside, and the monitor does not
\* look away from its own evaluation.
LEMMA InsiderMoves ==
    ASSUME PowerAssumption, PolicyInv, NEW t \in PolicyTasks, NEW s,
           step[t] \in Inside \cup {"lock"}, Goto(t, s),
           UNCHANGED <<tpsVars, boot>>
    PROVE  /\ MonitorInv'
           /\ step'[t] = s
           /\ \A u \in Callers \ {t} : step'[u] = step[u]
           /\ step[t] \in Inside => lock = t
           /\ t # "timer" /\ step[t] \in Inside /\ s \in Inside \cup {"out"}
                => Owed' = Owed
           /\ t = "timer" => Owed' = Owed
<1> USE DEF PolicyInv, PmInv
<1>1. /\ "main" \in Callers /\ "tps" \in Callers /\ "admin" \in Callers
      /\ t \in Callers
  BY TasksPost
<1>2. step' = [step EXCEPT ![t] = s] /\ DOMAIN step = Callers
  BY DEF Goto, PmTypeOK
<1>3. step'[t] = s /\ \A u \in Callers \ {t} : step'[u] = step[u]  BY <1>1, <1>2
<1>4. UNCHANGED <<source, ready, prevSource, tpsAt>> /\ Started' = Started
  BY DEF tpsVars, Started
<1>5. step[t] # "out"  BY DEF Inside
<1>6. MonitorInv'
  <2>1. tpsAt = "ready" => t # "tps"  BY <1>5 DEF MonitorInv
  <2>2. ~Started => t # "main"  BY <1>5 DEF MonitorInv
  <2> QED BY <1>1, <1>3, <1>4, <2>1, <2>2 DEF MonitorInv
<1>7. step[t] \in Inside => lock = t  BY <1>1 DEF OneEvaluation, Inside
<1>8. ASSUME step[t] \in Inside, s \in Inside \cup {"out"} PROVE Owed' = Owed
  <2>1. \A u \in Callers : (step'[u] = "lock") = (step[u] = "lock")
                           /\ (step'[u] = "reeval") = (step[u] = "reeval")
    BY <1>3, <1>8 DEF Inside
  <2> QED BY <1>1, <1>4, <2>1 DEF Owed
<1>9. t = "timer" => Owed' = Owed  BY <1>1, <1>3, <1>4 DEF Owed
<1> QED BY <1>3, <1>6, <1>7, <1>8, <1>9

\* What an evaluation reads, decides and publishes stays true to the source
\* and the configuration unless another evaluation has become due.
LEMMA EvaluateStep ==
    ASSUME PowerAssumption, PolicyInv, NEW t \in PolicyTasks, Evaluate(t)
    PROVE  MonitorInv' /\ HolderInside' /\ CurrentInv'
<1> USE DEF PolicyInv, PmInv
<1>1. t \in Callers /\ Nobody \notin Callers  BY TasksPost
<1>t. "tps" \in Callers /\ "main" \in Callers /\ "admin" \in Callers  BY TasksPost
<1>2. UNCHANGED <<tpsVars, boot, source, ready, powerMode, cap>>
  BY DEF Evaluate, TakeLock, ReadSource, ReadReady, DecideDark, DecideActive,
         Publish, Unlock, tpsVars, cfgVars
<1>3. CASE TakeLock(t)
  <2>1. lock = Nobody /\ lock' = t /\ step[t] = "lock"
        /\ UNCHANGED <<state, scalePct, local>>
    BY <1>3 DEF TakeLock
  <2>2. PICK s \in {"unlock", "source"} :
           Goto(t, s) /\ (s = "unlock" => t = "timer")
    BY <1>3 DEF TakeLock
  <2>3. MonitorInv' /\ step'[t] = s /\ (t = "timer" => Owed' = Owed)
    BY <1>2, <2>1, <2>2, InsiderMoves
  <2>4. HolderInside'  BY <1>1, <2>1, <2>3 DEF HolderInside, Inside
  <2>5. CASE s = "source"
    <3>1. Faithful(t)'  BY <2>3, <2>5 DEF Faithful
    <3> QED BY <1>1, <2>1, <2>3, <2>4, <3>1 DEF CurrentInv
  <2>6. CASE s = "unlock"
    <3>1. ~Owed' => Current  BY <2>1, <2>2, <2>3, <2>6 DEF CurrentInv
    <3>2. Current => Current'  BY <1>2, <2>1 DEF Current
    <3>3. ~Owed' => Faithful(t)'  BY <2>3, <2>6, <3>1, <3>2 DEF Faithful
    <3> QED BY <1>1, <2>1, <2>3, <2>4, <3>3 DEF CurrentInv
  <2> QED BY <2>5, <2>6
<1>4. ASSUME NEW s \in Inside, step[t] \in Inside, Goto(t, s), UNCHANGED lock,
             lock = t /\ step'[t] = s /\ ~Owed /\ Faithful(t) => Faithful(t)'
      PROVE  MonitorInv' /\ HolderInside' /\ CurrentInv'
  <2>1. /\ MonitorInv' /\ step'[t] = s /\ lock = t
        /\ Owed' = Owed
    BY <1>2, <1>4, InsiderMoves
  <2>2. HolderInside'  BY <1>1, <1>4, <2>1 DEF HolderInside
  <2>3. ~Owed' => Faithful(t)  BY <1>1, <2>1 DEF CurrentInv
  <2> QED BY <1>1, <1>4, <2>1, <2>2, <2>3 DEF CurrentInv
<1>5. CASE ReadSource(t)
  <2>1. step[t] = "source" /\ Goto(t, "ready") /\ UNCHANGED lock
        /\ local' = [local EXCEPT ![t] = source]
    BY <1>5 DEF ReadSource
  <2>2. local'[t] = source  BY <1>1, <2>1 DEF PmTypeOK
  <2>3. step'[t] = "ready" => Faithful(t)'  BY <1>2, <2>2 DEF Faithful
  <2> QED BY <1>4, <2>1, <2>3 DEF Inside
<1>6. CASE ReadReady(t)
  <2>1. step[t] = "ready" /\ Goto(t, "decide") /\ UNCHANGED lock
        /\ local' = [local EXCEPT ![t] = IF ready THEN @ ELSE "NONE"]
    BY <1>6 DEF ReadReady
  <2>2. local'[t] = IF ready THEN local[t] ELSE "NONE"  BY <1>1, <2>1 DEF PmTypeOK
  <2>3. ~Owed => ready = (source # "NONE")  BY DEF MonitorInv, Owed
  <2>4. step'[t] = "decide" /\ ~Owed /\ Faithful(t) => Faithful(t)'
    BY <1>2, <2>1, <2>2, <2>3 DEF Faithful
  <2> QED BY <1>4, <2>1, <2>4 DEF Inside
<1>7. CASE DecideDark(t)
  <2>1. step[t] = "decide" /\ Goto(t, "unlock") /\ UNCHANGED lock
        /\ state' = Verdict(local[t], powerMode) /\ state' \notin Active
        /\ scalePct' = 100
    BY <1>7 DEF DecideDark
  <2>2. scalePct' = ScaleOf(state', cap)  BY <2>1 DEF ScaleOf, Active
  <2>3. Faithful(t) => Current'  BY <1>2, <2>1, <2>2 DEF Faithful, Current
  <2>4. step'[t] = "unlock" /\ Faithful(t) => Faithful(t)'  BY <2>3 DEF Faithful
  <2> QED BY <1>4, <2>1, <2>4 DEF Inside
<1>8. CASE DecideActive(t)
  <2>1. step[t] = "decide" /\ Goto(t, "publish") /\ UNCHANGED lock
    BY <1>8 DEF DecideActive
  <2>2. local' = [local EXCEPT ![t] = Verdict(local[t], powerMode)]
        /\ scalePct' = ScaleOf(Verdict(local[t], powerMode), cap)
    BY <1>8 DEF DecideActive
  <2>3. local'[t] = Verdict(local[t], powerMode)  BY <1>1, <2>2 DEF PmTypeOK
  <2>4. step'[t] = "publish" /\ Faithful(t) => Faithful(t)'
    BY <1>2, <2>1, <2>2, <2>3 DEF Faithful
  <2> QED BY <1>4, <2>1, <2>4 DEF Inside
<1>9. CASE Publish(t)
  <2>1. step[t] = "publish" /\ Goto(t, "unlock") /\ UNCHANGED <<lock, scalePct>>
        /\ state' = local[t]
    BY <1>9 DEF Publish
  <2>2. Faithful(t) => Current'  BY <1>2, <2>1 DEF Faithful, Current
  <2>3. step'[t] = "unlock" /\ Faithful(t) => Faithful(t)'  BY <2>2 DEF Faithful
  <2> QED BY <1>4, <2>1, <2>3 DEF Inside
<1>10. CASE Unlock(t)
  <2>1. step[t] = "unlock" /\ Goto(t, "out") /\ lock' = Nobody
        /\ UNCHANGED <<state, scalePct>>
    BY <1>10 DEF Unlock, policyVars
  <2>2. /\ MonitorInv' /\ lock = t /\ Owed' = Owed
    BY <1>2, <2>1, InsiderMoves DEF Inside
  <2>3. HolderInside'  BY <1>1, <2>1 DEF HolderInside
  <2>4. ~Owed => Current  BY <1>1, <2>1, <2>2 DEF CurrentInv, Faithful
  <2>5. Current => Current'  BY <1>2, <2>1 DEF Current
  <2> QED BY <1>1, <2>1, <2>2, <2>3, <2>4, <2>5 DEF CurrentInv
<1> QED BY <1>3, <1>5, <1>6, <1>7, <1>8, <1>9, <1>10 DEF Evaluate

-----------------------------------------------------------------------------

LEMMA PolicyInit ==
    ASSUME PowerAssumption, PInit
    PROVE  PolicyInv
<1>1. PmInv  BY PmInitInv
<1>2. "main" \in Callers /\ "tps" \in Callers  BY TasksPost
<1>3. MonitorInv  BY <1>2 DEF PInit, PmInit, MonitorInv
<1>4. HolderInside /\ CurrentInv
  BY TasksPost DEF PInit, PmInit, HolderInside, CurrentInv, Owed, Started
<1> QED BY <1>1, <1>3, <1>4 DEF PolicyInv

\* Steps of others leave the policy's invariant alone.
LEMMA StillPolicy ==
    ASSUME MonitorInv, HolderInside, CurrentInv, UNCHANGED pmVars
    PROVE  MonitorInv' /\ HolderInside' /\ CurrentInv'
<1>1. UNCHANGED <<source, ready, prevSource, tpsAt, powerMode, cap, lock, boot,
                  state, scalePct, step, local>>
  BY DEF pmVars, tpsVars, cfgVars, policyVars
<1>2. MonitorInv' /\ HolderInside'  BY <1>1 DEF MonitorInv, HolderInside, Started
<1>3. ~Owed' => ~Owed  BY <1>1 DEF Owed, Started
<1>4. CurrentInv'  BY <1>1, <1>3, StillCurrent
<1> QED BY <1>2, <1>4

LEMMA PolicyNext ==
    ASSUME PowerAssumption, PolicyInv, [PNext]_vars
    PROVE  PolicyInv'
<1>1. PmInv'  BY PmNextInv DEF PolicyInv
<1>2. ASSUME UNCHANGED pmVars PROVE PolicyInv'
  BY <1>1, <1>2, StillPolicy DEF PolicyInv
<1>3. CASE \E t \in PolicyTasks : Evaluate(t)
  BY <1>1, <1>3, EvaluateStep DEF PolicyInv
<1>4. CASE TpsSample \/ TpsReady \/ TpsChanged
  BY <1>1, <1>4, MonitorStep DEF PolicyInv
<1>5. CASE SettleFires \/ Reeval \/ AppMain \/ HandleSetConfig
  BY <1>1, <1>5, OtherStep DEF PolicyInv
<1>6. CASE HandleOn \/ (\E p \in AdminLevels : HandleDim(p)) \/ HandleOff \/ HandleIdentify
  BY <1>2, <1>6 DEF HandleOn, HandleDim, HandleOff, HandleIdentify, AdminPost
<1>7. CASE (\E t \in Callers : Posting(t)) \/ DriverTask \/ UNCHANGED vars
  BY <1>2, <1>7 DEF Posting, DriverTask, vars
<1> QED BY <1>3, <1>4, <1>5, <1>6, <1>7 DEF PNext, AdminRequest

\* Monitor, lock holder and decision stay consistent in every execution.
THEOREM PolicyInvariance == PSpec => []PolicyInv
<1>1. PInit => PolicyInv  BY PolicyInit, PowerAssumption
<1>2. PolicyInv /\ [PNext]_vars => PolicyInv'  BY PolicyNext, PowerAssumption
<1> QED BY <1>1, <1>2, PTL DEF PSpec

\* With nothing under way nothing is owed and nobody holds the lock.
LEMMA SettledIsCurrent ==
    ASSUME PowerAssumption
    PROVE  PolicyInv => StateIsCurrent
<1> SUFFICES ASSUME PolicyInv, PolicySettled
             PROVE  /\ state = Verdict(IF ready THEN source ELSE "NONE", powerMode)
                    /\ scalePct = ScaleOf(state, cap)
  BY DEF StateIsCurrent
<1> USE DEF PolicyInv
<1>1. ready = (source # "NONE") /\ prevSource = source
  BY DEF PolicySettled, MonitorInv
<1>2. ~Owed  BY <1>1, TasksPost DEF PolicySettled, Owed
<1>3. lock = Nobody
  BY DEF PolicySettled, HolderInside, Inside, PmInv, PmTypeOK
<1>4. Current  BY <1>2, <1>3 DEF CurrentInv
<1> QED BY <1>1, <1>4 DEF Current

\* No interleaving of the monitor, the timer, the boot and the admin task
\* loses an update: whenever nothing is under way, the published state and
\* cap answer the live source, readiness and configuration.
THEOREM PolicyIsCurrent == PSpec => []StateIsCurrent
BY SettledIsCurrent, PowerAssumption, PolicyInvariance, PTL

-----------------------------------------------------------------------------
(* The cap on its way to the driver.  From here on the driver task keeps   *)
(* up: a caller never meets a full queue, so no command is given up.       *)

IsCap(cmd) == cmd.type = "SET_SCALE"
CapOnItsWay(t) == call[t].at = "send" /\ IsCap(call[t].cmd)

\* Nobody waits with the wrong cap, or throws a command away.
CapCalls ==
    \A t \in Callers :
      /\ call[t].at \notin {"discard", "retry"}
      /\ CapOnItsWay(t) => step[t] = "publish" /\ call[t].cmd = SetScale(scalePct)

\* The last cap in the queue, or else the one in force, is the decided one.
CapLast ==
    /\ \A k \in 1..Len(queue) :
         IsCap(queue[k]) => \/ queue[k] = SetScale(scalePct)
                            \/ \E j \in (k + 1)..Len(queue) : IsCap(queue[j])
    /\ (\A k \in 1..Len(queue) : ~IsCap(queue[k])) => scale = scalePct

Decided == state \in Active \/ \E t \in Callers : step[t] = "publish"
NoCapOnItsWay == \A t \in Callers : ~CapOnItsWay(t)

CapInv ==
    /\ taskReady /\ CapCalls
    /\ Decided /\ NoCapOnItsWay => CapLast

\* Commands that carry no cap.
LEMMA NotCaps ==
    /\ ~IsCap(Enable) /\ ~IsCap(Disable) /\ ~IsCap(Identify) /\ ~IsCap(EmergencyOff)
    /\ \A d : ~IsCap(ApplyDimming(d))
    /\ \A o, p : ~IsCap(SetPending(o, p))
    /\ \A p : ~IsCap(EnableAt(p))
BY DEF IsCap, Enable, EnableAt, Disable, Identify, EmergencyOff, ApplyDimming, SetPending

\* A decided cap passes the driver's clamp unchanged.
LEMMA CapsArePercent == ASSUME PowerAssumption PROVE Caps \cup {100} \subseteq 1..100
BY DEF PowerAssumption

\* A post that is no cap leaves the caps on their way as they are.
LEMMA OrdinaryPost ==
    ASSUME QueueInv, taskReady, NEW c \in Callers, NEW cmd, ~IsCap(cmd), Post(c, cmd)
    PROVE  /\ UNCHANGED <<taskReady, queue, scale>>
           /\ \A u \in Callers : CapOnItsWay(u)' = CapOnItsWay(u)
           /\ \A u \in Callers : CapOnItsWay(u) => call'[u] = call[u]
           /\ \A u \in Callers : call'[u].at \in {"discard", "retry"}
                                   => call[u].at \in {"discard", "retry"}
<1>1. UNCHANGED <<taskReady, queue, scale>>  BY DEF Post, driver
<1>2. PICK s \in {[at |-> "front"], [at |-> "send", cmd |-> cmd]} :
         call' = [call EXCEPT ![c] = s]
  BY DEF Post
<1>3. call[c].at = "idle" /\ DOMAIN call = Callers  BY DEF Post, Idle, QueueInv
<1>4. call'[c] = s /\ \A u \in Callers \ {c} : call'[u] = call[u]  BY <1>2, <1>3
<1>5. ~CapOnItsWay(c) /\ ~CapOnItsWay(c)' /\ call'[c].at \notin {"discard", "retry"}
  <2>1. CASE s = [at |-> "front"]  BY <1>3, <1>4, <2>1 DEF CapOnItsWay
  <2>2. CASE s = [at |-> "send", cmd |-> cmd]  BY <1>3, <1>4, <2>2 DEF CapOnItsWay, IsCap
  <2> QED BY <2>1, <2>2
<1>6. \A u \in Callers \ {c} : CapOnItsWay(u)' = CapOnItsWay(u)
  BY <1>4 DEF CapOnItsWay
<1>7. CapOnItsWay(c)' = CapOnItsWay(c)  BY <1>5 DEF CapOnItsWay, IsCap
<1>8. \A u \in Callers : CapOnItsWay(u)' = CapOnItsWay(u)  BY <1>6, <1>7
<1>9. \A u \in Callers : CapOnItsWay(u) => call'[u] = call[u]  BY <1>4, <1>5
<1>10. \A u \in Callers : call'[u].at \in {"discard", "retry"}
                           => call[u].at \in {"discard", "retry"}
  BY <1>4, <1>5
<1> QED BY <1>1, <1>8, <1>9, <1>10

\* So the invariant survives it, while the decision and the publishers stand.
LEMMA OrdinaryKeepsCaps ==
    ASSUME CapInv, UNCHANGED <<taskReady, queue, scale, scalePct>>,
           \A u \in Callers : CapOnItsWay(u)' = CapOnItsWay(u),
           \A u \in Callers : CapOnItsWay(u) =>
               call'[u] = call[u] /\ (step[u] = "publish" => step'[u] = "publish"),
           \A u \in Callers : call'[u].at \in {"discard", "retry"}
                                => call[u].at \in {"discard", "retry"},
           Decided' => Decided
    PROVE  CapInv'
<1>1. CapCalls'
  <2> SUFFICES ASSUME NEW u \in Callers
               PROVE  /\ call'[u].at \notin {"discard", "retry"}
                      /\ CapOnItsWay(u)' => /\ step'[u] = "publish"
                                            /\ call'[u].cmd = SetScale(scalePct)'
    BY DEF CapCalls
  <2>1. SetScale(scalePct)' = SetScale(scalePct)  BY DEF SetScale
  <2> QED BY <2>1 DEF CapInv, CapCalls
<1>2. CapLast' = CapLast  BY DEF CapLast, SetScale
<1>3. NoCapOnItsWay' => NoCapOnItsWay  BY DEF NoCapOnItsWay
<1> QED BY <1>1, <1>2, <1>3 DEF CapInv

\* Steps that neither publish nor post a cap leave the caps where they are.
LEMMA ElsewhereKeepsCaps ==
    ASSUME QueueInv, CapInv, UNCHANGED <<state, scalePct>>,
           \A u \in Callers : (step'[u] = "publish") = (step[u] = "publish"),
           \/ UNCHANGED hvVars
           \/ \E c \in Callers : \E cmd : ~IsCap(cmd) /\ Post(c, cmd)
    PROVE  CapInv'
<1>1. Decided' => Decided  BY DEF Decided
<1>2. CASE UNCHANGED hvVars
  <2>1. UNCHANGED <<taskReady, queue, scale, call>>  BY <1>2 DEF hvVars, driver
  <2>2. \A u \in Callers : CapOnItsWay(u)' = CapOnItsWay(u)
    BY <2>1 DEF CapOnItsWay
  <2> QED BY <1>1, <2>1, <2>2, OrdinaryKeepsCaps
<1>3. ASSUME NEW c \in Callers, NEW cmd, ~IsCap(cmd), Post(c, cmd) PROVE CapInv'
  <2>1. taskReady  BY DEF CapInv
  <2>2. /\ UNCHANGED <<taskReady, queue, scale>>
        /\ \A u \in Callers : CapOnItsWay(u)' = CapOnItsWay(u)
        /\ \A u \in Callers : CapOnItsWay(u) => call'[u] = call[u]
        /\ \A u \in Callers : call'[u].at \in {"discard", "retry"}
                                => call[u].at \in {"discard", "retry"}
    BY <1>3, <2>1, OrdinaryPost
  <2> QED BY <1>1, <2>2, OrdinaryKeepsCaps
<1> QED BY <1>2, <1>3

\* Only one task is at the point of publishing, and then it holds the lock.
LEMMA CapEvaluate ==
    ASSUME PowerAssumption, AllInv, CapInv, NEW t \in Callers, Evaluate(t)
    PROVE  CapInv'
<1> USE DEF AllInv, IInv, PmInv
<1>1. DOMAIN step = Callers /\ DOMAIN call = Callers  BY DEF PmTypeOK, QueueInv
<1>2. CASE TakeLock(t) \/ ReadSource(t) \/ ReadReady(t) \/ Unlock(t)
  <2>1. UNCHANGED <<hvVars, state, scalePct>> /\ step[t] # "publish"
    BY <1>2 DEF TakeLock, ReadSource, ReadReady, Unlock, policyVars
  <2>2. PICK s : Goto(t, s) /\ s # "publish"
    BY <1>2 DEF TakeLock, ReadSource, ReadReady, Unlock
  <2>3. \A u \in Callers : (step'[u] = "publish") = (step[u] = "publish")
    BY <1>1, <2>1, <2>2 DEF Goto
  <2>4. UNCHANGED <<taskReady, queue, scale, call>>  BY <2>1 DEF hvVars, driver
  <2>5. Decided' => Decided  BY <2>1, <2>3 DEF Decided
  <2> QED BY <2>1, <2>3, <2>4, <2>5, OrdinaryKeepsCaps DEF CapOnItsWay
<1>3. CASE DecideDark(t)
  <2>1. step[t] = "decide" /\ Goto(t, "unlock") /\ Post(t, EmergencyOff)
        /\ state' \notin Active
    BY <1>3 DEF DecideDark
  <2>2. \A u \in Callers : step[u] # "publish"
    BY <2>1 DEF OneEvaluation
  <2>3. \A u \in Callers : step'[u] # "publish"  BY <1>1, <2>1, <2>2 DEF Goto
  <2>4. NoCapOnItsWay  BY <2>2 DEF NoCapOnItsWay, CapInv, CapCalls
  <2>5. /\ taskReady'
        /\ \A u \in Callers : ~CapOnItsWay(u)'
        /\ \A u \in Callers : call'[u].at \notin {"discard", "retry"}
    BY <2>1, <2>4, NotCaps, OrdinaryPost DEF CapInv, CapCalls, NoCapOnItsWay
  <2>6. ~Decided'  BY <2>1, <2>3 DEF Decided
  <2> QED BY <2>5, <2>6 DEF CapInv, CapCalls
<1>4. CASE DecideActive(t)
  <2>1. step[t] = "decide" /\ Goto(t, "publish")  BY <1>4 DEF DecideActive
  <2>2. Post(t, SetScale(scalePct'))  BY <1>4 DEF DecideActive
  <2>3. \A u \in Callers : ~CapOnItsWay(u)
    <3>1. \A u \in Callers : step[u] # "publish"  BY <2>1 DEF OneEvaluation
    <3> QED BY <3>1 DEF CapInv, CapCalls
  <2>4. SetScale(scalePct') # EmergencyOff  BY DEF SetScale, EmergencyOff
  <2>5. call' = [call EXCEPT ![t] = [at |-> "send", cmd |-> SetScale(scalePct')]]
        /\ taskReady'
    BY <2>2, <2>4 DEF Post, CapInv
  <2>6. call'[t] = [at |-> "send", cmd |-> SetScale(scalePct')]
        /\ \A u \in Callers \ {t} : call'[u] = call[u]
    BY <1>1, <2>5
  <2>7. CapOnItsWay(t)'  BY <2>6 DEF CapOnItsWay, IsCap, SetScale
  <2>8. \A u \in Callers \ {t} : ~CapOnItsWay(u)'  BY <2>3, <2>6 DEF CapOnItsWay
  <2>9. step'[t] = "publish"  BY <1>1, <2>1 DEF Goto
  <2>10. call'[t].cmd = SetScale(scalePct)'  BY <2>6 DEF SetScale
  <2>11. \A u \in Callers : call'[u].at \notin {"discard", "retry"}
    BY <2>6 DEF CapInv, CapCalls
  <2>12. CapCalls'  BY <2>8, <2>9, <2>10, <2>11 DEF CapCalls
  <2>13. ~NoCapOnItsWay'  BY <2>7 DEF NoCapOnItsWay
  <2> QED BY <2>5, <2>12, <2>13 DEF CapInv
<1>5. CASE Publish(t)
  <2>1. step[t] = "publish" /\ Goto(t, "unlock") /\ call[t] = Idle /\ UNCHANGED scalePct
        /\ (UNCHANGED hvVars \/ Post(t, Enable))
    BY <1>5 DEF Publish
  <2>2. Decided  BY <2>1 DEF Decided
  <2>3. ~CapOnItsWay(t)  BY <2>1 DEF CapOnItsWay, Idle
  <2>4. \A u \in Callers \ {t} : step'[u] = step[u]  BY <1>1, <2>1 DEF Goto
  <2>5. /\ UNCHANGED <<taskReady, queue, scale>>
        /\ \A u \in Callers : CapOnItsWay(u)' = CapOnItsWay(u)
        /\ \A u \in Callers : CapOnItsWay(u) => call'[u] = call[u]
        /\ \A u \in Callers : call'[u].at \in {"discard", "retry"}
                                => call[u].at \in {"discard", "retry"}
    <3>1. CASE UNCHANGED hvVars  BY <3>1 DEF hvVars, driver, CapOnItsWay
    <3>2. CASE Post(t, Enable)  BY <3>2, NotCaps, OrdinaryPost DEF CapInv
    <3> QED BY <2>1, <3>1, <3>2
  <2> QED BY <2>1, <2>2, <2>3, <2>4, <2>5, OrdinaryKeepsCaps
<1> QED BY <1>2, <1>3, <1>4, <1>5 DEF Evaluate

-----------------------------------------------------------------------------
(* The queue. *)

\* Appending the decided cap makes it the last one.
LEMMA AppendCap ==
    ASSUME queue \in Seq(Command), queue' = Append(queue, SetScale(scalePct)),
           UNCHANGED scalePct
    PROVE  CapLast'
<1>1. /\ Len(queue) \in Nat /\ Len(queue') = Len(queue) + 1
      /\ queue'[Len(queue) + 1] = SetScale(scalePct)
  OBVIOUS
<1>2. IsCap(queue'[Len(queue) + 1])  BY <1>1 DEF IsCap, SetScale
<1>3. SetScale(scalePct)' = SetScale(scalePct)  BY DEF SetScale
<1>4. ASSUME NEW k \in 1..Len(queue')
      PROVE  \/ queue'[k] = SetScale(scalePct)'
             \/ \E j \in (k + 1)..Len(queue') : IsCap(queue'[j])
  <2>1. CASE k = Len(queue) + 1  BY <1>1, <1>3, <2>1
  <2>2. CASE k # Len(queue) + 1
    <3>1. Len(queue) + 1 \in (k + 1)..Len(queue')  BY <1>1, <2>2
    <3> QED BY <1>2, <3>1
  <2> QED BY <2>1, <2>2
<1>5. Len(queue) + 1 \in 1..Len(queue')  BY <1>1
<1> QED BY <1>2, <1>4, <1>5 DEF CapLast, IsCap

\* Appending anything else leaves the last cap where it is.
LEMMA AppendOrdinary ==
    ASSUME queue \in Seq(Command), NEW cmd, ~IsCap(cmd), queue' = Append(queue, cmd),
           UNCHANGED <<scalePct, scale>>, CapLast
    PROVE  CapLast'
<1>1. /\ Len(queue) \in Nat /\ Len(queue') = Len(queue) + 1
      /\ queue'[Len(queue) + 1] = cmd
      /\ \A i \in 1..Len(queue) : queue'[i] = queue[i]
  OBVIOUS
<1>2. SetScale(scalePct)' = SetScale(scalePct)  BY DEF SetScale
<1>3. ASSUME NEW k \in 1..Len(queue'), IsCap(queue'[k])
      PROVE  \/ queue'[k] = SetScale(scalePct)'
             \/ \E j \in (k + 1)..Len(queue') : IsCap(queue'[j])
  <2>1. k \in 1..Len(queue) /\ IsCap(queue[k])  BY <1>1, <1>3
  <2>2. CASE queue[k] = SetScale(scalePct)  BY <1>1, <1>2, <2>1, <2>2
  <2>3. ASSUME NEW j \in (k + 1)..Len(queue), IsCap(queue[j])
        PROVE  \E i \in (k + 1)..Len(queue') : IsCap(queue'[i])
    <3>1. j \in 1..Len(queue) /\ j \in (k + 1)..Len(queue')  BY <1>1
    <3> QED BY <1>1, <2>3, <3>1
  <2> QED BY <2>1, <2>2, <2>3 DEF CapLast
<1>4. ASSUME \A k \in 1..Len(queue') : ~IsCap(queue'[k]) PROVE scale' = scalePct'
  <2>1. \A k \in 1..Len(queue) : k \in 1..Len(queue') /\ ~IsCap(queue[k])
    BY <1>1, <1>4
  <2> QED BY <2>1 DEF CapLast
<1> QED BY <1>3, <1>4 DEF CapLast, IsCap

\* Nor does an emergency at the front move it.
LEMMA PushOrdinary ==
    ASSUME queue \in Seq(Command), queue' = <<EmergencyOff>> \o queue,
           UNCHANGED <<scalePct, scale>>, CapLast
    PROVE  CapLast'
<1>1. /\ Len(queue) \in Nat /\ Len(queue') = Len(queue) + 1
      /\ queue'[1] = EmergencyOff
      /\ \A i \in 2..(Len(queue) + 1) : queue'[i] = queue[i - 1]
      /\ \A i \in 1..Len(queue) : queue'[i + 1] = queue[i]
  OBVIOUS
<1>2. SetScale(scalePct)' = SetScale(scalePct)  BY DEF SetScale
<1>3. ASSUME NEW k \in 1..Len(queue'), IsCap(queue'[k])
      PROVE  \/ queue'[k] = SetScale(scalePct)'
             \/ \E j \in (k + 1)..Len(queue') : IsCap(queue'[j])
  <2>1. k # 1  BY <1>1, <1>3, NotCaps
  <2>2. k \in 2..(Len(queue) + 1) /\ k - 1 \in 1..Len(queue)  BY <1>1, <2>1
  <2>3. queue'[k] = queue[k - 1] /\ IsCap(queue[k - 1])  BY <1>1, <1>3, <2>2
  <2>4. CASE queue[k - 1] = SetScale(scalePct)  BY <1>2, <2>3, <2>4
  <2>5. ASSUME NEW j \in k..Len(queue), IsCap(queue[j])
        PROVE  \E i \in (k + 1)..Len(queue') : IsCap(queue'[i])
    <3>1. j \in 1..Len(queue) /\ j + 1 \in (k + 1)..Len(queue')  BY <1>1, <2>2
    <3>2. IsCap(queue'[j + 1])  BY <1>1, <2>5, <3>1
    <3> QED BY <3>1, <3>2
  <2>6. (k - 1) + 1 = k  BY <2>2
  <2> QED BY <2>2, <2>3, <2>4, <2>5, <2>6 DEF CapLast
<1>4. ASSUME \A k \in 1..Len(queue') : ~IsCap(queue'[k]) PROVE scale' = scalePct'
  <2>1. \A k \in 1..Len(queue) : ~IsCap(queue[k])
    <3> SUFFICES ASSUME NEW k \in 1..Len(queue) PROVE ~IsCap(queue[k])
      OBVIOUS
    <3>1. k + 1 \in 1..Len(queue')  BY <1>1
    <3> QED BY <1>1, <1>4, <3>1
  <2> QED BY <2>1 DEF CapLast
<1> QED BY <1>3, <1>4 DEF CapLast, IsCap

\* Only a SET_SCALE moves the cap in force.
LEMMA DispatchScale ==
    ASSUME NEW cmd, Dispatch(cmd)
    PROVE  /\ ~IsCap(cmd) => UNCHANGED scale
           /\ IsCap(cmd) => scale' = Clamp(cmd.percent, 1, 100)
<1>1. ASSUME ~IsCap(cmd) PROVE UNCHANGED scale
  BY <1>1 DEF Dispatch, IsCap, DoEnable, DoDisable, DoSetDim, DoIdentify,
              DoSetPending, DoEmergencyOff, DoApplyDimming
<1>2. ASSUME IsCap(cmd) PROVE scale' = Clamp(cmd.percent, 1, 100)
  BY <1>2 DEF Dispatch, IsCap, DoSetScale
<1> QED BY <1>1, <1>2

\* Serving the head keeps the last cap last, until it is the one in force.
LEMMA ReceiveCap ==
    ASSUME queue \in Seq(Command), Receive, scalePct \in 1..100, UNCHANGED scalePct,
           CapLast
    PROVE  CapLast'
<1>1. /\ Len(queue) \in Nat \ {0} /\ Len(queue') = Len(queue) - 1
      /\ \A i \in 1..Len(queue') : queue'[i] = queue[i + 1]
      /\ Head(queue) = queue[1] /\ Dispatch(Head(queue))
  BY DEF Receive
<1>2. SetScale(scalePct)' = SetScale(scalePct)  BY DEF SetScale
<1>3. ASSUME NEW k \in 1..Len(queue'), IsCap(queue'[k])
      PROVE  \/ queue'[k] = SetScale(scalePct)'
             \/ \E j \in (k + 1)..Len(queue') : IsCap(queue'[j])
  <2>1. k + 1 \in 1..Len(queue) /\ queue'[k] = queue[k + 1] /\ IsCap(queue[k + 1])
    BY <1>1, <1>3
  <2>2. CASE queue[k + 1] = SetScale(scalePct)  BY <1>2, <2>1, <2>2
  <2>3. ASSUME NEW j \in ((k + 1) + 1)..Len(queue), IsCap(queue[j])
        PROVE  \E i \in (k + 1)..Len(queue') : IsCap(queue'[i])
    <3>1. j - 1 \in (k + 1)..Len(queue') /\ j - 1 \in 1..Len(queue') /\ (j - 1) + 1 = j
      BY <1>1
    <3>2. queue'[j - 1] = queue[j]  BY <1>1, <3>1
    <3> QED BY <2>3, <3>1, <3>2
  <2> QED BY <2>1, <2>2, <2>3 DEF CapLast
<1>4. ASSUME \A k \in 1..Len(queue') : ~IsCap(queue'[k]) PROVE scale' = scalePct'
  <2>1. \A k \in 2..Len(queue) : ~IsCap(queue[k])
    <3> SUFFICES ASSUME NEW k \in 2..Len(queue) PROVE ~IsCap(queue[k])
      OBVIOUS
    <3>1. k - 1 \in 1..Len(queue') /\ (k - 1) + 1 = k  BY <1>1
    <3>2. queue'[k - 1] = queue[k]  BY <1>1, <3>1
    <3> QED BY <1>4, <3>1, <3>2
  <2>2. CASE IsCap(queue[1])
    <3>1. ~ \E j \in (1 + 1)..Len(queue) : IsCap(queue[j])  BY <2>1
    <3>2. 1 \in 1..Len(queue)  BY <1>1
    <3>3. queue[1] = SetScale(scalePct)  BY <2>2, <3>1, <3>2 DEF CapLast
    <3>4. scale' = Clamp(scalePct, 1, 100)
      BY <1>1, <2>2, <3>3, DispatchScale DEF SetScale
    <3> QED BY <3>4 DEF Clamp
  <2>3. CASE ~IsCap(queue[1])
    <3>1. \A k \in 1..Len(queue) : k = 1 \/ k \in 2..Len(queue)  BY <1>1
    <3>2. \A k \in 1..Len(queue) : ~IsCap(queue[k])  BY <2>1, <2>3, <3>1
    <3>3. UNCHANGED scale  BY <1>1, <2>3, DispatchScale
    <3> QED BY <3>2, <3>3 DEF CapLast
  <2> QED BY <2>2, <2>3
<1> QED BY <1>3, <1>4 DEF CapLast, IsCap

\* Posts in flight: nobody meets a full queue, so nothing is dropped.
LEMMA CapPosting ==
    ASSUME DriverKeepsUp, AllInv, CapInv, NEW c \in Callers, Posting(c)
    PROVE  CapInv'
<1> USE DEF AllInv, IInv, QueueInv
<1>1. ~IsFull(queue) /\ PostStep(c) /\ UNCHANGED <<step, state, scalePct>>
  BY DEF Posting, pmVars, policyVars
<1>2. call[c].at \notin {"discard", "retry"}  BY DEF CapInv, CapCalls
<1>3. SendToBack(c) \/ SendToFront(c)
  BY <1>1, <1>2 DEF PostStep, SendTimeout, DiscardHead, RetryFront
<1>4. call' = [call EXCEPT ![c] = Idle] /\ UNCHANGED <<taskReady, scale>>
  BY <1>1, <1>3 DEF SendToBack, SendToFront, driver
<1>5. call'[c] = Idle /\ \A u \in Callers \ {c} : call'[u] = call[u]  BY <1>4
<1>6. ~CapOnItsWay(c)' /\ call'[c].at \notin {"discard", "retry"}
  BY <1>5 DEF CapOnItsWay, Idle
<1>7. \A u \in Callers \ {c} : CapOnItsWay(u)' = CapOnItsWay(u)
  BY <1>5 DEF CapOnItsWay
<1>8. SetScale(scalePct)' = SetScale(scalePct)  BY <1>1 DEF SetScale
<1>9. CapCalls'
  <2> SUFFICES ASSUME NEW u \in Callers
               PROVE  /\ call'[u].at \notin {"discard", "retry"}
                      /\ CapOnItsWay(u)' => /\ step'[u] = "publish"
                                            /\ call'[u].cmd = SetScale(scalePct)'
    BY DEF CapCalls
  <2>1. CASE u = c  BY <1>6, <2>1
  <2>2. CASE u # c
    <3>1. call'[u] = call[u] /\ CapOnItsWay(u)' = CapOnItsWay(u)  BY <1>5, <1>7, <2>2
    <3> QED BY <1>1, <1>8, <3>1 DEF CapInv, CapCalls
  <2> QED BY <2>1, <2>2
<1>10. Decided' = Decided  BY <1>1 DEF Decided
<1>11. CASE SendToBack(c) /\ CapOnItsWay(c)
  <2>1. queue' = Append(queue, SetScale(scalePct))
    BY <1>11 DEF SendToBack, CapInv, CapCalls
  <2>2. CapLast'  BY <1>1, <2>1, AppendCap
  <2> QED BY <1>4, <1>9, <2>2 DEF CapInv
<1>12. CASE ~CapOnItsWay(c)
  <2>1. NoCapOnItsWay' => NoCapOnItsWay  BY <1>7, <1>12 DEF NoCapOnItsWay
  <2>2. CapLast => CapLast'
    <3>1. CASE SendToBack(c)
      <4>1. queue' = Append(queue, call[c].cmd) /\ ~IsCap(call[c].cmd)
        BY <1>12, <3>1 DEF SendToBack, CapOnItsWay
      <4> QED BY <1>1, <1>4, <4>1, AppendOrdinary
    <3>2. CASE SendToFront(c)
      <4>1. queue' = <<EmergencyOff>> \o queue  BY <1>1, <3>2 DEF SendToFront
      <4> QED BY <1>1, <1>4, <4>1, PushOrdinary
    <3> QED BY <1>3, <3>1, <3>2
  <2> QED BY <1>4, <1>9, <1>10, <2>1, <2>2 DEF CapInv
<1>13. SendToFront(c) => ~CapOnItsWay(c)  BY DEF SendToFront, CapOnItsWay
<1> QED BY <1>3, <1>11, <1>12, <1>13

LEMMA CapNext ==
    ASSUME PowerAssumption, DriverKeepsUp, AllInv, PolicyInv, CapInv, [PNext]_vars
    PROVE  CapInv'
<1> USE DEF AllInv, IInv
<1>1. /\ "main" \in Callers /\ "tps" \in Callers
      /\ "timer" \in Callers /\ "admin" \in Callers
  BY TasksPost
<1>2. DOMAIN step = Callers  BY DEF PmInv, PmTypeOK
<1>3. CASE \E t \in PolicyTasks : Evaluate(t)
  BY <1>3, TasksPost, CapEvaluate
\* Neither entering nor leaving the point of publishing.
<1>4. ASSUME NEW t \in Callers, NEW s \in {"lock", "reeval"},
             step[t] \in {"out", "reeval"}, Goto(t, s) \/ UNCHANGED step
      PROVE  \A u \in Callers : (step'[u] = "publish") = (step[u] = "publish")
  BY <1>2, <1>4 DEF Goto
<1>5. ASSUME UNCHANGED <<state, scalePct>>,
             \A u \in Callers : (step'[u] = "publish") = (step[u] = "publish"),
             \/ UNCHANGED hvVars
             \/ \E c \in Callers : \E cmd : ~IsCap(cmd) /\ Post(c, cmd)
      PROVE  CapInv'
  BY <1>5, ElsewhereKeepsCaps
<1>6. CASE TpsSample
  BY <1>5, <1>6 DEF TpsSample, policyVars
<1>7. CASE UNCHANGED vars
  BY <1>5, <1>7 DEF vars, pmVars, policyVars
<1>8. CASE TpsReady \/ TpsChanged
  <2>1. UNCHANGED <<hvVars, state, scalePct>> /\ (Goto("tps", "lock") \/ UNCHANGED step)
    BY <1>8 DEF TpsReady, TpsChanged, BeginEvaluate, policyVars
  <2>2. step["tps"] = "out"
    BY <1>8 DEF TpsReady, TpsChanged, PolicyInv, MonitorInv
  <2> QED BY <1>1, <1>4, <1>5, <2>1, <2>2
<1>9. CASE SettleFires \/ Reeval
  <2>1. UNCHANGED <<hvVars, state, scalePct>>
    BY <1>9 DEF SettleFires, Reeval, policyVars
  <2>2. PICK t \in Callers : step[t] \in {"out", "reeval"} /\ (Goto(t, "lock") \/ UNCHANGED step)
    BY <1>1, <1>9 DEF SettleFires, Reeval, BeginEvaluate
  <2> QED BY <1>4, <1>5, <2>1, <2>2
<1>10. CASE AppMain
  <2>1. UNCHANGED <<state, scalePct>>
    BY <1>10 DEF AppMain, LoadConfig, InitMonitor, WaitReady, StartManager,
                 StartNetwork, policyVars
  <2>2. CASE LoadConfig
    <3>1. UNCHANGED step /\ \E d \in DarkLimits : Post("main", ApplyDimming(d))
      BY <2>2 DEF LoadConfig
    <3> QED BY <1>1, <1>5, <2>1, <3>1, NotCaps
  <2>3. CASE InitMonitor \/ WaitReady \/ StartNetwork
    <3>1. UNCHANGED <<step, hvVars>>  BY <2>3 DEF InitMonitor, WaitReady, StartNetwork
    <3> QED BY <1>5, <2>1, <3>1
  <2>4. CASE StartManager
    <3>1. UNCHANGED hvVars /\ Goto("main", "lock")  BY <2>4 DEF StartManager
    <3>2. step["main"] = "out"
      BY <2>4 DEF StartManager, Started, PolicyInv, MonitorInv
    <3> QED BY <1>1, <1>4, <1>5, <2>1, <3>1, <3>2
  <2> QED BY <1>10, <2>2, <2>3, <2>4 DEF AppMain
<1>11. CASE HandleSetConfig
  <2>1. step["admin"] = "out" /\ Goto("admin", "reeval") /\ UNCHANGED <<state, scalePct>>
    BY <1>11 DEF HandleSetConfig, AdminIdle, policyVars
  <2>2. \E d \in DarkLimits : Post("admin", ApplyDimming(d))
    BY <1>11 DEF HandleSetConfig
  <2> QED BY <1>1, <1>4, <1>5, <2>1, <2>2, NotCaps
<1>12. CASE HandleOn \/ (\E p \in AdminLevels : HandleDim(p)) \/ HandleOff \/ HandleIdentify
  <2>1. UNCHANGED <<step, state, scalePct>>
    BY <1>12 DEF HandleOn, HandleDim, HandleOff, HandleIdentify, AdminPost,
                 pmVars, policyVars
  <2>2. \E cmd : ~IsCap(cmd) /\ Post("admin", cmd)
    BY <1>12, NotCaps DEF HandleOn, HandleDim, HandleOff, HandleIdentify, AdminPost
  <2> QED BY <1>1, <1>5, <2>1, <2>2
<1>13. CASE \E t \in Callers : Posting(t)
  BY <1>13, CapPosting
<1>14. CASE DriverTask
  <2>1. UNCHANGED <<taskReady, call, step, state, scalePct>>
    BY <1>14 DEF DriverTask, Task, Receive, BlinkTimeout, pmVars, policyVars
  <2>2. CapCalls' /\ Decided' = Decided /\ NoCapOnItsWay' = NoCapOnItsWay
    BY <2>1 DEF CapCalls, Decided, NoCapOnItsWay, CapOnItsWay, CapInv, SetScale, IsCap
  <2>3. CapLast => CapLast'
    <3>1. CASE Receive
      <4>1. scalePct \in 1..100  BY CapsArePercent DEF PmInv, PmTypeOK
      <4> QED BY <2>1, <3>1, <4>1, ReceiveCap DEF QueueInv
    <3>2. CASE BlinkTimeout
      <4>1. UNCHANGED <<queue, scale>>
        BY <3>2 DEF BlinkTimeout, BlinkStep, BlinkRestore
      <4> QED BY <2>1, <4>1 DEF CapLast, SetScale
    <3> QED BY <1>14, <3>1, <3>2 DEF DriverTask, Task
  <2> QED BY <2>1, <2>2, <2>3 DEF CapInv
<1> QED BY <1>3, <1>6, <1>7, <1>8, <1>9, <1>10, <1>11, <1>12, <1>13, <1>14
        DEF PNext, AdminRequest

LEMMA CapInit ==
    ASSUME PowerAssumption, PInit
    PROVE  CapInv
<1>1. queue = <<>> /\ scale = 100 /\ scalePct = 100 /\ taskReady
  BY DEF PInit, HvInit, PmInit
<1>2. \A t \in Callers : call[t] = Idle  BY DEF PInit, HvInit
<1>3. CapCalls  BY <1>2 DEF CapCalls, CapOnItsWay, Idle
<1>4. CapLast  BY <1>1 DEF CapLast
<1> QED BY <1>1, <1>3, <1>4 DEF CapInv

\* With the queue drained and nothing in flight the last cap is in force.
LEMMA DeliveredCap == AllInv /\ CapInv => CapDelivered
<1> SUFFICES ASSUME AllInv, CapInv, Quiet, state \in Active
             PROVE  scale = scalePct /\ out <= 100 * scalePct
  BY DEF CapDelivered
<1>1. NoCapOnItsWay  BY DEF Quiet, NoCapOnItsWay, CapOnItsWay, Idle
<1>2. CapLast  BY <1>1 DEF CapInv, Decided
<1>3. scale = scalePct  BY <1>2 DEF CapLast, Quiet
<1>4. level \in 0..100 /\ scale \in 1..100  BY DEF AllInv, IInv, DriverInv, DriverTypeOK
<1>5. level * scale \in 0..(100 * scale)  BY <1>4, DriveRange
<1>6. out = level * scale \/ out = 0  BY DEF AllInv, IInv, DriverInv, RenderInSync
<1>7. out <= 100 * scale  BY <1>4, <1>5, <1>6
<1> QED BY <1>3, <1>7

\* While the driver task keeps up with its callers, no cap is lost or
\* overtaken on its way: once the queue has drained, the driver renders
\* under the cap the policy decided last, whoever decided it.
THEOREM CapReachesDriver == DriverKeepsUp => (PSpec => []CapDelivered)
<1> SUFFICES ASSUME DriverKeepsUp PROVE PSpec => []CapDelivered
  OBVIOUS
<1>1. PInit => CapInv  BY CapInit, PowerAssumption
<1>2. AllInv /\ PolicyInv /\ CapInv /\ [PNext]_vars => CapInv'
  BY CapNext, PowerAssumption
<1>3. AllInv /\ CapInv => CapDelivered  BY DeliveredCap
<1> QED BY <1>1, <1>2, <1>3, PowerInvariance, PolicyInvariance, PTL DEF PSpec
=============================================================================
