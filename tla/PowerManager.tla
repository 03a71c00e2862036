---------------------------- MODULE PowerManager ----------------------------
(***************************************************************************)
(* The power path of the luminaire: the tps2378 monitor task that publishes *)
(* readiness and source class and runs the callbacks, the power manager's  *)
(* policy evaluation (power_manager.c) that those callbacks, the settle    *)
(* timer and the admin task run under one mutex, the admin handlers that   *)
(* switch the LED, and below them the driver and its queue (Hv9910).       *)
(*                                                                         *)
(* Every task is a small program: between two accesses to shared state any *)
(* other task may run.  post_cmd is Hv9910's, so a command is decided in   *)
(* one step and reaches the queue in a later one.                          *)
(***************************************************************************)
EXTENDS Hv9910

CONSTANTS
    AdminRequests,  \* which admin requests arrive: "ON", "OFF", ...
    AdminLevels,    \* levels of the DIM requests that arrive
    Modes,          \* power modes a configuration may ask for
    Caps,           \* values of poe_cap_pct
    DriverKeepsUp   \* TRUE: the driver task, above every caller's priority,
                    \* drains the queue before a caller posts to a full one

\* The tasks that evaluate the policy; others may post to the driver too.
PolicyTasks == {"main", "tps", "timer", "admin"}

\* The commands evaluate() and the handlers build, besides hv9910_enable's.
PmCommands ==
    {SetScale(c) : c \in Caps \cup {100}}
      \cup {ApplyDimming(d) : d \in DarkLimits}
      \cup {SetPending(TRUE, p) : p \in AdminLevels \cup {0}}
      \cup {EnableAt(p) : p \in AdminLevels}
      \cup {Disable, Identify, EmergencyOff}

ASSUME PowerAssumption ==
    /\ PolicyTasks \subseteq Callers /\ "nobody" \notin Callers
    /\ PmCommands \subseteq Requests
    /\ AdminRequests \subseteq {"ON", "OFF", "IDENTIFY", "CONFIG"}
    /\ AdminLevels \subseteq 1..100
    /\ Modes \subseteq {"AUTO", "POE_ONLY", "POE_PLUS_REQUIRED"}
    /\ Caps \subseteq 1..100
    /\ DriverKeepsUp \in BOOLEAN

Sources    == {"NONE", "TYPE1", "TYPE2"}   \* no GPIO tells AUX from TYPE2 here
Active     == {"ACTIVE_FULL", "ACTIVE_CAPPED"}
States     == {"NO_POWER", "BLOCKED"} \cup Active
Nobody     == "nobody"

VARIABLES
    source,         \* tps2378 s_source
    ready,          \* tps2378 s_is_ready
    prevSource,     \* prev_source of poe_monitor_task
    tpsAt,          \* where poe_monitor_task is in its iteration
    powerMode,      \* driver_config power_mode
    cap,            \* driver_config poe_cap_pct
    lock,           \* power_manager s_lock: its holder
    boot,           \* how far app_main is
    state,          \* s_state
    scalePct,       \* s_scale_pct
    firstReadySeen, \* s_first_ready_seen
    settling,       \* the settle timer is armed
    step,           \* per task: where it is in evaluate()
    local           \* per task: its local src, then the state it will publish

tpsVars    == <<source, ready, prevSource, tpsAt>>
cfgVars    == <<powerMode, cap>>
policyVars == <<state, scalePct, firstReadySeen>>
pmVars     == <<tpsVars, cfgVars, lock, boot, policyVars, settling, step, local>>
vars       == <<hvVars, pmVars>>

-----------------------------------------------------------------------------
(* evaluate() as a pure decision. *)

FullCapable(src) == src = "TYPE2"

Capped(src, mode) ==
    \/ mode = "POE_ONLY"
    \/ mode = "AUTO" /\ ~FullCapable(src)

Verdict(src, mode) ==
    IF src = "NONE" THEN "NO_POWER"
    ELSE IF mode = "POE_PLUS_REQUIRED" /\ ~FullCapable(src) THEN "BLOCKED"
    ELSE IF Capped(src, mode) THEN "ACTIVE_CAPPED" ELSE "ACTIVE_FULL"

ScaleOf(verdict, c) == IF verdict = "ACTIVE_CAPPED" THEN c ELSE 100

OutputAllowed == state # "BLOCKED"

-----------------------------------------------------------------------------
(* evaluate() as it runs, in a task t that called it. *)

Goto(t, s) == step' = [step EXCEPT ![t] = s]

\* power_manager_start has created the lock.
Started == boot \in {"policy", "network"}

\* A callback or reeval does nothing before that.
BeginEvaluate(t) == IF Started THEN Goto(t, "lock") ELSE UNCHANGED step

\* The callback in progress is on_power_lost: it ends the session first.
InLostCallback(t) == t = "tps" /\ tpsAt = "changed" /\ ~ready

\* Mutant: the mutex is not waited for.
TakeLockShared(t) ==
    /\ step[t] = "lock"
    /\ lock' = t
    /\ firstReadySeen' = (firstReadySeen /\ ~InLostCallback(t))
    /\ Goto(t, IF t = "timer" /\ ~ready THEN "unlock" ELSE "source")
    /\ UNCHANGED <<hvVars, tpsVars, cfgVars, boot, state, scalePct, settling, local>>

TakeLock(t) ==
    /\ step[t] = "lock"
    /\ lock = Nobody
    /\ lock' = t
    /\ firstReadySeen' = (firstReadySeen /\ ~InLostCallback(t))
    \* settle_cb evaluates only if power is still confirmed
    /\ Goto(t, IF t = "timer" /\ ~ready THEN "unlock" ELSE "source")
    /\ UNCHANGED <<hvVars, tpsVars, cfgVars, boot, state, scalePct, settling, local>>

ReadSource(t) ==
    /\ step[t] = "source"
    /\ local' = [local EXCEPT ![t] = source]
    /\ Goto(t, "ready")
    /\ UNCHANGED <<hvVars, tpsVars, cfgVars, lock, boot, policyVars, settling>>

\* Not ready counts as no source: both are NO_POWER.
ReadReady(t) ==
    /\ step[t] = "ready"
    /\ local' = [local EXCEPT ![t] = IF ready THEN @ ELSE "NONE"]
    /\ Goto(t, "decide")
    /\ UNCHANGED <<hvVars, tpsVars, cfgVars, lock, boot, policyVars, settling>>

\* Mutant: the cut is posted only when the state changes.
DecideDarkOnce(t) ==
    /\ step[t] = "decide"
    /\ LET v == Verdict(local[t], powerMode) IN
        /\ v \notin Active
        /\ state' = v
    /\ scalePct' = 100
    /\ IF state' # state THEN Post(t, EmergencyOff) ELSE UNCHANGED hvVars
    /\ Goto(t, "unlock")
    /\ UNCHANGED <<tpsVars, cfgVars, lock, boot, firstReadySeen, settling, local>>

\* NO_POWER and BLOCKED are published before the cut is posted ...
DecideDark(t) ==
    /\ step[t] = "decide"
    /\ LET v == Verdict(local[t], powerMode) IN
        /\ v \notin Active
        /\ state' = v
    /\ scalePct' = 100
    /\ Post(t, EmergencyOff)
    /\ Goto(t, "unlock")
    /\ UNCHANGED <<tpsVars, cfgVars, lock, boot, firstReadySeen, settling, local>>

\* Mutant: the cap is posted only when it differs from the last one decided.
DecideActiveIfChanged(t) ==
    /\ step[t] = "decide"
    /\ LET v == Verdict(local[t], powerMode) IN
        /\ v \in Active
        /\ scalePct' = ScaleOf(v, cap)
        /\ IF scalePct' # scalePct THEN Post(t, SetScale(scalePct')) ELSE UNCHANGED hvVars
        /\ local' = [local EXCEPT ![t] = v]
    /\ Goto(t, "publish")
    /\ UNCHANGED <<tpsVars, cfgVars, lock, boot, state, firstReadySeen, settling>>

\* ... the active states only after the cap has been posted.
DecideActive(t) ==
    /\ step[t] = "decide"
    /\ LET v == Verdict(local[t], powerMode) IN
        /\ v \in Active
        /\ scalePct' = ScaleOf(v, cap)
        /\ Post(t, SetScale(scalePct'))
        /\ local' = [local EXCEPT ![t] = v]
    /\ Goto(t, "publish")
    /\ UNCHANGED <<tpsVars, cfgVars, lock, boot, state, firstReadySeen, settling>>

\* Publishes the state; then the LED comes up if the network wants it, after
\* the settle delay when this is the first time in this power session.
Publish(t) ==
    /\ step[t] = "publish"
    /\ call[t] = Idle
    /\ state' = local[t]
    /\ firstReadySeen' = (firstReadySeen \/ desiredOn)
    /\ \/ /\ ~desiredOn
          /\ UNCHANGED <<hvVars, settling>>
       \/ /\ desiredOn /\ ~firstReadySeen /\ ~settling
          /\ settling' = TRUE
          /\ UNCHANGED hvVars
       \/ /\ desiredOn /\ (firstReadySeen \/ settling)
          /\ Post(t, Enable)
          /\ UNCHANGED settling
    /\ Goto(t, "unlock")
    /\ UNCHANGED <<tpsVars, cfgVars, lock, boot, scalePct, local>>

Unlock(t) ==
    /\ step[t] = "unlock"
    /\ call[t] = Idle
    /\ lock' = Nobody
    /\ Goto(t, "out")
    /\ local' = [local EXCEPT ![t] = "NONE"]
    /\ UNCHANGED <<hvVars, tpsVars, cfgVars, boot, policyVars, settling>>

Evaluate(t) ==
    \/ TakeLock(t)
    \/ ReadSource(t)
    \/ ReadReady(t)
    \/ DecideDark(t)
    \/ DecideActive(t)
    \/ Publish(t)
    \/ Unlock(t)

-----------------------------------------------------------------------------
(* poe_monitor_task.  The debounced signals of a sample are any pair. *)

TpsSample ==
    /\ boot \notin {"config", "monitor"}
    /\ tpsAt = "sample" /\ step["tps"] = "out"
    /\ \E s \in Sources : source' = s
    /\ tpsAt' = "ready"
    /\ UNCHANGED <<hvVars, ready, prevSource, cfgVars, lock, boot, policyVars,
                   settling, step, local>>

\* on_power_ready or on_power_lost, when readiness changed.
TpsReady ==
    /\ tpsAt = "ready"
    /\ tpsAt' = "changed"
    /\ ready' = (source # "NONE")
    /\ IF ready' # ready THEN BeginEvaluate("tps") ELSE UNCHANGED step
    /\ UNCHANGED <<hvVars, source, prevSource, cfgVars, lock, boot, policyVars,
                   settling, local>>

\* on_source_changed, in the same iteration.
TpsChanged ==
    /\ tpsAt = "changed" /\ step["tps"] = "out"
    /\ tpsAt' = "sample"
    /\ prevSource' = source
    /\ IF source # prevSource THEN BeginEvaluate("tps") ELSE UNCHANGED step
    /\ UNCHANGED <<hvVars, source, ready, cfgVars, lock, boot, policyVars,
                   settling, local>>

\* The one-shot timer disarms itself and runs settle_cb.
SettleFires ==
    /\ settling
    /\ step["timer"] = "out"
    /\ settling' = FALSE
    /\ Goto("timer", "lock")
    /\ UNCHANGED <<hvVars, tpsVars, cfgVars, lock, boot, policyVars, local>>

-----------------------------------------------------------------------------
(* app_main: push the stored dimming configuration, start the monitor      *)
(* task, wait for power, start the policy, then the network.  Power may be *)
(* gone again when the wait returns.                                       *)

LoadConfig ==
    /\ boot = "config"
    /\ boot' = "monitor"
    /\ \E d \in DarkLimits : Post("main", ApplyDimming(d))
    /\ UNCHANGED <<tpsVars, cfgVars, lock, policyVars, settling, step, local>>

InitMonitor ==
    /\ boot = "monitor" /\ call["main"] = Idle
    /\ boot' = "wait"
    /\ UNCHANGED <<hvVars, tpsVars, cfgVars, lock, policyVars, settling, step, local>>

WaitReady ==
    /\ boot = "wait" /\ ready
    /\ boot' = "woken"
    /\ UNCHANGED <<hvVars, tpsVars, cfgVars, lock, policyVars, settling, step, local>>

StartManager ==
    /\ boot = "woken"
    /\ boot' = "policy"
    /\ Goto("main", "lock")
    /\ UNCHANGED <<hvVars, tpsVars, cfgVars, lock, policyVars, settling, local>>

StartNetwork ==
    /\ boot = "policy" /\ step["main"] = "out"
    /\ boot' = "network"
    /\ UNCHANGED <<hvVars, tpsVars, cfgVars, lock, policyVars, settling, step, local>>

-----------------------------------------------------------------------------
(* Admin handlers, after authentication. *)

AdminIdle     == boot = "network" /\ call["admin"] = Idle /\ step["admin"] = "out"
AdminPost(cmd) == Post("admin", cmd) /\ UNCHANGED pmVars

\* handle_on, and handle_dim for a level above 0.
HandleOn ==
    /\ AdminIdle /\ "ON" \in AdminRequests
    /\ AdminPost(IF ready /\ OutputAllowed THEN Enable ELSE SetPending(TRUE, 0))

HandleDim(p) ==
    /\ AdminIdle
    /\ AdminPost(IF ready /\ OutputAllowed THEN EnableAt(p) ELSE SetPending(TRUE, p))

\* handle_off, and handle_dim for level 0.
HandleOff == AdminIdle /\ "OFF" \in AdminRequests /\ AdminPost(Disable)

HandleIdentify ==
    /\ AdminIdle /\ "IDENTIFY" \in AdminRequests
    /\ ready /\ OutputAllowed
    /\ AdminPost(Identify)

\* Mutant: the new configuration is stored and pushed but not evaluated.
HandleSetConfigSilent ==
    /\ AdminIdle /\ "CONFIG" \in AdminRequests
    /\ \E m \in Modes, c \in Caps, d \in DarkLimits :
        /\ powerMode' = m
        /\ cap' = c
        /\ Post("admin", ApplyDimming(d))
    /\ UNCHANGED <<tpsVars, lock, boot, policyVars, settling, step, local>>

\* handle_driver_set_config: store, push the dimming part, re-evaluate.
HandleSetConfig ==
    /\ AdminIdle /\ "CONFIG" \in AdminRequests
    /\ \E m \in Modes, c \in Caps, d \in DarkLimits :
        /\ powerMode' = m
        /\ cap' = c
        /\ Post("admin", ApplyDimming(d))
    /\ Goto("admin", "reeval")
    /\ UNCHANGED <<tpsVars, lock, boot, policyVars, settling, local>>

Reeval ==
    /\ step["admin"] = "reeval"
    /\ call["admin"] = Idle
    /\ BeginEvaluate("admin")
    /\ UNCHANGED <<hvVars, tpsVars, cfgVars, lock, boot, policyVars, settling, local>>

AdminRequest ==
    \/ HandleOn
    \/ \E p \in AdminLevels : HandleDim(p)
    \/ HandleOff
    \/ HandleIdentify
    \/ HandleSetConfig

-----------------------------------------------------------------------------

PmInit ==
    /\ source = "NONE" /\ ready = FALSE /\ prevSource = "NONE"
    /\ tpsAt = "sample"
    /\ powerMode \in Modes
    /\ cap \in Caps
    /\ lock = Nobody
    /\ boot = "config"
    /\ state = "NO_POWER" /\ scalePct = 100 /\ firstReadySeen = FALSE
    /\ settling = FALSE
    /\ step = [t \in Callers |-> "out"]
    /\ local = [t \in Callers |-> "NONE"]

PInit == HvInit /\ taskReady /\ PmInit

\* Below Hv9910's API only the posts in flight and the driver task move.
Posting(c) ==
    /\ DriverKeepsUp => ~IsFull(queue)
    /\ PostStep(c)
    /\ UNCHANGED pmVars

DriverTask == Task /\ UNCHANGED pmVars

AppMain ==
    \/ LoadConfig
    \/ InitMonitor
    \/ WaitReady
    \/ StartManager
    \/ StartNetwork

PNext ==
    \/ \E t \in PolicyTasks : Evaluate(t)
    \/ TpsSample \/ TpsReady \/ TpsChanged
    \/ SettleFires
    \/ AppMain
    \/ AdminRequest \/ Reeval
    \/ \E t \in Callers : Posting(t)
    \/ DriverTask

TpsTask == TpsSample \/ TpsReady \/ TpsChanged

\* The tasks of the firmware keep running: FreeRTOS schedules each of them
\* again and again, the mutex is handed on, and an armed timer fires.  What
\* arrives from the network and what the supply does is not fair.
Fairness ==
    /\ WF_vars(DriverTask)
    /\ WF_vars(TpsTask)
    /\ WF_vars(SettleFires)
    /\ WF_vars(AppMain) /\ WF_vars(Reeval)
    /\ \A t \in PolicyTasks : WF_vars(Evaluate(t)) /\ WF_vars(Posting(t))
    /\ SF_vars(TakeLock("tps"))
    /\ SF_vars(\E t \in PolicyTasks \ {"admin"} : Posting(t))

PSpec == PInit /\ [][PNext]_vars /\ Fairness

-----------------------------------------------------------------------------
(* Properties. *)

PTypeOK ==
    /\ TypeOK
    /\ source \in Sources /\ prevSource \in Sources
    /\ ready \in BOOLEAN
    /\ tpsAt \in {"sample", "ready", "changed"}
    /\ powerMode \in Modes /\ cap \in Caps
    /\ lock \in Callers \cup {Nobody}
    /\ boot \in {"config", "monitor", "wait", "woken", "policy", "network"}
    /\ state \in States /\ scalePct \in Caps \cup {100}
    /\ firstReadySeen \in BOOLEAN /\ settling \in BOOLEAN
    /\ step \in [Callers -> {"out", "lock", "source", "ready", "decide",
                             "publish", "unlock", "reeval"}]
    /\ local \in [Callers -> Sources \cup Active]

\* Nothing is between a change and the evaluation it calls for.
PolicySettled ==
    /\ Started /\ tpsAt = "sample"
    /\ \A t \in Callers : step[t] = "out"

\* Besides, no command is on its way to the driver.
Quiet == PolicySettled /\ queue = <<>> /\ \A t \in Callers : call[t] = Idle

\* No update is lost between the four tasks that evaluate: once every change
\* has been followed by its evaluation, the published state and cap are the
\* policy's answer to the live source, readiness and configuration.
StateIsCurrent ==
    PolicySettled =>
        /\ state = Verdict(IF ready THEN source ELSE "NONE", powerMode)
        /\ scalePct = ScaleOf(state, cap)

\* Once the queue has drained, the driver renders under the cap the policy
\* last decided: the LED cannot stay over a Type-1 budget.
CapDelivered ==
    Quiet /\ state \in Active => scale = scalePct /\ out <= 100 * scalePct

\* evaluate() is the critical section of the power manager's mutex.
OneEvaluation ==
    \A t \in Callers : step[t] \notin {"out", "lock", "reeval"} => lock = t

\* When confirmed power goes away, the LED is cut, wherever the other tasks
\* are, unless power returns first.
PowerLossCuts ==
    (step["tps"] = "lock" /\ InLostCallback("tps")) ~> (powerCut /\ out = 0) \/ ready

\* README: the LED "does come back on by itself after a power blip [...] if
\* it was on when power dropped": a power-ready callback that finds the LED
\* wanted un-cuts it, unless the desire, the power or the permission goes.
ResumesAfterBlip ==
    (tpsAt = "changed" /\ step["tps"] = "lock" /\ ready /\ desiredOn)
        ~> (~powerCut \/ ~desiredOn \/ ~ready \/ state = "BLOCKED")

\* README: a command that arrives while power is not ready never turns the
\* driver on "outside the TPS2378's electrical gate".  With every command
\* delivered and no power confirmed, the LED is dark.
DarkWithoutPower == Quiet /\ ~ready => out = 0

\* README: after ACCEPTED_PENDING "the LED turns on by itself [...] as soon
\* as power is confirmed".  With nothing left to do, a wanted LED is lit.
WantedIsLit ==
    Quiet /\ state \in Active /\ desiredOn /\ ~settling => out # 0
=============================================================================
