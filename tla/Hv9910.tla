------------------------------- MODULE Hv9910 -------------------------------
(***************************************************************************)
(* The HV9910 LED driver component (firmware/components/hv9910/hv9910.c):  *)
(* one task that owns the two PWM channels, the bounded command queue in   *)
(* front of it, and post_cmd, which the other tasks run to reach it.       *)
(*                                                                         *)
(* Brightness is kept in percent and the rendered output in 1/10000 of     *)
(* full drive (percent of level times percent of cap): the code's Q16      *)
(* values are the same quantities in another unit.  A dimming              *)
(* configuration (mode, frequencies, minimum burst, crossover) matters     *)
(* here only through the largest output it still renders dark, so it is    *)
(* that number.                                                            *)
(***************************************************************************)
EXTENDS Integers, Sequences, FiniteSets

CONSTANTS
    Callers,      \* the tasks that post commands (tps2378, timer, DMX, admin)
    QueueLen,     \* CMD_QUEUE_LEN
    Requests,     \* the commands the callers post, besides hv9910_enable's
    DarkLimits,   \* dimming configurations, as the largest dark output
    DefaultDim,   \* the one hv9910_init installs
    BlinkCycles   \* IDENTIFY_BLINK_CYCLES

VARIABLES
    taskReady,    \* s_task_ready: hv9910_init created queue and task
    queue,        \* s_cmd_queue, head first
    call,         \* what each caller is doing inside post_cmd
    dim,          \* s_dimming, as its dark limit
    scale,        \* s_output_scale_q, the power manager's cap, in percent
    level,        \* s_level_q (and s_dim_percent), in percent
    enabled,      \* s_enabled: the LED is reported lit
    out,          \* the duties in the LEDC registers: 0 is dark
    ledcStarted,  \* s_ledc_started
    lastNonzero,  \* s_last_nonzero_percent
    desiredOn,    \* s_desired_on
    powerCut,     \* s_power_cut
    blinking,     \* s_pending = PENDING_IDENTIFY_STEP
    ident         \* s_identify_*: steps left, next phase, what to restore

output  == <<level, enabled, out, ledcStarted>>
driver  == <<dim, scale, output, lastNonzero, desiredOn, powerCut, blinking, ident>>
hvVars  == <<taskReady, queue, call, driver>>

\* 100 % of level under a cap of 100 %.
FullDrive == 100 * 100

Clamp(n, lo, hi) == IF n < lo THEN lo ELSE IF n > hi THEN hi ELSE n

-----------------------------------------------------------------------------
(* Commands: hv9910_cmd_t.  Each type carries only the fields it uses. *)

EnableAt(p)      == [type |-> "ENABLE", percent |-> Clamp(p, 0, 100)]
SetDim(p)        == [type |-> "SET_DIM", percent |-> p]
SetScale(p)      == [type |-> "SET_SCALE", percent |-> p]
SetPending(o, p) == [type |-> "SET_PENDING", on |-> o, percent |-> p]
ApplyDimming(d)  == [type |-> "APPLY_DIMMING", dim |-> d]
Disable          == [type |-> "DISABLE"]
Identify         == [type |-> "IDENTIFY"]
EmergencyOff     == [type |-> "EMERGENCY_OFF"]

\* hv9910_enable: the level is read in the caller's task, not the driver's.
Enable == EnableAt(IF lastNonzero > 0 THEN lastNonzero ELSE 100)

\* SET_PENDING's level is not clamped on its way: handle_dim checks it.
Command ==
    [type : {"ENABLE", "SET_DIM", "SET_SCALE"}, percent : Nat]
      \cup [type : {"SET_PENDING"}, on : BOOLEAN, percent : 0..100]
      \cup [type : {"APPLY_DIMMING"}, dim : DarkLimits]
      \cup [type : {"DISABLE", "IDENTIFY", "EMERGENCY_OFF"}]

\* What the code's types and the configuration guarantee of the constants.
ASSUME Hv9910Assumption ==
    /\ QueueLen \in Nat \ {0}
    /\ Requests \subseteq Command
    /\ DarkLimits \subseteq Nat
    /\ DefaultDim \in DarkLimits
    /\ BlinkCycles \in Nat \ {0}

-----------------------------------------------------------------------------
(* post_cmd, seen from a caller.  A caller first commits to a command;     *)
(* an ordinary one is appended when there is room or given up after the    *)
(* send timeout, EMERGENCY_OFF goes to the front, and on a full queue      *)
(* throws the head away to make room, in three separate queue calls.       *)

Idle      == [at |-> "idle"]
CallState == {Idle} \cup [at : {"send"}, cmd : Command]
                    \cup [at : {"front", "discard", "retry"}]

\* Mutant: off by one.
IsFullLate(q) == Len(q) > QueueLen

IsFull(q) == Len(q) >= QueueLen

\* Enter post_cmd; a driver whose init failed drops every command here.
Post(c, cmd) ==
    /\ call[c] = Idle
    /\ call' = [call EXCEPT ![c] =
                  IF ~taskReady THEN Idle
                  ELSE IF cmd = EmergencyOff THEN [at |-> "front"]
                  ELSE [at |-> "send", cmd |-> cmd]]
    /\ UNCHANGED <<taskReady, queue, driver>>

SendToBack(c) ==
    /\ call[c].at = "send"
    /\ ~IsFull(queue)
    /\ queue' = Append(queue, call[c].cmd)
    /\ call' = [call EXCEPT ![c] = Idle]
    /\ UNCHANGED <<taskReady, driver>>

\* CMD_QUEUE_SEND_TIMEOUT_MS passed on a full queue: the command is dropped.
SendTimeout(c) ==
    /\ call[c].at = "send"
    /\ IsFull(queue)
    /\ call' = [call EXCEPT ![c] = Idle]
    /\ UNCHANGED <<taskReady, queue, driver>>

\* Mutant: the emergency waits its turn.
SendToFrontAppends(c) ==
    /\ call[c].at = "front"
    /\ ~IsFull(queue)
    /\ queue' = Append(queue, EmergencyOff)
    /\ call' = [call EXCEPT ![c] = Idle]
    /\ UNCHANGED <<taskReady, driver>>

SendToFront(c) ==
    /\ call[c].at = "front"
    /\ IF IsFull(queue)
       THEN /\ call' = [call EXCEPT ![c] = [at |-> "discard"]]
            /\ UNCHANGED queue
       ELSE /\ queue' = <<EmergencyOff>> \o queue
            /\ call' = [call EXCEPT ![c] = Idle]
    /\ UNCHANGED <<taskReady, driver>>

DiscardHead(c) ==
    /\ call[c].at = "discard"
    /\ queue' = IF queue = <<>> THEN queue ELSE Tail(queue)
    /\ call' = [call EXCEPT ![c] = [at |-> "retry"]]
    /\ UNCHANGED <<taskReady, driver>>

RetryFront(c) ==
    /\ call[c].at = "retry"
    /\ queue' = IF IsFull(queue) THEN queue ELSE <<EmergencyOff>> \o queue
    /\ call' = [call EXCEPT ![c] = Idle]
    /\ UNCHANGED <<taskReady, driver>>

PostStep(c) ==
    \/ SendToBack(c)
    \/ SendTimeout(c)
    \/ SendToFront(c)
    \/ DiscardHead(c)
    \/ RetryFront(c)

-----------------------------------------------------------------------------
(* Rendering. *)

\* The curve's want_lit for an output under a dimming configuration.
WantLit(d, o) == o > d

\* Mutant: the latch is not consulted.
ApplyLevelUngated(l) ==
    /\ level' = l
    /\ out' = IF WantLit(dim', l * scale') THEN l * scale' ELSE 0
    /\ enabled' = (out' # 0)
    /\ ledcStarted' = TRUE

\* apply_level, the only place the duties are written besides the cut.  It
\* reads the cap, dimming and latch the handler has just set.
ApplyLevel(l) ==
    /\ level' = l
    /\ out' = IF WantLit(dim', l * scale') /\ ~powerCut' THEN l * scale' ELSE 0
    /\ enabled' = (out' # 0)
    /\ ledcStarted' = TRUE

\* hv_do_set_dim
Remember(p) == lastNonzero' = IF p > 0 THEN Clamp(p, 0, 100) ELSE lastNonzero

-----------------------------------------------------------------------------
(* The command handlers, one per case of dispatch_cmd. *)

\* Mutant: the latch survives the request to light.
DoEnableLatched(p) ==
    /\ desiredOn' = TRUE
    /\ Remember(p)
    /\ UNCHANGED <<dim, scale, powerCut, ident>>
    /\ ApplyLevel(Clamp(p, 0, 100))
    /\ blinking' = FALSE

DoEnable(p) ==
    /\ desiredOn' = TRUE
    /\ powerCut' = FALSE
    /\ Remember(p)
    /\ UNCHANGED <<dim, scale, ident>>
    /\ ApplyLevel(Clamp(p, 0, 100))
    /\ blinking' = FALSE

DoDisable ==
    /\ desiredOn' = FALSE
    /\ UNCHANGED <<dim, scale, powerCut, lastNonzero, ident>>
    /\ ApplyLevel(0)
    /\ blinking' = FALSE

\* Mutant: the blink timer stays armed.
DoSetDimBlinking(p) ==
    /\ Remember(p)
    /\ UNCHANGED <<dim, scale, powerCut, desiredOn, blinking, ident>>
    /\ ApplyLevel(Clamp(p, 0, 100))

DoSetDim(p) ==
    /\ Remember(p)
    /\ UNCHANGED <<dim, scale, powerCut, desiredOn, ident>>
    /\ ApplyLevel(Clamp(p, 0, 100))
    /\ blinking' = FALSE

DoSetPending(on, p) ==
    /\ desiredOn' = on
    /\ lastNonzero' = IF p > 0 THEN p ELSE lastNonzero
    /\ blinking' = FALSE
    /\ UNCHANGED <<dim, scale, output, powerCut, ident>>

\* Mutant: latched, but the duties are left running.
DoEmergencyOffLatchOnly ==
    /\ powerCut' = TRUE
    /\ blinking' = FALSE
    /\ enabled' = FALSE
    /\ level' = 0
    /\ UNCHANGED <<dim, scale, out, ledcStarted, lastNonzero, desiredOn, ident>>

DoEmergencyOff ==
    /\ powerCut' = TRUE
    /\ blinking' = FALSE
    /\ out' = IF ledcStarted THEN 0 ELSE out
    /\ enabled' = FALSE
    /\ level' = 0
    /\ UNCHANGED <<dim, scale, ledcStarted, lastNonzero, desiredOn, ident>>

DoApplyDimming(d) ==
    /\ dim' = d
    /\ UNCHANGED <<scale, powerCut, lastNonzero, desiredOn, ident>>
    /\ ApplyLevel(level)
    /\ blinking' = FALSE

\* Mutant: the new cap waits for the next level.
DoSetScaleLazy(p) ==
    /\ scale' = Clamp(p, 1, 100)
    /\ blinking' = FALSE
    /\ UNCHANGED <<dim, output, powerCut, lastNonzero, desiredOn, ident>>

DoSetScale(p) ==
    /\ scale' = Clamp(p, 1, 100)
    /\ UNCHANGED <<dim, powerCut, lastNonzero, desiredOn, ident>>
    /\ ApplyLevel(level)
    /\ blinking' = FALSE

\* Saves what is showing, clears the latch and runs the first blink step.
DoIdentify ==
    /\ powerCut' = FALSE
    /\ ident' = [steps |-> 2 * BlinkCycles - 1, nextOn |-> FALSE,
                 lit |-> enabled, level |-> level, desired |-> desiredOn]
    /\ UNCHANGED <<dim, scale, lastNonzero, desiredOn>>
    /\ ApplyLevel(100)
    /\ blinking' = TRUE

Dispatch(cmd) ==
    \/ cmd.type = "ENABLE"        /\ DoEnable(cmd.percent)
    \/ cmd.type = "DISABLE"       /\ DoDisable
    \/ cmd.type = "SET_DIM"       /\ DoSetDim(cmd.percent)
    \/ cmd.type = "IDENTIFY"      /\ DoIdentify
    \/ cmd.type = "SET_PENDING"   /\ DoSetPending(cmd.on, cmd.percent)
    \/ cmd.type = "EMERGENCY_OFF" /\ DoEmergencyOff
    \/ cmd.type = "APPLY_DIMMING" /\ DoApplyDimming(cmd.dim)
    \/ cmd.type = "SET_SCALE"     /\ DoSetScale(cmd.percent)

-----------------------------------------------------------------------------
(* hv9910_task: a received command is dispatched; the blink advances when  *)
(* its deadline passes with nothing to receive.                            *)

Receive ==
    /\ queue # <<>>
    /\ queue' = Tail(queue)
    /\ Dispatch(Head(queue))
    /\ UNCHANGED <<taskReady, call>>

BlinkStep ==
    /\ ident.steps > 0
    /\ ident' = [ident EXCEPT !.steps = @ - 1, !.nextOn = ~@]
    /\ UNCHANGED <<dim, scale, powerCut, lastNonzero, desiredOn, blinking>>
    /\ ApplyLevel(IF ident.nextOn THEN 100 ELSE 0)

BlinkRestore ==
    /\ ident.steps <= 0
    /\ desiredOn' = ident.desired
    /\ blinking' = FALSE
    /\ UNCHANGED <<dim, scale, powerCut, lastNonzero, ident>>
    /\ ApplyLevel(IF ident.lit THEN ident.level ELSE 0)

BlinkTimeout ==
    /\ blinking
    /\ queue = <<>>
    /\ BlinkStep \/ BlinkRestore
    /\ UNCHANGED <<taskReady, queue, call>>

Task == Receive \/ BlinkTimeout

-----------------------------------------------------------------------------

HvInit ==
    /\ taskReady \in BOOLEAN
    /\ queue = <<>>
    /\ call = [c \in Callers |-> Idle]
    /\ dim = DefaultDim
    /\ scale = 100
    /\ level = 0
    /\ enabled = FALSE
    /\ out = 0
    /\ ledcStarted = FALSE
    /\ lastNonzero = 0
    /\ desiredOn = FALSE
    /\ powerCut = FALSE
    /\ blinking = FALSE
    /\ ident = [steps |-> 0, nextOn |-> FALSE, lit |-> FALSE,
                level |-> 0, desired |-> FALSE]

Next ==
    \/ \E c \in Callers : \E cmd \in Requests \cup {Enable} : Post(c, cmd)
    \/ \E c \in Callers : PostStep(c)
    \/ Task

\* The driver task runs above every caller's priority and never blocks, so
\* it keeps making progress; a caller inside post_cmd is not left there.
Spec ==
    /\ HvInit
    /\ [][Next]_hvVars
    /\ WF_hvVars(Task)
    /\ \A c \in Callers : WF_hvVars(PostStep(c))

-----------------------------------------------------------------------------
(* Properties. *)

TypeOK ==
    /\ taskReady \in BOOLEAN
    /\ queue \in Seq(Command)
    /\ Len(queue) <= QueueLen
    /\ call \in [Callers -> CallState]
    /\ dim \in DarkLimits
    /\ scale \in 1..100
    /\ level \in 0..100
    /\ enabled \in BOOLEAN
    /\ out \in 0..FullDrive
    /\ ledcStarted \in BOOLEAN
    /\ lastNonzero \in 0..100
    /\ desiredOn \in BOOLEAN
    /\ powerCut \in BOOLEAN
    /\ blinking \in BOOLEAN
    /\ ident \in [steps : 0..(2 * BlinkCycles), nextOn : BOOLEAN, lit : BOOLEAN,
                  level : 0..100, desired : BOOLEAN]

\* Whatever order commands arrive in, the registers show exactly the current
\* level under the current cap and dimming configuration, and nothing while
\* the power-cut latch is set: no handler changes one of the four and leaves
\* a stale duty behind, and is_enabled() never disagrees with the LED.
RenderInSync ==
    /\ out = IF WantLit(dim, level * scale) /\ ~powerCut THEN level * scale ELSE 0
    /\ enabled = (out # 0)

\* The power-cut latch wins over every command queued before or after it:
\* with the latch set the LED is dark and reported dark.
DarkWhenCut == powerCut => out = 0 /\ ~enabled

\* EMERGENCY_OFF commands are served before everything else that is waiting:
\* they are always a prefix of the queue, also when posts from several tasks
\* interleave and when heads were discarded to make room.
EmergencyFirst ==
    \A i, j \in 1..Len(queue) :
        i < j /\ queue[j] = EmergencyOff => queue[i] = EmergencyOff

\* While IDENTIFY blinks nobody else has touched the level: it is full or
\* zero according to the phase, so no command both ran and left the blink
\* timer armed to overwrite its effect.
BlinkOwnsLevel == blinking => level = IF ident.nextOn THEN 0 ELSE 100

\* A cut LED lights again only in the step that dispatches an ENABLE or an
\* IDENTIFY: a SET_DIM, a new cap or a new dimming configuration that was
\* queued behind the cut cannot do it.
RelitOnlyByRequest ==
    [][powerCut /\ out' # 0 => Head(queue).type \in {"ENABLE", "IDENTIFY"}]_hvVars

\* The driver keeps LedGate's promise: out, latch and cap move only as a
\* gated, capped light may.
Gate == INSTANCE LedGate WITH light <- out, cut <- powerCut, cap <- scale
ImplementsGate == Gate!Spec

\* hv9910.c's comment in do_identify_step: identify "must not disturb the
\* on/off desire or the level".  A blink that stops, other than by a command
\* that asks for a level of its own, leaves the level it found.
IdentifyRestoresLevel ==
    [][blinking /\ ~blinking'
         => \/ queue # <<>> /\ Head(queue).type
                  \in {"ENABLE", "DISABLE", "SET_DIM", "EMERGENCY_OFF"}
            \/ level' = IF ident.lit THEN ident.level ELSE 0]_hvVars
=============================================================================
