------------------------------ MODULE DmxDrive ------------------------------
(***************************************************************************)
(* What the DMX input task does with the level it has merged: the second    *)
(* half of merge_tick (dmx_input.c), as one more task that posts to the LED *)
(* driver beside those of the power path (PowerManager).                   *)
(*                                                                         *)
(* The merged level comes from DmxInput's table; here it is any percent.   *)
(* The task receives and ticks in turn, so the level stands still during a *)
(* tick; power, policy and driver do not.                                  *)
(***************************************************************************)
EXTENDS PowerManager

CONSTANTS
    Percents,   \* levels the consoles send, as percents
    Loss        \* the level of the loss behaviour, 0 for TO_BLACK, or Hold

Hold == -1

DmxCommands ==
    {SetDim(p) : p \in Percents \cup ({Loss} \cap (0..100))}
      \cup {EnableAt(p) : p \in Percents \cup ({Loss} \cap (0..100))}
      \cup {Disable}

ASSUME DriveAssumption ==
    /\ "dmx" \in Callers
    /\ Percents \subseteq 0..100
    /\ Loss \in {Hold} \cup (0..100)
    /\ DmxCommands \subseteq Requests

NoSignal == -1

VARIABLES
    layer,        \* layer_enabled, as the task has applied it
    signal,       \* the merged percent of the live sources, or NoSignal
    lastApplied,  \* s_last_applied_pct
    lossApplied,  \* s_loss_applied
    tick          \* where merge_tick is

driveVars == <<layer, signal, lastApplied, lossApplied, tick>>
allVars   == <<vars, driveVars>>

-----------------------------------------------------------------------------

Drive(cmd) == Post("dmx", cmd) /\ UNCHANGED pmVars

Keep == UNCHANGED vars

\* A tick begins when the task's last post is over.  22 ms after that post
\* the driver has long served it.
TickBegins ==
    /\ boot = "network" /\ tick = "idle" /\ call["dmx"] = Idle
    /\ DriverKeepsUp => queue = <<>>

\* Frames arrive, sources stop.
SignalChanges ==
    /\ boot = "network" /\ tick = "idle" /\ call["dmx"] = Idle
    /\ layer
    /\ signal' \in Percents \cup {NoSignal}
    /\ UNCHANGED <<layer, lastApplied, lossApplied, tick>> /\ Keep

\* Mutant: the level counts as applied although power did not allow it.
TickLiveForgets ==
    /\ TickBegins
    /\ signal # NoSignal
    /\ lossApplied' = FALSE
    /\ tick' = IF signal # lastApplied /\ ready /\ OutputAllowed THEN "actuate" ELSE "idle"
    /\ lastApplied' = signal
    /\ UNCHANGED <<layer, signal>> /\ Keep

\* Somebody is live: a new level goes out if power and policy allow it, and
\* otherwise at a later tick.
TickLive ==
    /\ TickBegins
    /\ signal # NoSignal
    /\ lossApplied' = FALSE
    /\ tick' = IF signal # lastApplied /\ ready /\ OutputAllowed THEN "actuate" ELSE "idle"
    /\ UNCHANGED <<layer, signal, lastApplied>> /\ Keep

\* The lit flag is read after power and policy were.
Actuate ==
    /\ tick = "actuate"
    /\ tick' = "idle"
    /\ lastApplied' = signal
    /\ IF enabled THEN Drive(SetDim(signal))
       ELSE IF signal > 0 THEN Drive(EnableAt(signal)) ELSE Keep
    /\ UNCHANGED <<layer, signal, lossApplied>>

Released == lossApplied' = TRUE /\ lastApplied' = NoSignal

\* Mutant: the loss behaviour is taken for done.
TickLostQuietly ==
    /\ TickBegins
    /\ signal = NoSignal
    /\ Released
    /\ tick' = "idle"
    /\ UNCHANGED <<layer, signal>> /\ Keep

\* Nobody is live: the loss behaviour, once, if the layer was driving and the
\* policy allows it; then control is released.
TickLost ==
    /\ TickBegins
    /\ signal = NoSignal
    /\ IF ~lossApplied /\ lastApplied >= 0 /\ OutputAllowed
       THEN tick' = "loss" /\ UNCHANGED <<lastApplied, lossApplied>>
       ELSE tick' = "idle" /\ Released
    /\ UNCHANGED <<layer, signal>> /\ Keep

ApplyLoss ==
    /\ tick = "loss"
    /\ tick' = "idle"
    /\ Released
    /\ IF Loss = Hold THEN Keep
       ELSE IF Loss = 0 THEN Drive(Disable)
       ELSE IF enabled THEN Drive(SetDim(Loss)) ELSE Drive(EnableAt(Loss))
    /\ UNCHANGED <<layer, signal>>

\* A new configuration: frames are taken while the layer is enabled, and
\* disabling it drops the sources.
ApplyLayer ==
    /\ boot = "network" /\ tick = "idle" /\ call["dmx"] = Idle
    /\ layer' = ~layer
    /\ signal' = NoSignal
    /\ IF layer THEN Released ELSE UNCHANGED <<lastApplied, lossApplied>>
    /\ UNCHANGED tick /\ Keep

MergeTick ==
    \/ TickLive
    \/ Actuate
    \/ TickLost
    \/ ApplyLoss

DriveInit ==
    /\ PInit
    /\ layer \in BOOLEAN
    /\ signal = NoSignal
    /\ lastApplied = NoSignal
    /\ lossApplied = TRUE
    /\ tick = "idle"

PowerPath == PNext /\ UNCHANGED driveVars

DriveNext ==
    \/ PowerPath
    \/ SignalChanges
    \/ MergeTick
    \/ ApplyLayer

\* Besides the power path's fairness: the tick, on its own cadence, comes
\* round again and again, and the DMX task gets its command into the queue.
DriveSpec ==
    /\ DriveInit
    /\ [][DriveNext]_allVars
    /\ Fairness
    /\ SF_allVars(MergeTick)
    /\ SF_vars(Posting("dmx"))

-----------------------------------------------------------------------------
(* Properties. *)

DriveTypeOK ==
    /\ PTypeOK
    /\ layer \in BOOLEAN
    /\ signal \in Percents \cup {NoSignal}
    /\ lastApplied \in Percents \cup {NoSignal}
    /\ lossApplied \in BOOLEAN
    /\ tick \in {"idle", "actuate", "loss"}

\* README: "while a valid DMX signal is present it drives the brightness; an
\* admin ON/OFF/DIM still applies but is overridden by the next DMX frame".
\* A level above zero from the consoles lights the LED in the end, unless the
\* consoles change their mind or power or policy forbids it, also when
\* readiness, class and cuts came and went in between.
SignalLights ==
    (boot = "network" /\ signal > 0)
        ~> (out # 0 \/ signal <= 0 \/ ~ready \/ ~OutputAllowed)

\* README: when every source times out "the configured signal-loss behavior
\* fires once": a layer that was driving takes the LED to the loss level, or
\* power does it by a cut, unless a console returns, the policy blocks or
\* the layer is disabled.
LossFires ==
    (signal = NoSignal /\ lastApplied >= 0)
        ~> (level = Loss \/ powerCut \/ signal # NoSignal \/ ~OutputAllowed
            \/ ~layer)

\* README: "The TPS2378 power gate still applies: the LED never lights until
\* power is confirmed."  The loss behaviour asks for light only with power.
LossRespectsGate ==
    [][tick = "loss" /\ ~ready /\ call'["dmx"] # Idle
         => call'["dmx"].cmd.type # "ENABLE"]_allVars
=============================================================================
