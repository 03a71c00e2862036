---------------------------- MODULE Hv9910Proofs ----------------------------
(***************************************************************************)
(* Hv9910's invariants, for every queue length, set of callers, command    *)
(* set and dimming configuration.                                          *)
(***************************************************************************)
EXTENDS Hv9910, TLAPS

\* Clamping a level or a cap lands in its range.
LEMMA ClampRange ==
    \A n \in Nat : Clamp(n, 0, 100) \in 0..100 /\ Clamp(n, 1, 100) \in 1..100
BY DEF Clamp

LEMMA FullDriveNat == FullDrive \in Nat
BY DEF FullDrive

\* A level under a cap is at most full drive, and at most the cap.
LEMMA DriveRange ==
    \A l \in 0..100, c \in 1..100 :
        l * c \in 0..FullDrive /\ l * c \in 0..(100 * c)
<1> SUFFICES ASSUME NEW l \in 0..100, NEW c \in 1..100
             PROVE  l * c \in 0..FullDrive /\ l * c \in 0..(100 * c)
  OBVIOUS
<1>1. l * c <= 100 * c  OBVIOUS
<1>2. 0 <= l * c  OBVIOUS
<1> QED BY <1>1, <1>2 DEF FullDrive

\* The driver's part of the type invariant.
DriverTypeOK ==
    /\ dim \in DarkLimits
    /\ scale \in 1..100
    /\ level \in 0..100
    /\ enabled \in BOOLEAN
    /\ out \in 0..FullDrive
    /\ ledcStarted \in BOOLEAN
    /\ lastNonzero \in 0..100
    /\ desiredOn \in BOOLEAN
    /\ powerCut \in BOOLEAN
    /\ blinking \in BOOLEAN
    /\ ident \in [steps : 0..(2 * BlinkCycles), nextOn : BOOLEAN, lit : BOOLEAN,
                  level : 0..100, desired : BOOLEAN]

\* apply_level keeps its variables in range.
LEMMA ApplyLevelType ==
    \A l \in 0..100 : scale' \in 1..100 /\ ApplyLevel(l)
        => /\ level' \in 0..100
           /\ out' \in 0..FullDrive
           /\ enabled' \in BOOLEAN
           /\ ledcStarted' \in BOOLEAN
<1> SUFFICES ASSUME NEW l \in 0..100, scale' \in 1..100, ApplyLevel(l)
             PROVE  /\ level' \in 0..100
                    /\ out' \in 0..FullDrive
                    /\ enabled' \in BOOLEAN
                    /\ ledcStarted' \in BOOLEAN
  OBVIOUS
<1>1. l * scale' \in 0..FullDrive  BY DriveRange
<1>2. 0 \in 0..FullDrive  BY FullDriveNat
<1>3. out' \in 0..FullDrive  BY <1>1, <1>2 DEF ApplyLevel
<1> QED BY <1>3 DEF ApplyLevel

\* hv_do_set_dim's memory of the last level stays a percentage.
LEMMA RememberType ==
    \A p \in Nat : lastNonzero \in 0..100 /\ Remember(p) => lastNonzero' \in 0..100
BY ClampRange DEF Remember

\* Every handler keeps the driver's types.
LEMMA DispatchType ==
    ASSUME Hv9910Assumption, DriverTypeOK, NEW cmd \in Command, Dispatch(cmd)
    PROVE  DriverTypeOK'
<1> USE DEF DriverTypeOK, output
<1>1. CASE cmd.type = "ENABLE" /\ DoEnable(cmd.percent)
  <2>1. cmd.percent \in Nat  BY <1>1 DEF Command
  <2>2. Clamp(cmd.percent, 0, 100) \in 0..100  BY <2>1, ClampRange
  <2> QED BY <1>1, <2>1, <2>2, ApplyLevelType, RememberType DEF DoEnable
<1>2. CASE cmd.type = "DISABLE" /\ DoDisable
  <2>1. ApplyLevel(0) /\ 0 \in 0..100  BY <1>2 DEF DoDisable
  <2>2. scale' \in 1..100  BY <1>2 DEF DoDisable
  <2> QED BY <1>2, <2>1, <2>2, ApplyLevelType DEF DoDisable
<1>3. CASE cmd.type = "SET_DIM" /\ DoSetDim(cmd.percent)
  <2>1. cmd.percent \in Nat  BY <1>3 DEF Command
  <2>2. Clamp(cmd.percent, 0, 100) \in 0..100  BY <2>1, ClampRange
  <2> QED BY <1>3, <2>1, <2>2, ApplyLevelType, RememberType DEF DoSetDim
<1>4. CASE cmd.type = "IDENTIFY" /\ DoIdentify
  <2>1. ident' \in [steps : 0..(2 * BlinkCycles), nextOn : BOOLEAN, lit : BOOLEAN,
                    level : 0..100, desired : BOOLEAN]
    BY <1>4 DEF DoIdentify, Hv9910Assumption
  <2>2. ApplyLevel(100) /\ 100 \in 0..100  BY <1>4 DEF DoIdentify
  <2>3. scale' \in 1..100  BY <1>4 DEF DoIdentify
  <2> QED BY <1>4, <2>1, <2>2, <2>3, ApplyLevelType DEF DoIdentify
<1>5. CASE cmd.type = "SET_PENDING" /\ DoSetPending(cmd.on, cmd.percent)
  <2>1. cmd.percent \in 0..100 /\ cmd.on \in BOOLEAN  BY <1>5 DEF Command
  <2>2. lastNonzero' \in 0..100 /\ desiredOn' \in BOOLEAN  BY <1>5, <2>1 DEF DoSetPending
  <2> QED BY <1>5, <2>2 DEF DoSetPending
<1>6. CASE cmd.type = "EMERGENCY_OFF" /\ DoEmergencyOff
  <2>1. out' \in 0..FullDrive  BY <1>6, FullDriveNat DEF DoEmergencyOff
  <2>2. level' = 0  BY <1>6 DEF DoEmergencyOff
  <2>3. enabled' \in BOOLEAN /\ powerCut' \in BOOLEAN /\ blinking' \in BOOLEAN
    BY <1>6 DEF DoEmergencyOff
  <2>4. UNCHANGED <<dim, scale, ledcStarted, lastNonzero, desiredOn, ident>>
    BY <1>6 DEF DoEmergencyOff
  <2> QED BY <2>1, <2>2, <2>3, <2>4
<1>7. CASE cmd.type = "APPLY_DIMMING" /\ DoApplyDimming(cmd.dim)
  <2>1. cmd.dim \in DarkLimits  BY <1>7 DEF Command
  <2> QED BY <1>7, <2>1, ApplyLevelType DEF DoApplyDimming
<1>8. CASE cmd.type = "SET_SCALE" /\ DoSetScale(cmd.percent)
  <2>1. cmd.percent \in Nat  BY <1>8 DEF Command
  <2>2. Clamp(cmd.percent, 1, 100) \in 1..100  BY <2>1, ClampRange
  <2> QED BY <1>8, <2>2, ApplyLevelType DEF DoSetScale
<1> QED BY <1>1, <1>2, <1>3, <1>4, <1>5, <1>6, <1>7, <1>8 DEF Dispatch

-----------------------------------------------------------------------------
(* The inductive invariant of the driver task's own state.  RenderInSync   *)
(* is not inductive alone: EMERGENCY_OFF clears the duties only if the     *)
(* LEDC was started, so they must be known to be clear before that.        *)

LedcDark == ~ledcStarted => out = 0

DriverInv ==
    /\ DriverTypeOK
    /\ RenderInSync
    /\ LedcDark
    /\ BlinkOwnsLevel

\* apply_level alone brings the registers in line with the driver's state.
LEMMA ApplyLevelRenders ==
    \A l : ApplyLevel(l) => RenderInSync' /\ LedcDark' /\ level' = l
BY DEF ApplyLevel, RenderInSync, LedcDark, WantLit

\* A handler that stops the blink leaves BlinkOwnsLevel nothing to say.
LEMMA NoBlink == ~blinking' => BlinkOwnsLevel'
BY DEF BlinkOwnsLevel

LEMMA DispatchKeepsInv ==
    ASSUME Hv9910Assumption, DriverInv, NEW cmd \in Command, Dispatch(cmd)
    PROVE  DriverInv'
<1>1. DriverTypeOK'  BY DispatchType DEF DriverInv
<1>2. RenderInSync' /\ LedcDark' /\ BlinkOwnsLevel'
  <2>1. CASE DoEnable(cmd.percent) \/ DoDisable \/ DoSetDim(cmd.percent)
             \/ DoApplyDimming(cmd.dim) \/ DoSetScale(cmd.percent)
    <3>1. ~blinking'
      BY <2>1 DEF DoEnable, DoDisable, DoSetDim, DoApplyDimming, DoSetScale
    <3>2. \E l : ApplyLevel(l)
      BY <2>1 DEF DoEnable, DoDisable, DoSetDim, DoApplyDimming, DoSetScale
    <3> QED BY <3>1, <3>2, ApplyLevelRenders, NoBlink
  <2>2. CASE DoSetPending(cmd.on, cmd.percent)
    <3>1. UNCHANGED <<out, level, scale, dim, powerCut, enabled, ledcStarted>>
          /\ ~blinking'
      BY <2>2 DEF DoSetPending, output
    <3> QED BY <3>1, NoBlink DEF DriverInv, RenderInSync, LedcDark
  <2>3. CASE DoEmergencyOff
    <3>1. out' = 0 /\ enabled' = FALSE /\ powerCut' = TRUE /\ ~blinking'
      BY <2>3 DEF DoEmergencyOff, DriverInv, LedcDark
    <3>2. RenderInSync'  BY <3>1 DEF RenderInSync
    <3> QED BY <3>1, <3>2, NoBlink DEF LedcDark
  <2>4. CASE DoIdentify
    <3>1. ApplyLevel(100) /\ ident'.nextOn = FALSE  BY <2>4 DEF DoIdentify
    <3> QED BY <3>1, ApplyLevelRenders DEF BlinkOwnsLevel
  <2> QED BY <2>1, <2>2, <2>3, <2>4, Zenon DEF Dispatch
<1> QED BY <1>1, <1>2 DEF DriverInv

LEMMA BlinkKeepsInv ==
    ASSUME Hv9910Assumption, DriverInv, BlinkStep \/ BlinkRestore
    PROVE  DriverInv'
<1> USE DEF DriverInv, DriverTypeOK
<1>1. CASE BlinkStep
  <2>1. ident' \in [steps : 0..(2 * BlinkCycles), nextOn : BOOLEAN, lit : BOOLEAN,
                    level : 0..100, desired : BOOLEAN]
    <3>1. ident.steps - 1 \in 0..(2 * BlinkCycles)
      BY <1>1 DEF BlinkStep, Hv9910Assumption
    <3> QED BY <1>1, <3>1 DEF BlinkStep
  <2>2. PICK l \in 0..100 : ApplyLevel(l) /\ l = IF ident.nextOn THEN 100 ELSE 0
    BY <1>1 DEF BlinkStep
  <2>3. ident'.nextOn = ~ident.nextOn  BY <1>1 DEF BlinkStep
  <2>4. RenderInSync' /\ LedcDark' /\ level' = l  BY <2>2, ApplyLevelRenders
  <2>5. BlinkOwnsLevel'  BY <2>2, <2>3, <2>4 DEF BlinkOwnsLevel
  <2>6. scale' \in 1..100  BY <1>1 DEF BlinkStep
  <2> QED BY <1>1, <2>1, <2>2, <2>4, <2>5, <2>6, ApplyLevelType DEF BlinkStep
<1>2. CASE BlinkRestore
  <2>1. PICK l \in 0..100 : ApplyLevel(l)  BY <1>2 DEF BlinkRestore
  <2>2. RenderInSync' /\ LedcDark'  BY <2>1, ApplyLevelRenders
  <2>3. BlinkOwnsLevel'  BY <1>2, NoBlink DEF BlinkRestore
  <2>4. scale' \in 1..100 /\ desiredOn' \in BOOLEAN  BY <1>2 DEF BlinkRestore
  <2> QED BY <1>2, <2>1, <2>2, <2>3, <2>4, ApplyLevelType DEF BlinkRestore
<1> QED BY <1>1, <1>2

-----------------------------------------------------------------------------
(* The queue.  Only EMERGENCY_OFF is sent to the front, and a command      *)
(* waiting to be appended is never one, so emergencies stay a prefix.      *)

SendsOrdinary ==
    \A c \in Callers : call[c].at = "send" => call[c].cmd # EmergencyOff

QueueInv ==
    /\ taskReady \in BOOLEAN
    /\ queue \in Seq(Command)
    /\ Len(queue) <= QueueLen
    /\ call \in [Callers -> CallState]
    /\ SendsOrdinary
    /\ EmergencyFirst

LEMMA EmergencyIsCommand == EmergencyOff \in Command
BY DEF EmergencyOff, Command

\* hv9910_enable's own command is one, whatever the last level was.
LEMMA EnableIsCommand ==
    ASSUME lastNonzero \in 0..100
    PROVE  Enable \in Command
<1>1. Clamp(IF lastNonzero > 0 THEN lastNonzero ELSE 100, 0, 100) \in Nat
  BY ClampRange
<1> QED BY <1>1 DEF Enable, EnableAt, Command

LEMMA CallStateSend ==
    ASSUME NEW s \in CallState, s.at = "send"
    PROVE  s.cmd \in Command
BY DEF CallState, Idle

LEMMA IdleIsCallState == Idle \in CallState /\ Idle.at # "send"
BY DEF CallState, Idle

\* Entering post_cmd leaves the queue alone.
LEMMA PostKeepsQueue ==
    ASSUME QueueInv, NEW c \in Callers, NEW cmd \in Command, Post(c, cmd)
    PROVE  QueueInv'
<1> USE DEF QueueInv
<1>1. UNCHANGED <<taskReady, queue>>  BY DEF Post
<1> DEFINE new == IF ~taskReady THEN Idle
                  ELSE IF cmd = EmergencyOff THEN [at |-> "front"]
                  ELSE [at |-> "send", cmd |-> cmd]
<1>2. new \in CallState  BY IdleIsCallState DEF CallState
<1>3. new.at = "send" => new.cmd # EmergencyOff  BY IdleIsCallState
<1>4. call' = [call EXCEPT ![c] = new]  BY DEF Post
<1> HIDE DEF new
<1>5. call' \in [Callers -> CallState] /\ SendsOrdinary'
  BY <1>2, <1>3, <1>4 DEF SendsOrdinary
<1> QED BY <1>1, <1>5 DEF EmergencyFirst

\* Removing the head and adding at either end keep emergencies first.
LEMMA TailKeepsOrder ==
    ASSUME queue \in Seq(Command), queue # <<>>, EmergencyFirst, queue' = Tail(queue)
    PROVE  queue' \in Seq(Command) /\ Len(queue') = Len(queue) - 1 /\ EmergencyFirst'
<1>1. Len(queue') = Len(queue) - 1 /\ \A i \in 1..Len(queue') : queue'[i] = queue[i + 1]
  OBVIOUS
<1>2. EmergencyFirst'
  <2> SUFFICES ASSUME NEW i \in 1..Len(queue'), NEW j \in 1..Len(queue'),
                      i < j, queue'[j] = EmergencyOff
               PROVE  queue'[i] = EmergencyOff
    BY DEF EmergencyFirst
  <2>1. i + 1 \in 1..Len(queue) /\ j + 1 \in 1..Len(queue) /\ i + 1 < j + 1
    BY <1>1
  <2>2. queue[j + 1] = EmergencyOff  BY <1>1
  <2>3. queue[i + 1] = EmergencyOff  BY <2>1, <2>2 DEF EmergencyFirst
  <2> QED BY <1>1, <2>3
<1> QED BY <1>1, <1>2

LEMMA AppendKeepsOrder ==
    ASSUME queue \in Seq(Command), EmergencyFirst,
           NEW cmd \in Command, cmd # EmergencyOff, queue' = Append(queue, cmd)
    PROVE  queue' \in Seq(Command) /\ Len(queue') = Len(queue) + 1 /\ EmergencyFirst'
<1>1. /\ Len(queue') = Len(queue) + 1
      /\ \A i \in 1..Len(queue) : queue'[i] = queue[i]
      /\ queue'[Len(queue) + 1] = cmd
  OBVIOUS
<1>2. EmergencyFirst'
  <2> SUFFICES ASSUME NEW i \in 1..Len(queue'), NEW j \in 1..Len(queue'),
                      i < j, queue'[j] = EmergencyOff
               PROVE  queue'[i] = EmergencyOff
    BY DEF EmergencyFirst
  <2>1. j \in 1..Len(queue)  BY <1>1
  <2>2. i \in 1..Len(queue)  BY <2>1
  <2> QED BY <1>1, <2>1, <2>2 DEF EmergencyFirst
<1> QED BY <1>1, <1>2

LEMMA PushKeepsOrder ==
    ASSUME queue \in Seq(Command), EmergencyFirst, queue' = <<EmergencyOff>> \o queue
    PROVE  queue' \in Seq(Command) /\ Len(queue') = Len(queue) + 1 /\ EmergencyFirst'
<1>1. /\ Len(queue') = Len(queue) + 1
      /\ queue'[1] = EmergencyOff
      /\ \A i \in 2..(Len(queue) + 1) : queue'[i] = queue[i - 1]
  OBVIOUS
<1>2. EmergencyFirst'
  <2> SUFFICES ASSUME NEW i \in 1..Len(queue'), NEW j \in 1..Len(queue'),
                      i < j, queue'[j] = EmergencyOff, i # 1
               PROVE  queue'[i] = EmergencyOff
    BY <1>1 DEF EmergencyFirst
  <2>1. i \in 2..(Len(queue) + 1) /\ j \in 2..(Len(queue) + 1)  BY <1>1
  <2>2. i - 1 \in 1..Len(queue) /\ j - 1 \in 1..Len(queue) /\ i - 1 < j - 1
    BY <2>1
  <2>3. queue[j - 1] = EmergencyOff  BY <1>1, <2>1
  <2>4. queue[i - 1] = EmergencyOff  BY <2>2, <2>3 DEF EmergencyFirst
  <2> QED BY <1>1, <2>1, <2>4
<1>3. queue' \in Seq(Command)  BY EmergencyIsCommand
<1> QED BY <1>1, <1>2, <1>3

\* Each queue call of post_cmd keeps the queue's invariant.
LEMMA PostStepKeepsQueue ==
    ASSUME Hv9910Assumption, QueueInv, NEW c \in Callers, PostStep(c)
    PROVE  QueueInv'
<1> USE DEF QueueInv, Hv9910Assumption, IsFull
<1>1. \A at \in {"discard", "retry"} :
        call' = [call EXCEPT ![c] = [at |-> at]]
            => call' \in [Callers -> CallState] /\ SendsOrdinary'
  BY DEF CallState, SendsOrdinary
<1>2. call' = [call EXCEPT ![c] = Idle]
        => call' \in [Callers -> CallState] /\ SendsOrdinary'
  BY IdleIsCallState DEF SendsOrdinary
<1>3. CASE SendToBack(c)
  <2>1. call[c].cmd \in Command /\ call[c].cmd # EmergencyOff
    BY <1>3, CallStateSend DEF SendToBack, SendsOrdinary
  <2>2. Len(queue') = Len(queue) + 1 /\ queue' \in Seq(Command) /\ EmergencyFirst'
    BY <1>3, <2>1, AppendKeepsOrder DEF SendToBack
  <2>3. Len(queue') <= QueueLen  BY <1>3, <2>2 DEF SendToBack
  <2> QED BY <1>2, <1>3, <2>2, <2>3 DEF SendToBack
<1>4. CASE SendTimeout(c)
  BY <1>2, <1>4 DEF SendTimeout, EmergencyFirst
<1>5. CASE SendToFront(c)
  <2>1. CASE IsFull(queue)
    BY <1>1, <1>5, <2>1 DEF SendToFront, EmergencyFirst
  <2>2. CASE ~IsFull(queue)
    <3>1. Len(queue') = Len(queue) + 1 /\ queue' \in Seq(Command) /\ EmergencyFirst'
      BY <1>5, <2>2, PushKeepsOrder DEF SendToFront
    <3>2. Len(queue') <= QueueLen  BY <2>2, <3>1
    <3> QED BY <1>2, <1>5, <2>2, <3>1, <3>2 DEF SendToFront
  <2> QED BY <2>1, <2>2
<1>6. CASE DiscardHead(c)
  <2>1. CASE queue = <<>>
    BY <1>1, <1>6, <2>1 DEF DiscardHead, EmergencyFirst
  <2>2. CASE queue # <<>>
    <3>1. Len(queue') = Len(queue) - 1 /\ queue' \in Seq(Command) /\ EmergencyFirst'
      BY <1>6, <2>2, TailKeepsOrder DEF DiscardHead
    <3> QED BY <1>1, <1>6, <3>1 DEF DiscardHead
  <2> QED BY <2>1, <2>2
<1>7. CASE RetryFront(c)
  <2>1. CASE IsFull(queue)
    BY <1>2, <1>7, <2>1 DEF RetryFront, EmergencyFirst
  <2>2. CASE ~IsFull(queue)
    <3>1. Len(queue') = Len(queue) + 1 /\ queue' \in Seq(Command) /\ EmergencyFirst'
      BY <1>7, <2>2, PushKeepsOrder DEF RetryFront
    <3>2. Len(queue') <= QueueLen  BY <2>2, <3>1
    <3> QED BY <1>2, <1>7, <3>1, <3>2 DEF RetryFront
  <2> QED BY <2>1, <2>2
<1> QED BY <1>3, <1>4, <1>5, <1>6, <1>7 DEF PostStep

-----------------------------------------------------------------------------
(* The whole component. *)

IInv == QueueInv /\ DriverInv

LEMMA InitInv ==
    ASSUME Hv9910Assumption, HvInit
    PROVE  IInv
<1>1. QueueInv
  BY IdleIsCallState
  DEF HvInit, QueueInv, SendsOrdinary, EmergencyFirst, Hv9910Assumption
<1>2. DriverTypeOK
  <2>1. 0 \in 0..(2 * BlinkCycles) /\ 0 \in 0..100  BY DEF Hv9910Assumption
  <2>2. ident \in [steps : 0..(2 * BlinkCycles), nextOn : BOOLEAN, lit : BOOLEAN,
                   level : 0..100, desired : BOOLEAN]
    BY <2>1 DEF HvInit
  <2>3. scale \in 1..100 /\ out \in 0..FullDrive  BY FullDriveNat DEF HvInit
  <2>4. dim \in DarkLimits  BY DEF HvInit, Hv9910Assumption
  <2> QED BY <2>1, <2>2, <2>3, <2>4 DEF HvInit, DriverTypeOK
<1>3. RenderInSync
  <2>1. level * scale = 0  BY DEF HvInit
  <2> QED BY <2>1 DEF HvInit, RenderInSync
<1>4. LedcDark /\ BlinkOwnsLevel  BY DEF HvInit, LedcDark, BlinkOwnsLevel
<1> QED BY <1>1, <1>2, <1>3, <1>4 DEF IInv, DriverInv

\* The driver's invariant only reads the driver's variables.
LEMMA DriverUnchanged ==
    ASSUME DriverInv, UNCHANGED driver
    PROVE  DriverInv'
<1>1. UNCHANGED <<dim, scale, level, enabled, out, ledcStarted, lastNonzero,
                  desiredOn, powerCut, blinking, ident>>
  BY DEF driver, output
<1> QED BY <1>1 DEF DriverInv, DriverTypeOK, RenderInSync, WantLit, LedcDark, BlinkOwnsLevel

LEMMA NextInv ==
    ASSUME Hv9910Assumption, IInv, [Next]_hvVars
    PROVE  IInv'
<1> USE DEF IInv
<1>1. CASE \E c \in Callers : \E cmd \in Requests \cup {Enable} : Post(c, cmd)
  <2>1. PICK c \in Callers, cmd \in Requests \cup {Enable} : Post(c, cmd)  BY <1>1
  <2>2. cmd \in Command
    BY EnableIsCommand DEF Hv9910Assumption, DriverInv, DriverTypeOK
  <2>3. QueueInv'  BY <2>1, <2>2, PostKeepsQueue
  <2>4. UNCHANGED driver  BY <2>1 DEF Post
  <2> QED BY <2>3, <2>4, DriverUnchanged
<1>2. CASE \E c \in Callers : PostStep(c)
  <2>1. QueueInv'  BY <1>2, PostStepKeepsQueue
  <2>2. UNCHANGED driver
    BY <1>2 DEF PostStep, SendToBack, SendTimeout, SendToFront, DiscardHead, RetryFront
  <2> QED BY <2>1, <2>2, DriverUnchanged
<1>3. CASE Receive
  <2>1. Head(queue) \in Command  BY <1>3 DEF Receive, QueueInv
  <2>2. DriverInv'  BY <1>3, <2>1, DispatchKeepsInv DEF Receive
  <2>3. queue' \in Seq(Command) /\ Len(queue') = Len(queue) - 1 /\ EmergencyFirst'
    BY <1>3, TailKeepsOrder DEF Receive, QueueInv
  <2>4. UNCHANGED <<taskReady, call>>  BY <1>3 DEF Receive
  <2>5. QueueInv'  BY <2>3, <2>4 DEF QueueInv, SendsOrdinary, Hv9910Assumption
  <2> QED BY <2>2, <2>5
<1>4. CASE BlinkTimeout
  <2>1. DriverInv'  BY <1>4, BlinkKeepsInv DEF BlinkTimeout
  <2>2. UNCHANGED <<taskReady, queue, call>>  BY <1>4 DEF BlinkTimeout
  <2>3. QueueInv'  BY <2>2 DEF QueueInv, SendsOrdinary, EmergencyFirst
  <2> QED BY <2>1, <2>3
<1>5. CASE UNCHANGED hvVars
  <2>1. UNCHANGED <<taskReady, queue, call>> /\ UNCHANGED driver  BY <1>5 DEF hvVars
  <2>2. QueueInv'  BY <2>1 DEF QueueInv, SendsOrdinary, EmergencyFirst
  <2> QED BY <2>1, <2>2, DriverUnchanged
<1> QED BY <1>1, <1>2, <1>3, <1>4, <1>5 DEF Next, Task

\* In every execution the driver and its queue satisfy the invariant.
THEOREM Invariance == Spec => []IInv
<1>1. HvInit => IInv  BY InitInv, Hv9910Assumption
<1>2. IInv /\ [Next]_hvVars => IInv'  BY NextInv, Hv9910Assumption
<1> QED BY <1>1, <1>2, PTL DEF Spec

\* The queue never exceeds its capacity, and every percentage the driver
\* keeps stays a percentage.
THEOREM TypeCorrect == Spec => []TypeOK
<1>1. IInv => TypeOK  BY DEF IInv, QueueInv, DriverInv, DriverTypeOK, TypeOK
<1> QED BY <1>1, Invariance, PTL

\* The registers always show the level under the cap, the dimming
\* configuration and the latch, whatever commands came in whatever order.
THEOREM RenderCorrect == Spec => []RenderInSync
<1>1. IInv => RenderInSync  BY DEF IInv, DriverInv
<1> QED BY <1>1, Invariance, PTL

\* Hence no reachable state has the latch set and the LED lit.
THEOREM CutIsDark == Spec => []DarkWhenCut
<1>1. IInv => DarkWhenCut  BY DEF IInv, DriverInv, RenderInSync, DarkWhenCut
<1> QED BY <1>1, Invariance, PTL

\* Emergencies stay ahead of ordinary commands for any number of callers,
\* any queue length and any interleaving of post_cmd's queue calls.
THEOREM EmergencyOrder == Spec => []EmergencyFirst
<1>1. IInv => EmergencyFirst  BY DEF IInv, QueueInv
<1> QED BY <1>1, Invariance, PTL

\* While the blink timer is armed, no command's level is on the LED.
THEOREM BlinkExclusive == Spec => []BlinkOwnsLevel
<1>1. IInv => BlinkOwnsLevel  BY DEF IInv, DriverInv
<1> QED BY <1>1, Invariance, PTL

-----------------------------------------------------------------------------
(* What a step may do. *)

\* A step that leaves the driver task's state alone moves nothing the gate sees.
LEMMA PostsKeepDriver ==
    ASSUME Next, ~Receive, ~BlinkTimeout
    PROVE  UNCHANGED driver
BY DEF Next, Task, Post, PostStep, SendToBack, SendTimeout, SendToFront,
       DiscardHead, RetryFront

\* apply_level renders nothing while the latch is set.
LEMMA CutStaysDark ==
    ASSUME NEW l, ApplyLevel(l), powerCut'
    PROVE  out' = 0
BY DEF ApplyLevel

\* A cut LED is lit only by the dispatch of an ENABLE or an IDENTIFY.
THEOREM RelitByRequest == Spec => RelitOnlyByRequest
<1> DEFINE Relit == powerCut /\ out' # 0 => Head(queue).type \in {"ENABLE", "IDENTIFY"}
<1>1. IInv /\ [Next]_hvVars => [Relit]_hvVars
  <2> SUFFICES ASSUME IInv, Next, powerCut, out' # 0
               PROVE  Head(queue).type \in {"ENABLE", "IDENTIFY"}
    OBVIOUS
  <2>1. out = 0  BY DEF IInv, DriverInv, RenderInSync
  <2>2. CASE Receive
    <3> SUFFICES ASSUME NEW cmd, cmd = Head(queue), Dispatch(cmd),
                        cmd.type \notin {"ENABLE", "IDENTIFY"}
                 PROVE  FALSE
      BY <2>2 DEF Receive
    <3>1. CASE DoDisable \/ DoSetDim(cmd.percent) \/ DoApplyDimming(cmd.dim)
               \/ DoSetScale(cmd.percent)
      <4>1. powerCut' /\ \E l : ApplyLevel(l)
        BY <3>1 DEF DoDisable, DoSetDim, DoApplyDimming, DoSetScale
      <4> QED BY <4>1, CutStaysDark
    <3>2. CASE DoSetPending(cmd.on, cmd.percent) \/ DoEmergencyOff
      BY <2>1, <3>2 DEF DoSetPending, DoEmergencyOff, output
    <3> QED BY <3>1, <3>2, Zenon DEF Dispatch
  <2>3. CASE BlinkTimeout
    <3>1. powerCut' /\ \E l : ApplyLevel(l)
      BY <2>3 DEF BlinkTimeout, BlinkStep, BlinkRestore
    <3> QED BY <3>1, CutStaysDark
  <2>4. CASE UNCHANGED driver
    BY <2>1, <2>4 DEF driver, output
  <2> QED BY <2>2, <2>3, <2>4, PostsKeepDriver
<1>2. Spec => [][Relit]_hvVars
  BY <1>1, Invariance, PTL DEF Spec
<1> QED BY <1>2 DEF RelitOnlyByRequest

-----------------------------------------------------------------------------
(* The driver implements the gate. *)

\* What apply_level writes fits under the cap it reads.
LEMMA ApplyLevelUnderCap ==
    ASSUME NEW l \in 0..100, scale' \in 1..100, ApplyLevel(l)
    PROVE  out' \in 0..(100 * scale')
<1>1. l * scale' \in 0..(100 * scale')  BY DriveRange
<1>2. \A c \in 1..100 : 0 \in 0..(100 * c)  OBVIOUS
<1> QED BY <1>1, <1>2 DEF ApplyLevel

\* A handler that keeps the latch and applies a level is an adjustment.
LEMMA AdjustByLevel ==
    ASSUME NEW l \in 0..100, scale' \in 1..100, ApplyLevel(l), UNCHANGED powerCut
    PROVE  Gate!Adjust
<1>1. out' \in 0..(100 * scale')  BY ApplyLevelUnderCap
<1>2. powerCut => out' = 0  BY DEF ApplyLevel
<1> QED BY <1>1, <1>2 DEF Gate!Adjust

\* A handler that clears the latch and applies a level is a grant.
LEMMA GrantByLevel ==
    ASSUME NEW l \in 0..100, scale \in 1..100, UNCHANGED scale, ApplyLevel(l),
           powerCut' = FALSE
    PROVE  Gate!Grant
<1>1. out' \in 0..(100 * scale)  BY ApplyLevelUnderCap
<1> QED BY <1>1 DEF Gate!Grant

LEMMA DispatchImplements ==
    ASSUME DriverInv, DriverInv', NEW cmd \in Command, Dispatch(cmd)
    PROVE  [Gate!Next]_(Gate!gateVars)
<1> USE DEF DriverInv, DriverTypeOK
<1>1. CASE DoEnable(cmd.percent) \/ DoIdentify
  <2>1. PICK l : ApplyLevel(l)  BY <1>1 DEF DoEnable, DoIdentify
  <2>2. l \in 0..100  BY <2>1 DEF ApplyLevel
  <2>3. UNCHANGED scale /\ powerCut' = FALSE  BY <1>1 DEF DoEnable, DoIdentify
  <2> QED BY <2>1, <2>2, <2>3, GrantByLevel DEF Gate!Next
<1>2. CASE DoDisable \/ DoSetDim(cmd.percent) \/ DoApplyDimming(cmd.dim)
           \/ DoSetScale(cmd.percent)
  <2>1. PICK l : ApplyLevel(l)
    BY <1>2 DEF DoDisable, DoSetDim, DoApplyDimming, DoSetScale
  <2>2. l \in 0..100  BY <2>1 DEF ApplyLevel
  <2>3. UNCHANGED powerCut
    BY <1>2 DEF DoDisable, DoSetDim, DoApplyDimming, DoSetScale
  <2> QED BY <2>1, <2>2, <2>3, AdjustByLevel DEF Gate!Next
<1>3. CASE DoEmergencyOff
  <2>1. out' = 0 /\ powerCut' = TRUE /\ UNCHANGED scale
    BY <1>3 DEF DoEmergencyOff, LedcDark
  <2> QED BY <2>1 DEF Gate!Cut, Gate!Next
<1>4. CASE DoSetPending(cmd.on, cmd.percent)
  BY <1>4 DEF DoSetPending, output, Gate!gateVars
<1> QED BY <1>1, <1>2, <1>3, <1>4, Zenon DEF Dispatch

LEMMA StepImplements ==
    ASSUME IInv, IInv', [Next]_hvVars
    PROVE  [Gate!Next]_(Gate!gateVars)
<1>1. CASE Receive
  <2>1. Head(queue) \in Command  BY <1>1 DEF Receive, IInv, QueueInv
  <2> QED BY <1>1, <2>1, DispatchImplements DEF Receive, IInv
<1>2. CASE BlinkTimeout
  <2>1. PICK l : ApplyLevel(l)  BY <1>2 DEF BlinkTimeout, BlinkStep, BlinkRestore
  <2>2. l \in 0..100 /\ scale' \in 1..100
    BY <2>1 DEF ApplyLevel, IInv, DriverInv, DriverTypeOK
  <2>3. UNCHANGED powerCut  BY <1>2 DEF BlinkTimeout, BlinkStep, BlinkRestore
  <2> QED BY <2>1, <2>2, <2>3, AdjustByLevel DEF Gate!Next
<1>3. CASE UNCHANGED driver
  BY <1>3 DEF driver, output, Gate!gateVars
<1>4. UNCHANGED hvVars => UNCHANGED driver  BY DEF hvVars
<1> QED BY <1>1, <1>2, <1>3, <1>4, PostsKeepDriver

LEMMA InitImplements == HvInit => Gate!Init
BY DEF HvInit, Gate!Init

\* Every step of the driver, its queue and its callers is a step of the gate
\* or leaves it alone.
THEOREM Refinement == Spec => ImplementsGate
<1>1. IInv /\ IInv' /\ [Next]_hvVars => [Gate!Next]_(Gate!gateVars)
  BY StepImplements
<1>2. Spec => [][Gate!Next]_(Gate!gateVars)
  BY <1>1, Invariance, PTL DEF Spec
<1> QED BY InitImplements, <1>2, PTL DEF Spec, ImplementsGate, Gate!Spec
=============================================================================
