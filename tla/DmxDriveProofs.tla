--------------------------- MODULE DmxDriveProofs ---------------------------
(***************************************************************************)
(* The driver, the power path and the DMX task together, for every set of  *)
(* levels, loss behaviour, cap, mode and queue length: the DMX task adds   *)
(* one caller, and what was proved of the driver and of evaluate() stays.  *)
(***************************************************************************)
EXTENDS DmxDrive, PolicyProofs

DriveVarsOK ==
    /\ layer \in BOOLEAN
    /\ signal \in Percents \cup {NoSignal}
    /\ lastApplied \in Percents \cup {NoSignal}
    /\ lossApplied \in BOOLEAN
    /\ tick \in {"idle", "actuate", "loss"}

\* A tick that is about to light has somebody to follow.
ActuatesALevel == tick = "actuate" => signal \in Percents

DriveInv == DriveVarsOK /\ ActuatesALevel

LEMMA TickStep ==
    ASSUME DriveAssumption, DriveInv, SignalChanges \/ MergeTick \/ ApplyLayer
    PROVE  DriveInv' /\ UNCHANGED pmVars /\ [Next]_hvVars
<1> USE DEF DriveInv, DriveVarsOK, ActuatesALevel
<1>1. \A cmd \in DmxCommands : Post("dmx", cmd) => Next
  BY DEF DriveAssumption, Next
<1>2. \A p \in Percents : SetDim(p) \in DmxCommands /\ EnableAt(p) \in DmxCommands
  BY DEF DmxCommands
<1>3. Disable \in DmxCommands
  BY DEF DmxCommands
<1>4. Loss # Hold => SetDim(Loss) \in DmxCommands /\ EnableAt(Loss) \in DmxCommands
  BY DEF DmxCommands, DriveAssumption
<1>5. Keep => UNCHANGED pmVars /\ UNCHANGED hvVars
  BY DEF Keep, vars
<1>6. CASE SignalChanges
  <2>1. DriveInv'  BY <1>6 DEF SignalChanges
  <2> QED BY <1>5, <1>6, <2>1 DEF SignalChanges
<1>7. CASE TickLive
  <2>1. DriveInv'  BY <1>7 DEF TickLive
  <2> QED BY <1>5, <1>7, <2>1 DEF TickLive
<1>8. CASE Actuate
  <2>1. DriveInv'  BY <1>8 DEF Actuate
  <2>2. signal \in Percents  BY <1>8 DEF Actuate
  <2>3. Drive(SetDim(signal)) \/ Drive(EnableAt(signal)) \/ Keep
    BY <1>8 DEF Actuate
  <2> QED BY <1>1, <1>2, <1>5, <2>1, <2>2, <2>3 DEF Drive
<1>9. CASE TickLost
  <2>1. DriveInv'  BY <1>9 DEF TickLost, Released
  <2> QED BY <1>5, <1>9, <2>1 DEF TickLost
<1>10. CASE ApplyLoss
  <2>1. DriveInv'  BY <1>10 DEF ApplyLoss, Released
  <2>2. \/ Keep \/ Drive(Disable)
        \/ Loss # Hold /\ (Drive(SetDim(Loss)) \/ Drive(EnableAt(Loss)))
    BY <1>10 DEF ApplyLoss
  <2> QED BY <1>1, <1>3, <1>4, <1>5, <2>1, <2>2 DEF Drive
<1>11. CASE ApplyLayer
  <2>1. DriveInv'  BY <1>11 DEF ApplyLayer, Released
  <2> QED BY <1>5, <1>11, <2>1 DEF ApplyLayer
<1> QED BY <1>6, <1>7, <1>8, <1>9, <1>10, <1>11 DEF MergeTick

WholeInv == AllInv /\ DriveInv

LEMMA WholeInit ==
    ASSUME Hv9910Assumption, PowerAssumption, DriveAssumption, DriveInit
    PROVE  WholeInv
<1>1. AllInv  BY InitInv, PmInitInv DEF DriveInit, PInit, AllInv
<1>2. DriveInv  BY DEF DriveInit, DriveInv, DriveVarsOK, ActuatesALevel
<1> QED BY <1>1, <1>2 DEF WholeInv

LEMMA WholeNext ==
    ASSUME Hv9910Assumption, PowerAssumption, DriveAssumption,
           WholeInv, [DriveNext]_allVars
    PROVE  WholeInv' /\ [Next]_hvVars
<1> USE DEF WholeInv, AllInv
<1>1. CASE PowerPath \/ UNCHANGED allVars
  <2>1. [PNext]_vars /\ UNCHANGED driveVars
    BY <1>1 DEF PowerPath, allVars
  <2>2. [Next]_hvVars  BY <2>1, StepsDriveHv DEF PmInv, PmTypeOK
  <2>3. IInv'  BY <2>2, NextInv
  <2>4. PmInv'  BY <2>1, PmNextInv
  <2>5. DriveInv'
    BY <2>1 DEF driveVars, DriveInv, DriveVarsOK, ActuatesALevel
  <2> QED BY <2>2, <2>3, <2>4, <2>5
<1>2. CASE SignalChanges \/ MergeTick \/ ApplyLayer
  <2>1. DriveInv' /\ UNCHANGED pmVars /\ [Next]_hvVars  BY <1>2, TickStep
  <2>2. IInv'  BY <2>1, NextInv
  <2>3. PmInv'
    BY <2>1, StillStep DEF PmInv, PmTypeOK, pmVars, tpsVars, cfgVars, policyVars
  <2> QED BY <2>1, <2>2, <2>3
<1> QED BY <1>1, <1>2 DEF DriveNext

\* Driver, policy and DMX task keep their invariants in every execution.
THEOREM WholeInvariance == DriveSpec => []WholeInv
<1>1. DriveInit => WholeInv
  BY WholeInit, Hv9910Assumption, PowerAssumption, DriveAssumption
<1>2. WholeInv /\ [DriveNext]_allVars => WholeInv'
  BY WholeNext, Hv9910Assumption, PowerAssumption, DriveAssumption
<1> QED BY <1>1, <1>2, PTL DEF DriveSpec

\* Every variable of the luminaire's LED path keeps its type.
THEOREM DriveTypeCorrect == DriveSpec => []DriveTypeOK
<1>1. IInv => TypeOK  BY DEF IInv, QueueInv, DriverInv, DriverTypeOK, TypeOK
<1>2. WholeInv => DriveTypeOK
  BY <1>1 DEF WholeInv, AllInv, PmInv, PmTypeOK, PTypeOK, DriveInv, DriveVarsOK,
              DriveTypeOK
<1> QED BY <1>2, WholeInvariance, PTL

\* With the consoles, the policy and the admin task all posting, the LED is
\* still dark whenever the power-cut latch is set, shows exactly the level in
\* force otherwise, and emergencies still come first.
THEOREM WholeDriverSafe ==
    DriveSpec => [](RenderInSync /\ DarkWhenCut /\ EmergencyFirst /\ OneEvaluation)
<1>1. IInv => RenderInSync /\ EmergencyFirst
  BY DEF IInv, DriverInv, QueueInv
<1>2. IInv => DarkWhenCut
  BY <1>1 DEF RenderInSync, DarkWhenCut
<1>3. WholeInv => RenderInSync /\ DarkWhenCut /\ EmergencyFirst /\ OneEvaluation
  BY <1>1, <1>2 DEF WholeInv, AllInv, PmInv
<1> QED BY <1>3, WholeInvariance, PTL

\* The LED path as a whole is a LedGate: whoever posts, in whatever order, the
\* light is out while cut, comes back only by a grant and stays under the cap.
THEOREM WholeRefinement == DriveSpec => ImplementsGate
<1>1. DriveInit => Gate!Init
  BY InitImplements DEF DriveInit, PInit
<1>2. WholeInv /\ WholeInv' /\ [DriveNext]_allVars => [Gate!Next]_(Gate!gateVars)
  <2> SUFFICES ASSUME WholeInv, WholeInv', [DriveNext]_allVars
               PROVE  [Gate!Next]_(Gate!gateVars)
    OBVIOUS
  <2>1. IInv /\ IInv'  BY DEF WholeInv, AllInv
  <2>2. [Next]_hvVars
    BY WholeNext, Hv9910Assumption, PowerAssumption, DriveAssumption
  <2> QED BY <2>1, <2>2, StepImplements
<1>3. DriveSpec => [][Gate!Next]_(Gate!gateVars)
  BY <1>2, WholeInvariance, PTL DEF DriveSpec
<1> QED BY <1>1, <1>3, PTL DEF DriveSpec, ImplementsGate, Gate!Spec

-----------------------------------------------------------------------------
(* The policy, with the DMX task posting beside it. *)

\* The DMX task never posts a cap, and evaluates nothing.
LEMMA TickOrdinary ==
    ASSUME DriveAssumption, SignalChanges \/ MergeTick \/ ApplyLayer
    PROVE  UNCHANGED hvVars \/ \E cmd : ~IsCap(cmd) /\ Post("dmx", cmd)
<1>1. \A p : ~IsCap(SetDim(p)) /\ ~IsCap(EnableAt(p)) /\ ~IsCap(Disable)
  BY NotCaps DEF IsCap, SetDim
<1>2. Keep => UNCHANGED hvVars  BY DEF Keep, vars
<1>3. CASE SignalChanges \/ TickLive \/ TickLost \/ ApplyLayer
  BY <1>2, <1>3 DEF SignalChanges, TickLive, TickLost, ApplyLayer
<1>4. CASE Actuate
  <2>1. Drive(SetDim(signal)) \/ Drive(EnableAt(signal)) \/ Keep
    BY <1>4 DEF Actuate
  <2> QED BY <1>1, <1>2, <2>1 DEF Drive
<1>5. CASE ApplyLoss
  <2>1. Keep \/ Drive(Disable) \/ Drive(SetDim(Loss)) \/ Drive(EnableAt(Loss))
    BY <1>5 DEF ApplyLoss
  <2> QED BY <1>1, <1>2, <2>1 DEF Drive
<1> QED BY <1>3, <1>4, <1>5 DEF MergeTick

\* The policy's invariant holds also with the DMX task as one more caller.
THEOREM WholePolicy == DriveSpec => []PolicyInv
<1>1. DriveInit => PolicyInv
  BY PolicyInit, PowerAssumption DEF DriveInit
<1>2. WholeInv /\ WholeInv' /\ PolicyInv /\ [DriveNext]_allVars => PolicyInv'
  <2> SUFFICES ASSUME WholeInv, WholeInv', PolicyInv, [DriveNext]_allVars
               PROVE  PolicyInv'
    OBVIOUS
  <2>1. CASE PowerPath \/ UNCHANGED allVars
    <3>1. [PNext]_vars  BY <2>1 DEF PowerPath, allVars
    <3> QED BY <3>1, PolicyNext, PowerAssumption
  <2>2. CASE SignalChanges \/ MergeTick \/ ApplyLayer
    <3>1. UNCHANGED pmVars  BY <2>2, TickStep, DriveAssumption DEF WholeInv
    <3> QED BY <3>1, StillPolicy DEF PolicyInv, WholeInv, AllInv
  <2> QED BY <2>1, <2>2 DEF DriveNext
<1> QED BY <1>1, <1>2, WholeInvariance, PTL DEF DriveSpec

\* While consoles drive the LED, the policy still loses no update.
THEOREM WholePolicyCurrent == DriveSpec => []StateIsCurrent
BY WholePolicy, SettledIsCurrent, PowerAssumption, PTL

\* And no console keeps the LED above the cap the policy decided last: its
\* commands go through the same queue and cannot push a cap out of it.
THEOREM WholeCapDelivered == DriverKeepsUp => (DriveSpec => []CapDelivered)
<1> SUFFICES ASSUME DriverKeepsUp PROVE DriveSpec => []CapDelivered
  OBVIOUS
<1>1. DriveInit => CapInv  BY CapInit, PowerAssumption DEF DriveInit
<1>2. WholeInv /\ PolicyInv /\ CapInv /\ [DriveNext]_allVars => CapInv'
  <2> SUFFICES ASSUME WholeInv, PolicyInv, CapInv, [DriveNext]_allVars
               PROVE  CapInv'
    OBVIOUS
  <2> USE DEF WholeInv
  <2>1. CASE PowerPath \/ UNCHANGED allVars
    <3>1. [PNext]_vars  BY <2>1 DEF PowerPath, allVars
    <3> QED BY <3>1, CapNext, PowerAssumption
  <2>2. CASE SignalChanges \/ MergeTick \/ ApplyLayer
    <3>1. UNCHANGED <<state, scalePct, step>>
      BY <2>2, TickStep, DriveAssumption DEF pmVars, policyVars
    <3>2. UNCHANGED hvVars \/ \E c \in Callers : \E cmd : ~IsCap(cmd) /\ Post(c, cmd)
      BY <2>2, TickOrdinary, DriveAssumption
    <3> QED BY <3>1, <3>2, ElsewhereKeepsCaps DEF AllInv, IInv
  <2> QED BY <2>1, <2>2 DEF DriveNext
<1>3. WholeInv /\ CapInv => CapDelivered  BY DeliveredCap DEF WholeInv
<1> QED BY <1>1, <1>2, <1>3, WholeInvariance, WholePolicy, PTL DEF DriveSpec
=============================================================================
