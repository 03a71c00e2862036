--------------------------- MODULE DmxInputProofs ---------------------------
(***************************************************************************)
(* Proofs about the DMX input task, for every number of consoles, slots,    *)
(* levels and universes: the source table stays ordered, a late frame never *)
(* replaces a newer one, eviction waits until the table is full, and the    *)
(* merged level is that of the source that beats all the others.            *)
(***************************************************************************)
EXTENDS DmxInput, TLAPS, FiniteSetTheorems, NaturalsInduction, WellFoundedInduction

LEMMA ConstantTypes ==
    /\ MaxSources \in Nat \ {0}
    /\ PriorityOf \in [Ids -> 0..200]
    /\ ArtnetIds \cap SacnIds = {} /\ "free" \notin Ids
    /\ Levels \subseteq 0..MaxLevel
    /\ Seqs \subseteq 0..255
    /\ Universes \subseteq 1..MaxUniverse
BY DmxAssumption, Zenon DEF DmxAssumption

LEMMA LevelBound == MaxLevel \in Nat
BY DEF MaxLevel

(***************************************************************************)
(* Extrema, which the model picks with CHOOSE.                             *)
(***************************************************************************)

LEMMA SmallestOf ==
    ASSUME NEW S \in SUBSET Nat, S # {}
    PROVE  \E x \in S : \A y \in S : x <= y
<1>1. PICK x \in S : \A y \in S : <<y, x>> \notin OpToRel(<, Nat)
  BY WFMin, NatLessThanWellFounded, Zenon
<1>2. \A y \in S : ~ y < x  BY <1>1 DEF OpToRel
<1> QED BY <1>2

LEMMA LargestOf ==
    ASSUME NEW N \in Nat, NEW S \in SUBSET (0..N), S # {}
    PROVE  \E x \in S : \A y \in S : y <= x
<1> DEFINE gaps == {N - x : x \in S}
<1>1. gaps # {}  OBVIOUS
<1>0. gaps \in SUBSET Nat  OBVIOUS
<1>2. PICK g \in gaps : \A h \in gaps : g <= h  BY <1>0, <1>1, SmallestOf
<1>3. PICK x \in S : g = N - x  OBVIOUS
<1>4. \A y \in S : N - x <= N - y  BY <1>2, <1>3
<1> QED BY <1>4

\* source_slot's loop stops at a slot.
LEMMA FirstOfMember ==
    ASSUME NEW S \in SUBSET Slots, S # {}
    PROVE  FirstOf(S) \in S
<1>1. S \in SUBSET Nat  BY DEF Slots
<1>2. \E x \in S : \A y \in S : x <= y  BY <1>1, SmallestOf
<1> QED BY <1>2 DEF FirstOf

LEMMA SlotsFinite == IsFiniteSet(Slots)
<1>1. 1 \in Int /\ MaxSources \in Int  BY ConstantTypes
<1> QED BY <1>1, FS_Interval DEF Slots

\* A transitive relation without loops ends somewhere on a finite set: the
\* sets of what lies beyond an element have a smallest one, and it is empty.
LEMMA ChainEnds ==
    ASSUME NEW S, IsFiniteSet(S), S # {}, NEW R,
           \A s \in S : <<s, s>> \notin R,
           \A s, t, u \in S : <<s, t>> \in R /\ <<t, u>> \in R => <<s, u>> \in R
    PROVE  \E s \in S : \A t \in S : <<s, t>> \notin R
<1> DEFINE Beyond(s) == {t \in S : <<s, t>> \in R}
           Chains    == {Beyond(s) : s \in S}
<1>1. IsWellFoundedOn(StrictSubsetOrdering(S), SUBSET S)
  BY FS_StrictSubsetOrderingWellFounded, FS_FiniteSubsetsOfFinite
<1>2. Chains \subseteq SUBSET S /\ Chains # {}
  <2>1. Chains \subseteq SUBSET S  OBVIOUS
  <2>2. PICK s \in S : TRUE  OBVIOUS
  <2>3. Beyond(s) \in Chains  OBVIOUS
  <2> QED BY <2>1, <2>3
<1>3. PICK c \in Chains : \A d \in Chains : <<d, c>> \notin StrictSubsetOrdering(S)
  <2> HIDE DEF Chains
  <2> QED BY <1>1, <1>2, WFMin, Zenon
<1>4. PICK s \in S : c = Beyond(s)  OBVIOUS
<1>5. Beyond(s) = {}
  <2> SUFFICES ASSUME NEW t \in Beyond(s) PROVE FALSE  OBVIOUS
  <2>1. Beyond(t) \subseteq Beyond(s)  OBVIOUS
  <2>2. t \in S /\ t \notin Beyond(t)  OBVIOUS
  <2>3. <<Beyond(t), Beyond(s)>> \in StrictSubsetOrdering(S)
    BY <2>1, <2>2 DEF StrictSubsetOrdering
  <2> QED BY <1>3, <1>4, <2>2, <2>3
<1> QED BY <1>5

LEMMA LastHeardIsLast ==
    ASSUME Ordered, NEW S \in SUBSET InUse, S # {}
    PROVE  LastHeard(S) \in S /\ \A t \in S : HeardAfter(LastHeard(S), t)
<1>1. IsFiniteSet(S)  BY SlotsFinite, FS_Subset DEF InUse
<1>2. \E s \in S : \A t \in S : <<s, t>> \notin before
  <2>1. \A s \in S : <<s, s>> \notin before  BY DEF Ordered
  <2>2. \A s, t, u \in S : <<s, t>> \in before /\ <<t, u>> \in before => <<s, u>> \in before
    BY DEF Ordered
  <2> QED BY <1>1, <2>1, <2>2, ChainEnds
<1>3. \E s \in S : \A t \in S : HeardAfter(s, t)  BY <1>2 DEF Ordered, HeardAfter
<1> QED BY <1>3, Zenon DEF LastHeard

LEMMA OldestInUse ==
    ASSUME Ordered, InUse # {}
    PROVE  Oldest \in InUse
<1> DEFINE after == {p \in InUse \X InUse : <<p[2], p[1]>> \in before}
<1>1. IsFiniteSet(InUse)  BY SlotsFinite, FS_Subset DEF InUse
<1>2. \A s, t \in InUse : <<s, t>> \in after <=> <<t, s>> \in before  OBVIOUS
<1>3. \E s \in InUse : \A t \in InUse : <<s, t>> \notin after
  <2> HIDE DEF after
  <2>1. \A s \in InUse : <<s, s>> \notin after  BY <1>2 DEF Ordered
  <2>2. \A s, t, u \in InUse : <<s, t>> \in after /\ <<t, u>> \in after => <<s, u>> \in after
    BY <1>2 DEF Ordered
  <2> QED BY <1>1, <2>1, <2>2, ChainEnds
<1>4. \E s \in InUse : \A t \in InUse : HeardAfter(t, s)
  BY <1>2, <1>3 DEF Ordered, HeardAfter
<1> QED BY <1>4, Zenon DEF Oldest

LEMMA SourceSlotIsSlot ==
    ASSUME Ordered, NEW id
    PROVE  /\ SourceSlot(id) \in Slots
           /\ \/ SourceSlot(id) \notin InUse \/ table[SourceSlot(id)].id = id
              \/ InUse = Slots
<1> DEFINE hits == {s \in Slots : s \notin InUse \/ table[s].id = id}
<1>1. CASE hits # {}
  <2>1. FirstOf(hits) \in hits  BY <1>1, FirstOfMember
  <2> QED BY <1>1, <2>1 DEF SourceSlot
<1>2. CASE hits = {}
  <2>1. InUse = Slots  BY <1>2 DEF InUse
  <2>2. InUse # {}  BY <2>1, ConstantTypes DEF Slots
  <2>3. Oldest \in InUse  BY <2>2, OldestInUse
  <2> QED BY <1>2, <2>1, <2>3 DEF SourceSlot
<1> QED BY <1>1, <1>2

(***************************************************************************)
(* The table: types and order survive every operation on it.               *)
(***************************************************************************)

LEMMA SourceIsNotFree ==
    ASSUME NEW x \in Source
    PROVE  x # Free
BY DEF Source, Free

LEMMA SubmitTable ==
    ASSUME TableOK, NEW id \in Ids, NEW level \in Levels, NEW seq \in 0..255,
           NEW terminated \in BOOLEAN, Submit(id, level, seq, terminated)
    PROVE  TableOK'
<1> DEFINE s == SourceSlot(id)
           frame == [id |-> id, level |-> level, seq |-> seq]
<1>1. CASE OutOfOrder(id, seq, table[s])
  BY <1>1 DEF Submit, sourceVars, TableOK, Ordered, InUse, HeardAfter
<1>2. CASE ~OutOfOrder(id, seq, table[s])
  <2>1. s \in Slots  BY SourceSlotIsSlot DEF TableOK
  <2>2. frame \in Source /\ frame # Free  BY DEF Source, Free
  <2>3. /\ table' = [table EXCEPT ![s] = IF terminated THEN Free ELSE frame]
        /\ before' = Without({s}) \cup (IF terminated THEN {} ELSE (InUse \ {s}) \X {s})
        /\ stale' = stale \ {s}
    BY <1>2 DEF Submit
  <2>4. table' \in [Slots -> Source \cup {Free}]  BY <2>1, <2>2, <2>3 DEF TableOK
  <2>5. InUse' = IF terminated THEN InUse \ {s} ELSE InUse \cup {s}
    BY <2>1, <2>2, <2>3 DEF InUse, TableOK
  <2>6. \A t, u : <<t, u>> \in before' <=>
           \/ <<t, u>> \in before /\ t # s /\ u # s
           \/ ~terminated /\ t \in InUse /\ t # s /\ u = s
    BY <2>3 DEF Without
  <2>7. Ordered'
    <3>1. before' \subseteq InUse' \X InUse'
      BY <2>3, <2>5 DEF Without, TableOK, Ordered
    <3>2. \A t, u \in InUse' : t # u => (<<t, u>> \in before' <=> <<u, t>> \notin before')
      BY <2>5, <2>6 DEF TableOK, Ordered
    <3>3. \A t \in InUse' : <<t, t>> \notin before'
      BY <2>5, <2>6 DEF TableOK, Ordered
    <3>4. \A t, u, v \in InUse' :
            <<t, u>> \in before' /\ <<u, v>> \in before' => <<t, v>> \in before'
      BY <2>5, <2>6 DEF TableOK, Ordered
    <3> QED BY <3>1, <3>2, <3>3, <3>4 DEF Ordered
  <2>8. stale' \subseteq InUse'  BY <2>3, <2>5 DEF TableOK
  <2>9. \A t \in stale', u \in InUse' : HeardAfter(t, u)' => u \in stale'
    BY <2>3, <2>5, <2>6 DEF TableOK, HeardAfter
  <2> QED BY <2>4, <2>7, <2>8, <2>9 DEF TableOK
<1> QED BY <1>1, <1>2

LEMMA CancelTable ==
    ASSUME TableOK, CancelMerge
    PROVE  TableOK'
<1> DEFINE keep == IF InUse = {} THEN {} ELSE {LastHeard(InUse)}
<1>1. keep \subseteq InUse /\ \A s, t \in keep : s = t
  BY LastHeardIsLast DEF TableOK
<1>2. /\ table' = [s \in Slots |-> IF s \in keep THEN table[s] ELSE Free]
      /\ before' = {}
      /\ stale' = stale \cap keep
  BY DEF CancelMerge
<1> HIDE DEF keep
<1>3. table' \in [Slots -> Source \cup {Free}]  BY <1>2 DEF TableOK
<1>4. InUse' = keep  BY <1>1, <1>2 DEF InUse
<1>5. Ordered'  BY <1>1, <1>2, <1>4 DEF Ordered
<1> QED BY <1>1, <1>2, <1>3, <1>4, <1>5 DEF TableOK, HeardAfter

LEMMA DropTable ==
    ASSUME DropAllSources
    PROVE  TableOK'
<1>1. InUse' = {}  BY DEF DropAllSources, InUse
<1> QED BY <1>1 DEF DropAllSources, TableOK, Ordered

LEMMA TickTable ==
    ASSUME TableOK, Tick
    PROVE  TableOK'
<1>1. /\ table' = [s \in Slots |-> IF s \in stale THEN Free ELSE table[s]]
      /\ before' = Without(stale)
      /\ stale' = {}
  BY DEF Tick
<1>2. table' \in [Slots -> Source \cup {Free}]  BY <1>1 DEF TableOK
<1>3. InUse' = InUse \ stale  BY <1>1 DEF InUse
<1>4. \A t, u : <<t, u>> \in before' <=> <<t, u>> \in before /\ t \notin stale /\ u \notin stale
  BY <1>1 DEF Without
<1>5. before' \subseteq InUse' \X InUse'  BY <1>1, <1>3 DEF Without, TableOK, Ordered
<1>6. Ordered'  BY <1>3, <1>4, <1>5 DEF TableOK, Ordered
<1> QED BY <1>1, <1>2, <1>6 DEF TableOK

LEMMA PassTimeTable ==
    ASSUME TableOK, PassTime
    PROVE  TableOK'
<1>1. PICK s \in InUse \ stale : stale' = {t \in InUse : HeardAfter(s, t)}
  BY DEF PassTime
<1>2. UNCHANGED <<table, before>>  BY DEF PassTime
<1>3. InUse' = InUse /\ (Ordered <=> Ordered')  BY <1>2 DEF InUse, Ordered
<1>4. \A t \in stale', u \in InUse : HeardAfter(t, u) => u \in stale'
  BY <1>1 DEF TableOK, Ordered, HeardAfter
<1> QED BY <1>1, <1>2, <1>3, <1>4 DEF TableOK, HeardAfter

(***************************************************************************)
(* The loop.                                                               *)
(***************************************************************************)

\* What a step of the task, of time or of the admin task does to the table.
LEMMA TableSteps ==
    ASSUME [DmxNext]_dmxVars
    PROVE  \/ UNCHANGED sourceVars \/ PassTime
           \/ at \notin {"artnet", "sacn"} /\ (DropAllSources \/ Tick)
           \/ at' = "address" /\ CancelMerge
           \/ \E id \in Ids, l \in Levels, q \in 0..255, end \in BOOLEAN :
                  (id \in ArtnetIds => ~end) /\ Submit(id, l, q, end)
<1>1. CASE ReceiveArtnet
  <2> SUFFICES ASSUME ~UNCHANGED sourceVars
               PROVE  \E id \in Ids, l \in Levels, q \in 0..255, end \in BOOLEAN :
                         (id \in ArtnetIds => ~end) /\ Submit(id, l, q, end)
    OBVIOUS
  <2>1. PICK id \in ArtnetIds, l \in Levels : Submit(id, l, 0, FALSE)
    BY <1>1 DEF ReceiveArtnet
  <2>2. id \in Ids /\ 0 \in 0..255  BY DEF Ids
  <2> QED BY <2>1, <2>2
<1>2. CASE ReceiveSacn
  <2> SUFFICES ASSUME ~UNCHANGED sourceVars
               PROVE  \E id \in Ids, l \in Levels, q \in 0..255, end \in BOOLEAN :
                         (id \in ArtnetIds => ~end) /\ Submit(id, l, q, end)
    OBVIOUS
  <2>1. PICK id \in SacnIds, l \in Levels, q \in Seqs, end \in BOOLEAN : Submit(id, l, q, end)
    BY <1>2 DEF ReceiveSacn
  <2>2. id \in Ids /\ id \notin ArtnetIds /\ q \in 0..255  BY ConstantTypes DEF Ids
  <2> QED BY <2>1, <2>2
<1>3. CASE ApplyConfig \/ ReceiveAddress \/ StoreAddress \/ TickDue \/ TickNotDue
  BY <1>3 DEF ApplyConfig, ReceiveAddress, StoreAddress, TickDue, TickNotDue
<1>4. CASE SetConfig \/ UNCHANGED dmxVars
  BY <1>4 DEF SetConfig, dmxVars
<1> QED BY <1>1, <1>2, <1>3, <1>4 DEF DmxNext, Loop

LEMMA TableInductive ==
    ASSUME TableOK, [DmxNext]_dmxVars
    PROVE  TableOK'
<1>1. CASE UNCHANGED sourceVars
  BY <1>1 DEF sourceVars, TableOK, Ordered, InUse, HeardAfter
<1>2. CASE ~UNCHANGED sourceVars
  BY <1>2, TableSteps, PassTimeTable, DropTable, TickTable, CancelTable, SubmitTable
<1> QED BY <1>1, <1>2

LEMMA DmxInitType == DmxInit => DTypeOK
<1> SUFFICES ASSUME DmxInit PROVE DTypeOK  OBVIOUS
<1>1. InUse = {}  BY DEF DmxInit, InUse
<1>2. TableOK  BY <1>1 DEF DmxInit, TableOK, Ordered
<1>3. joined \in Universes \cup {0}  BY DEF DmxInit, Config
<1> QED BY <1>2, <1>3 DEF DmxInit, DTypeOK

LEMMA JoinType ==
    ASSUME DTypeOK, SyncMembership
    PROVE  joined' \in Universes \cup {0}
<1>1. Wanted \in Universes \cup {0}  BY DEF DTypeOK, Config, Wanted
<1> QED BY <1>1 DEF SyncMembership

LEMMA DmxTypeStep ==
    ASSUME DTypeOK, [DmxNext]_dmxVars
    PROVE  DTypeOK'
<1>1. TableOK'  BY TableInductive DEF DTypeOK
<1>2. CASE ApplyConfig
  <2>1. joined' \in Universes \cup {0}  BY <1>2, JoinType DEF ApplyConfig, DTypeOK
  <2> QED BY <1>1, <1>2, <2>1 DEF ApplyConfig, DTypeOK
<1>3. CASE ReceiveArtnet
  BY <1>1, <1>3 DEF ReceiveArtnet, DTypeOK
<1>4. CASE ReceiveAddress
  BY <1>1, <1>4 DEF ReceiveAddress, DTypeOK
<1>5. CASE StoreAddress
  BY <1>1, <1>5 DEF StoreAddress, DTypeOK
<1>6. CASE ReceiveSacn
  BY <1>1, <1>6 DEF ReceiveSacn, DTypeOK
<1>7. CASE TickDue
  <2>1. active' \in {"NONE", "ARTNET", "SACN", "BOTH"}
    BY <1>7 DEF TickDue, Tick, ActiveSource
  <2> QED BY <1>1, <1>7, <2>1 DEF TickDue, DTypeOK
<1>8. CASE TickNotDue
  BY <1>1, <1>8 DEF TickNotDue, DTypeOK
<1>9. CASE PassTime
  BY <1>1, <1>9 DEF PassTime, DTypeOK
<1>10. CASE SetConfig
  BY <1>1, <1>10 DEF SetConfig, DTypeOK
<1>11. CASE UNCHANGED dmxVars
  BY <1>1, <1>11 DEF dmxVars, DTypeOK
<1> QED BY <1>2, <1>3, <1>4, <1>5, <1>6, <1>7, <1>8, <1>9, <1>10, <1>11
        DEF DmxNext, Loop

\* Whatever arrives, expires, is cancelled or reconfigured, the source table's
\* time stamps order its slots, and the ones beyond the timeout are the oldest.
THEOREM DmxTypeCorrect == DmxSpec => []DTypeOK
BY DmxInitType, DmxTypeStep, PTL DEF DmxSpec

-----------------------------------------------------------------------------
(* The sequence window. *)

\* A frame that is let through is 1 to 236 ahead, modulo 256.
LEMMA WindowIsAhead ==
    ASSUME NEW seq \in 0..255, NEW last \in 0..255, ~Behind(seq, last)
    PROVE  \E ahead \in 1..236 : seq = (last + ahead) % 256
<1> DEFINE d == (last - seq) % 256
<1>1. d \in 20..255  BY DEF Behind
<1>2. 256 - d \in 1..236  BY <1>1
<1>3. seq = (last + (256 - d)) % 256  OBVIOUS
<1> QED BY <1>2, <1>3

LEMMA KeepsNewerStep ==
    ASSUME DTypeOK, [DmxNext]_dmxVars
    PROVE  KeepsNewer
<1> SUFFICES ASSUME NEW s \in InUse,
                    table'[s].id = table[s].id, table'[s] # table[s],
                    table[s].id \in SacnIds, table[s].seq # 0, table'[s].seq # 0
             PROVE  \E ahead \in 1..236 : table'[s].seq = (table[s].seq + ahead) % 256
  BY DEF KeepsNewer
<1>1. s \in Slots /\ table[s] \in Source  BY DEF InUse, DTypeOK, TableOK
<1>2. table'[s] # Free  BY ConstantTypes DEF Free, Ids
<1>3. PICK id \in Ids, l \in Levels, q \in 0..255, end \in BOOLEAN : Submit(id, l, q, end)
  BY <1>1, <1>2, TableSteps
     DEF sourceVars, PassTime, DropAllSources, Tick, CancelMerge
<1>4. /\ ~OutOfOrder(id, q, table[SourceSlot(id)])
      /\ table' = [table EXCEPT ![SourceSlot(id)] =
                      IF end THEN Free ELSE [id |-> id, level |-> l, seq |-> q]]
  BY <1>3 DEF Submit, sourceVars
<1>5. s = SourceSlot(id) /\ table'[s] = [id |-> id, level |-> l, seq |-> q]
  BY <1>1, <1>2, <1>4 DEF DTypeOK, TableOK
<1>6. id \in SacnIds /\ q # 0 /\ table[s] # Free  BY <1>5 DEF InUse
<1>7. ~Behind(q, table[s].seq)  BY <1>4, <1>5, <1>6 DEF OutOfOrder
<1>8. table[s].seq \in 0..255  BY <1>1 DEF Source
<1> DEFINE last == table[s].seq
           next == table'[s].seq
<1>9. next = q /\ last \in 0..255 /\ ~Behind(q, last)  BY <1>5, <1>7, <1>8
<1> HIDE DEF last, next
<1>10. \E ahead \in 1..236 : q = (last + ahead) % 256  BY <1>9, WindowIsAhead
<1>11. \E ahead \in 1..236 : next = (last + ahead) % 256
  <2>1. next = q  BY <1>9
  <2> QED BY <1>10, <2>1, Zenon
<1> QED BY <1>11, Zenon DEF last, next

\* A late or repeated sACN frame never undoes a newer one, for any sequence
\* numbers the consoles may use (dmx_merge_submit's signed 8-bit window).
THEOREM LateFramesDropped == DmxSpec => NoReorder
BY DmxTypeCorrect, KeepsNewerStep, PTL DEF NoReorder, DmxSpec

-----------------------------------------------------------------------------
(* Eviction. *)

LEMMA SubmitKeepsOthers ==
    ASSUME TableOK, NEW id \in Ids, NEW l \in Levels, NEW q \in 0..255,
           NEW end \in BOOLEAN, Submit(id, l, q, end)
    PROVE  \/ Tracked(table) \subseteq Tracked(table')
           \/ InUse = Slots
           \/ InUse' \subseteq InUse /\ InUse' # InUse
<1> DEFINE s == SourceSlot(id)
           frame == [id |-> id, level |-> l, seq |-> q]
<1> SUFFICES ASSUME InUse # Slots, ~UNCHANGED table
             PROVE  \/ Tracked(table) \subseteq Tracked(table')
                    \/ InUse' \subseteq InUse /\ InUse' # InUse
  OBVIOUS
<1>1. s \in Slots /\ (s \notin InUse \/ table[s].id = id)
  BY SourceSlotIsSlot DEF TableOK
<1>2. table' = [table EXCEPT ![s] = IF end THEN Free ELSE frame]
  BY DEF Submit, sourceVars
<1>3. CASE end
  <2>1. s \in InUse  BY <1>1, <1>2, <1>3 DEF TableOK, InUse
  <2>2. InUse' = InUse \ {s}  BY <1>1, <1>2, <1>3 DEF TableOK, InUse
  <2> QED BY <2>1, <2>2
<1>4. CASE ~end
  <2>1. \A t \in Slots : table[t] # Free => table'[t] # Free /\ table'[t].id = table[t].id
    BY <1>1, <1>2, <1>4 DEF TableOK, InUse, Free
  <2> QED BY <2>1 DEF Tracked
<1> QED BY <1>3, <1>4

LEMMA KeepsOthersStep ==
    ASSUME DTypeOK, [DmxNext]_dmxVars
    PROVE  KeepsOthers
<1> SUFFICES ASSUME at = "artnet" \/ at = "sacn", at' # "address"
             PROVE  \/ Tracked(table) \subseteq Tracked(table')
                    \/ InUse = Slots
                    \/ InUse' \subseteq InUse /\ InUse' # InUse
  BY DEF KeepsOthers
<1>1. CASE UNCHANGED table
  BY <1>1
<1>2. CASE ~UNCHANGED table
  <2>1. PICK id \in Ids, l \in Levels, q \in 0..255, end \in BOOLEAN : Submit(id, l, q, end)
    BY <1>2, TableSteps DEF PassTime, sourceVars
  <2> QED BY <2>1, SubmitKeepsOthers DEF DTypeOK
<1> QED BY <1>1, <1>2

\* No console's frame pushes another console out while source_slot still has a
\* free slot to give.
THEOREM EvictionWaits == DmxSpec => EvictsOnlyWhenFull
BY DmxTypeCorrect, KeepsOthersStep, PTL DEF EvictsOnlyWhenFull, DmxSpec

-----------------------------------------------------------------------------
(* The merge. *)

\* No console that is being heard sits in two slots.
Undoubled ==
    \A s, t \in InUse \ stale : table[s].id = table[t].id => s = t

LEMMA WinnersExist ==
    ASSUME TableOK, NEW live \in SUBSET InUse, live # {}
    PROVE  Winners(live) # {}
<1> DEFINE priorities == {PriorityOf[table[s].id] : s \in live}
<1>1. \A s \in live : PriorityOf[table[s].id] \in 0..200
  BY ConstantTypes DEF TableOK, InUse, Source
<1>2. priorities \in SUBSET (0..200) /\ priorities # {}  BY <1>1
<1>3. PICK p \in priorities : \A q \in priorities : q <= p
  <2> HIDE DEF priorities
  <2> QED BY <1>2, LargestOf
<1>4. PICK s \in live : p = PriorityOf[table[s].id]  OBVIOUS
<1>5. s \in Winners(live)  BY <1>1, <1>3, <1>4 DEF Winners
<1> QED BY <1>5

\* The newest slot of a console is one of its slots, and the last one heard.
LEMMA NewestIsLast ==
    ASSUME TableOK, NEW s \in InUse
    PROVE  LET n == NewestOf(table[s].id) IN
           n \in InUse /\ table[n].id = table[s].id /\ HeardAfter(n, s)
<1> DEFINE own == {t \in InUse : table[t].id = table[s].id}
<1>1. own \in SUBSET InUse /\ s \in own  OBVIOUS
<1>2. LastHeard(own) \in own /\ HeardAfter(LastHeard(own), s)
  <2> HIDE DEF own
  <2> QED BY <1>1, LastHeardIsLast DEF TableOK
<1> QED BY <1>2 DEF NewestOf

LEMMA CurrentIsLive ==
    ASSUME TableOK
    PROVE  Current \subseteq InUse \ stale
<1> SUFFICES ASSUME NEW id \in Tracked(table) PROVE NewestOf(id) \in InUse
  BY DEF Current
<1>1. PICK s \in InUse : id = table[s].id  BY DEF Tracked, InUse
<1> QED BY <1>1, NewestIsLast

\* A live slot that no other live slot of the same console was heard after
\* is the console's current one.
LEMMA NewestIsCurrent ==
    ASSUME TableOK, NEW s \in InUse \ stale,
           \A t \in InUse \ stale : table[t].id = table[s].id => HeardAfter(s, t)
    PROVE  s \in Current
<1> DEFINE n == NewestOf(table[s].id)
<1>1. n \in InUse /\ table[n].id = table[s].id /\ HeardAfter(n, s)  BY NewestIsLast
<1>2. n \notin stale  BY <1>1 DEF TableOK
<1>3. HeardAfter(s, n)  BY <1>1, <1>2
<1>4. s = n  BY <1>1, <1>3 DEF TableOK, Ordered, HeardAfter
<1>5. table[s].id \in Tracked(table)  BY DEF Tracked, InUse
<1> QED BY <1>4, <1>5 DEF Current

LEMMA LtpMerges ==
    ASSUME DTypeOK, cfg.merge = "LTP"
    PROVE  MergeOfSources
<1> SUFFICES ASSUME Current # {}
             PROVE  \E s \in Current :
                      /\ table[s].level = Merged(InUse \ stale, cfg.merge)
                      /\ \A t \in Current : Beats(s, t)
  BY DEF MergeOfSources
<1> DEFINE live == InUse \ stale
           s    == LastHeard(Winners(live))
<1>1. TableOK /\ Current \subseteq live  BY CurrentIsLive DEF DTypeOK
<1>2. Winners(live) # {} /\ Winners(live) \subseteq live  BY <1>1, WinnersExist DEF Winners
<1>3. s \in Winners(live) /\ \A t \in Winners(live) : HeardAfter(s, t)
  BY <1>1, <1>2, LastHeardIsLast DEF TableOK
<1>4. \A t \in live : PriorityOf[table[s].id] \in Nat /\ PriorityOf[table[t].id] \in Nat
                     /\ PriorityOf[table[s].id] >= PriorityOf[table[t].id]
  BY <1>1, <1>2, <1>3, ConstantTypes DEF Winners, TableOK, InUse, Source
<1>5. \A t \in live : PriorityOf[table[t].id] = PriorityOf[table[s].id] => t \in Winners(live)
  BY <1>3 DEF Winners
<1>6. s \in Current  BY <1>1, <1>2, <1>3, <1>5, NewestIsCurrent
<1>7. table[s].level = Merged(live, cfg.merge)  BY DEF Merged
<1>8. \A t \in Current : Beats(s, t)
  <2> SUFFICES ASSUME NEW t \in Current PROVE Beats(s, t)  OBVIOUS
  <2> HIDE DEF s
  <2>1. t \in live  BY <1>1
  <2>2. CASE PriorityOf[table[t].id] = PriorityOf[table[s].id]
    <3>1. HeardAfter(s, t)  BY <1>3, <1>5, <2>1, <2>2
    <3> QED BY <2>2, <3>1 DEF Beats
  <2>3. CASE PriorityOf[table[t].id] # PriorityOf[table[s].id]
    <3>1. PriorityOf[table[s].id] > PriorityOf[table[t].id]  BY <1>4, <2>1, <2>3
    <3> QED BY <3>1 DEF Beats
  <2> QED BY <2>2, <2>3
<1> QED BY <1>6, <1>7, <1>8

LEMMA HtpMerges ==
    ASSUME DTypeOK, cfg.merge # "LTP", Undoubled
    PROVE  MergeOfSources
<1> SUFFICES ASSUME Current # {}
             PROVE  \E s \in Current :
                      /\ table[s].level = Merged(InUse \ stale, cfg.merge)
                      /\ \A t \in Current : Beats(s, t)
  BY DEF MergeOfSources
<1> DEFINE live   == InUse \ stale
           levels == {table[s].level : s \in Winners(live)}
<1>1. TableOK /\ Current \subseteq live  BY CurrentIsLive DEF DTypeOK
<1>2. Winners(live) # {} /\ Winners(live) \subseteq live  BY <1>1, WinnersExist DEF Winners
<1>3. \A t \in live : table[t].level \in 0..MaxLevel
  BY <1>1, ConstantTypes DEF TableOK, InUse, Source
<1>4. levels \in SUBSET (0..MaxLevel) /\ levels # {}  BY <1>2, <1>3
<1>5. MaxOf(levels) \in levels /\ \A m \in levels : m <= MaxOf(levels)
  <2> HIDE DEF levels
  <2>1. \E n \in levels : \A m \in levels : m <= n  BY <1>4, LevelBound, LargestOf
  <2> QED BY <2>1, Zenon DEF MaxOf
<1>6. PICK s \in Winners(live) : table[s].level = MaxOf(levels)  BY <1>5
<1>7. s \in Current
  <2>1. \A t \in live : table[t].id = table[s].id => HeardAfter(s, t)
    BY <1>2 DEF Undoubled, HeardAfter
  <2> QED BY <1>1, <1>2, <2>1, NewestIsCurrent
<1>8. \A t \in live : PriorityOf[table[s].id] \in Nat /\ PriorityOf[table[t].id] \in Nat
                     /\ PriorityOf[table[s].id] >= PriorityOf[table[t].id]
  BY <1>1, <1>2, ConstantTypes DEF Winners, TableOK, InUse, Source
<1>9. \A t \in live : PriorityOf[table[t].id] = PriorityOf[table[s].id]
                        => table[t].level <= table[s].level
  <2>1. \A t \in live : PriorityOf[table[t].id] = PriorityOf[table[s].id] => t \in Winners(live)
    BY DEF Winners
  <2> QED BY <1>5, <1>6, <2>1
<1>10. table[s].level = Merged(live, cfg.merge)  BY <1>6 DEF Merged
<1>11. \A t \in Current : Beats(s, t)
  <2> SUFFICES ASSUME NEW t \in Current PROVE Beats(s, t)  OBVIOUS
  <2> HIDE DEF levels
  <2>1. s \in live /\ t \in live  BY <1>1, <1>2
  <2>2. table[t].level \in Nat /\ table[s].level \in Nat  BY <1>3, <2>1, LevelBound
  <2>3. CASE PriorityOf[table[t].id] = PriorityOf[table[s].id]
    <3>1. table[s].level >= table[t].level  BY <1>9, <2>1, <2>2, <2>3
    <3> QED BY <2>3, <3>1 DEF Beats
  <2>4. CASE PriorityOf[table[t].id] # PriorityOf[table[s].id]
    <3>1. PriorityOf[table[s].id] > PriorityOf[table[t].id]  BY <1>8, <2>1, <2>4
    <3> QED BY <3>1 DEF Beats
  <2> QED BY <2>3, <2>4
<1> QED BY <1>7, <1>10, <1>11

\* Under LTP the merged level is always what the strongest of the consoles being
\* heard sent last; under HTP it is, as long as none of them sits in two slots
\* (which source_slot can bring about).
THEOREM MergeIsRight == DmxSpec => [](cfg.merge = "LTP" \/ Undoubled => MergeOfSources)
<1>1. DTypeOK => (cfg.merge = "LTP" \/ Undoubled => MergeOfSources)
  BY LtpMerges, HtpMerges
<1> QED BY <1>1, DmxTypeCorrect, PTL
=============================================================================
