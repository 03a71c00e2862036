------------------------------ MODULE DmxInput ------------------------------
(***************************************************************************)
(* The DMX input task (firmware/components/dmx_input): its loop over        *)
(* configuration, Art-Net socket, sACN socket and 22 ms tick; the table of  *)
(* sources it tracks, their sequence window, timeout and merge; the sACN    *)
(* multicast membership; and the configuration that the admin task and      *)
(* ArtAddress both write.                                                   *)
(*                                                                         *)
(* What the tick does with the merged level is DmxDrive's subject.          *)
(* Times are kept as an order (which slot was heard before which) and as    *)
(* the set of slots beyond the timeout.    A frame that the parsers drop    *)
(* (malformed, another universe, a disabled protocol, too short for the     *)
(* patched channels) changes nothing and is left out.                       *)
(***************************************************************************)
EXTENDS Integers, FiniteSets

CONSTANTS
    MaxSources,   \* MAX_SOURCES
    ArtnetIds,    \* Art-Net sources, identified by address
    SacnIds,      \* sACN sources, identified by CID
    PriorityOf,   \* the priority each source sends with
    Levels,       \* levels the consoles send
    Seqs,         \* sACN sequence numbers they use
    Universes,    \* sACN universes a configuration may name
    Merges        \* merge modes a configuration may name

Ids   == ArtnetIds \cup SacnIds
Slots == 1..MaxSources

MaxLevel    == 65535    \* two slots of eight bits
MaxUniverse == 63999    \* what sACN defines

\* Priorities, levels, sequence numbers and universes are what the parsers
\* accept; no source is called like the mark of a free slot.
ASSUME DmxAssumption ==
    /\ MaxSources \in Nat \ {0}
    /\ ArtnetIds \cap SacnIds = {} /\ "free" \notin Ids
    /\ PriorityOf \in [Ids -> 0..200]
    /\ \A a \in ArtnetIds : PriorityOf[a] = 100
    /\ Levels \subseteq 0..MaxLevel
    /\ Seqs \subseteq 0..255
    /\ Universes \subseteq 1..MaxUniverse
    /\ Merges \subseteq {"HTP", "LTP"}

VARIABLES
    cfg,      \* s_cfg
    changed,  \* s_cfg_changed
    at,       \* where dmx_input_task is in its loop
    edit,     \* the copy of s_cfg that handle_address is working on
    table,    \* s_sources
    before,   \* the pairs of slots in use of which the first was heard earlier
    stale,    \* those not heard for longer than loss_timeout_ms
    active,   \* s_status.active_source
    joined    \* s_joined_universe, 0 for none

sourceVars == <<table, before, stale>>
dmxVars    == <<cfg, changed, at, edit, sourceVars, active, joined>>

Config == [enabled : BOOLEAN, merge : Merges, universe : Universes]

NoEdit == [universe |-> 0]
Free   == [id |-> "free"]
Source == [id : Ids, level : Levels, seq : 0..255]

InUse == {s \in Slots : table[s] # Free}

\* last_seen_us and arrived_seq_us, always set together.
HeardAfter(s, t) == s = t \/ <<t, s>> \in before
LastHeard(S)     == CHOOSE s \in S : \A t \in S : HeardAfter(s, t)
Oldest           == CHOOSE s \in InUse : \A t \in InUse : HeardAfter(t, s)

-----------------------------------------------------------------------------
(* dmx_merge_submit. *)

FirstOf(S) == CHOOSE s \in S : \A t \in S : s <= t

\* Mutant: the oldest slot is reused before a free one.
SourceSlotOldest(id) ==
    LET own == {s \in InUse : table[s].id = id}
    IN  IF own # {} THEN FirstOf(own) ELSE IF InUse # {} THEN Oldest ELSE 1

\* source_slot: the first slot that is free or the source's own, or else the
\* one heard longest ago.
SourceSlot(id) ==
    LET hits == {s \in Slots : s \notin InUse \/ table[s].id = id}
    IN  IF hits # {} THEN FirstOf(hits) ELSE Oldest

\* Mutant: the difference is not taken modulo 256.
BehindUnwrapped(seq, last) == last - seq >= 0 /\ last - seq < 20

\* int8_t diff = seq - last; diff <= 0 && diff > -20
Behind(seq, last) == (last - seq) % 256 < 20

\* The sequence is compared with whatever the slot holds, before the slot is
\* known to be the same source's.
OutOfOrder(id, seq, old) ==
    id \in SacnIds /\ seq # 0 /\ old # Free /\ old.seq # 0 /\ Behind(seq, old.seq)

Without(S) == {p \in before : p[1] \notin S /\ p[2] \notin S}

\* Mutant: a source that is heard again keeps its old place as well.
SubmitTwice(id, level, seq, terminated) ==
    LET s == SourceSlot(id) IN
    IF OutOfOrder(id, seq, table[s]) THEN UNCHANGED sourceVars
    ELSE /\ table' = [table EXCEPT ![s] =
                        IF terminated THEN Free
                        ELSE [id |-> id, level |-> level, seq |-> seq]]
         /\ before' = IF terminated THEN Without({s}) ELSE before \cup ((InUse \ {s}) \X {s})
         /\ stale' = stale \ {s}

Submit(id, level, seq, terminated) ==
    LET s == SourceSlot(id) IN
    IF OutOfOrder(id, seq, table[s]) THEN UNCHANGED sourceVars
    ELSE /\ table' = [table EXCEPT ![s] =
                        IF terminated THEN Free
                        ELSE [id |-> id, level |-> level, seq |-> seq]]
         /\ before' = Without({s}) \cup (IF terminated THEN {} ELSE (InUse \ {s}) \X {s})
         /\ stale' = stale \ {s}

\* dmx_merge_cancel: only the source heard last stays.
CancelMerge ==
    LET keep == IF InUse = {} THEN {} ELSE {LastHeard(InUse)} IN
    /\ table' = [s \in Slots |-> IF s \in keep THEN table[s] ELSE Free]
    /\ before' = {}
    /\ stale' = stale \cap keep

DropAllSources ==
    /\ table' = [s \in Slots |-> Free]
    /\ before' = {}
    /\ stale' = {}

-----------------------------------------------------------------------------
(* merge_tick. *)

MaxOf(S) == CHOOSE n \in S : \A m \in S : m <= n

\* Mutant: the lowest priority wins.
WinnersLowest(live) ==
    {s \in live : \A t \in live : PriorityOf[table[s].id] <= PriorityOf[table[t].id]}

\* The live slots at the highest live priority.
Winners(live) ==
    {s \in live : \A t \in live : PriorityOf[table[s].id] >= PriorityOf[table[t].id]}

\* out_hi/out_lo over the live slots.
Merged(live, mode) ==
    IF mode = "LTP" THEN table[LastHeard(Winners(live))].level
    ELSE MaxOf({table[s].level : s \in Winners(live)})

ActiveSource(ids) ==
    IF ids = {} THEN "NONE"
    ELSE IF ids \subseteq ArtnetIds THEN "ARTNET"
    ELSE IF ids \subseteq SacnIds THEN "SACN" ELSE "BOTH"

\* Mutant: sources beyond the timeout are left in the table.
TickKeepsStale ==
    /\ active' = ActiveSource({table[s].id : s \in InUse})
    /\ UNCHANGED sourceVars

Tick ==
    /\ table' = [s \in Slots |-> IF s \in stale THEN Free ELSE table[s]]
    /\ before' = Without(stale)
    /\ stale' = {}
    /\ active' = ActiveSource({table[s].id : s \in InUse \ stale})

-----------------------------------------------------------------------------
(* sync_membership.  Joining fails while the interface has no address. *)

Wanted == IF cfg.enabled THEN cfg.universe ELSE 0

SyncMembership ==
    joined' \in IF Wanted \in {0, joined} THEN {Wanted} ELSE {Wanted, 0}

-----------------------------------------------------------------------------
(* dmx_input_task. *)

\* Mutant: the membership is never retried.
ApplyConfigOnce ==
    /\ at = "config"
    /\ at' = "artnet"
    /\ IF changed
       THEN /\ IF cfg.enabled THEN UNCHANGED sourceVars ELSE DropAllSources
            /\ SyncMembership
       ELSE UNCHANGED <<sourceVars, joined>>
    /\ changed' = FALSE
    /\ UNCHANGED <<cfg, edit, active>>

\* A changed configuration is applied and the membership follows it; every
\* two seconds the membership is tried again.
ApplyConfig ==
    /\ at = "config"
    /\ at' = "artnet"
    /\ changed' = FALSE
    /\ IF changed /\ ~cfg.enabled THEN DropAllSources ELSE UNCHANGED sourceVars
    /\ \/ SyncMembership
       \/ ~changed /\ UNCHANGED joined
    /\ UNCHANGED <<cfg, edit, active>>

\* handle_dmx
ReceiveArtnet ==
    /\ at = "artnet"
    /\ at' = "sacn"
    /\ \/ UNCHANGED sourceVars
       \/ /\ cfg.enabled
          /\ \E id \in ArtnetIds, l \in Levels : Submit(id, l, 0, FALSE)
    /\ UNCHANGED <<cfg, changed, edit, active, joined>>

\* handle_address: works on a snapshot of the configuration, of which only
\* the Art-Net port address (not kept here) is its own to change.
ReceiveAddress ==
    /\ at = "artnet"
    /\ at' = "address"
    /\ edit' = cfg
    /\ CancelMerge \/ UNCHANGED sourceVars
    /\ UNCHANGED <<cfg, changed, active, joined>>

StoreAddress ==
    /\ at = "address"
    /\ at' = "sacn"
    /\ cfg' = edit
    /\ changed' = TRUE
    /\ edit' = NoEdit
    /\ UNCHANGED <<sourceVars, active, joined>>

\* dmx_sacn_handle
ReceiveSacn ==
    /\ at = "sacn"
    /\ at' = "tick"
    /\ \/ UNCHANGED sourceVars
       \/ /\ cfg.enabled
          /\ \E id \in SacnIds, l \in Levels, q \in Seqs, end \in BOOLEAN :
                 Submit(id, l, q, end)
    /\ UNCHANGED <<cfg, changed, edit, active, joined>>

TickDue ==
    /\ at = "tick"
    /\ at' = "config"
    /\ Tick
    /\ UNCHANGED <<cfg, changed, edit, joined>>

TickNotDue ==
    /\ at = "tick"
    /\ at' = "config"
    /\ UNCHANGED <<cfg, changed, edit, sourceVars, active, joined>>

\* The timeout passes for a source, and for those heard before it.
PassTime ==
    /\ \E s \in InUse \ stale : stale' = {t \in InUse : HeardAfter(s, t)}
    /\ UNCHANGED <<cfg, changed, at, edit, table, before, active, joined>>

\* dmx_input_set_config in the admin task.
SetConfig ==
    /\ cfg' \in Config
    /\ changed' = TRUE
    /\ UNCHANGED <<at, edit, sourceVars, active, joined>>

Loop ==
    \/ ApplyConfig
    \/ ReceiveArtnet
    \/ ReceiveAddress
    \/ StoreAddress
    \/ ReceiveSacn
    \/ TickDue
    \/ TickNotDue

DmxInit ==
    /\ cfg \in Config
    /\ changed = FALSE
    /\ at = "config"
    /\ edit = NoEdit
    /\ table = [s \in Slots |-> Free]
    /\ before = {}
    /\ stale = {}
    /\ active = "NONE"
    /\ joined \in IF cfg.enabled THEN {0, cfg.universe} ELSE {0}

DmxNext == Loop \/ PassTime \/ SetConfig

\* The task's loop keeps turning and its tick, on a fixed cadence, comes due
\* again and again; the two-second retry finds an address some day.
DmxSpec ==
    /\ DmxInit
    /\ [][DmxNext]_dmxVars
    /\ WF_dmxVars(Loop)
    /\ SF_dmxVars(TickDue)
    /\ SF_dmxVars(ApplyConfig /\ joined' = Wanted)

-----------------------------------------------------------------------------
(* Properties. *)

\* Strictly ordered: any two slots in use, one way round only, transitively.
Ordered ==
    /\ before \subseteq InUse \X InUse
    /\ \A s, t \in InUse : s # t => (<<s, t>> \in before <=> <<t, s>> \notin before)
    /\ \A s \in InUse : <<s, s>> \notin before
    /\ \A s, t, u \in InUse :
         <<s, t>> \in before /\ <<t, u>> \in before => <<s, u>> \in before

\* The slots in use are ordered by when they were heard, and those beyond the
\* timeout are the ones heard longest ago.
TableOK ==
    /\ table \in [Slots -> Source \cup {Free}]
    /\ Ordered
    /\ stale \subseteq InUse
    /\ \A s \in stale, t \in InUse : HeardAfter(s, t) => t \in stale

\* The types, and what the table promises whatever its handlers do to it.
DTypeOK ==
    /\ cfg \in Config
    /\ edit \in IF at = "address" THEN Config ELSE {NoEdit}
    /\ changed \in BOOLEAN
    /\ at \in {"config", "artnet", "address", "sacn", "tick"}
    /\ TableOK
    /\ active \in {"NONE", "ARTNET", "SACN", "BOTH"}
    /\ joined \in Universes \cup {0}

Tracked(T) == {T[s].id : s \in {t \in Slots : T[t] # Free}}

\* A frame, other than the last one of a stream (which only frees a slot),
\* pushes no other source out of the table while a slot is free.
KeepsOthers ==
    (at = "artnet" \/ at = "sacn") /\ at' # "address"
      => \/ Tracked(table) \subseteq Tracked(table')
         \/ InUse = Slots
         \/ InUse' \subseteq InUse /\ InUse' # InUse

EvictsOnlyWhenFull == [][KeepsOthers]_dmxVars

\* A late or repeated sACN frame never replaces what a newer frame of the
\* same source left in the slot, also across the wrap of the counter.
KeepsNewer ==
    \A s \in InUse :
      (/\ table'[s].id = table[s].id /\ table'[s] # table[s]
       /\ table[s].id \in SacnIds /\ table[s].seq # 0 /\ table'[s].seq # 0)
         => \E ahead \in 1..236 : table'[s].seq = (table[s].seq + ahead) % 256

NoReorder == [][KeepsNewer]_dmxVars

\* The newest frame of each source that is still being heard.
NewestOf(id) == LastHeard({s \in InUse : table[s].id = id})
Current == {NewestOf(id) : id \in Tracked(table)} \ stale

\* README: merge "HTP (default) or LTP across simultaneously-active sources;
\* the highest priority wins first".  The output is what one of the sources
\* still being heard sent last, and that source beats each of the others.
Beats(s, t) ==
    LET p == PriorityOf[table[s].id]
        q == PriorityOf[table[t].id]
    IN  \/ p > q
        \/ /\ p = q
           /\ IF cfg.merge = "LTP" THEN HeardAfter(s, t)
              ELSE table[s].level >= table[t].level

MergeOfSources ==
    Current # {} =>
        \E s \in Current :
            /\ table[s].level = Merged(InUse \ stale, cfg.merge)
            /\ \A t \in Current : Beats(s, t)

\* When every source has timed out, the loss is noticed and control released.
LossDetected ==
    (InUse # {} /\ InUse = stale) ~> (active = "NONE" \/ InUse # stale)

\* The multicast membership follows the patch, also when the first attempts
\* came before the interface had an address.
MembershipFollows == joined # Wanted ~> joined = Wanted
=============================================================================
