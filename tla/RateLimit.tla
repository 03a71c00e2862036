------------------------------ MODULE RateLimit ------------------------------
(***************************************************************************)
(* rate_limit_check, the first thing handle_packet does: a table of fixed  *)
(* windows, one per source address.  `log' keeps, for the properties, every *)
(* packet that arrived and whether it was let through.                     *)
(***************************************************************************)
EXTENDS Integers, Sequences, FiniteSets

CONSTANTS
    RateTableSize,  \* RATE_LIMIT_TABLE_SIZE
    Window,         \* RATE_LIMIT_WINDOW_US, in ticks
    MaxPerWindow,   \* RATE_LIMIT_MAX_PER_WINDOW
    Senders,        \* addresses that packets come from
    Gaps            \* the ticks that may pass between two packets

NoSource == 0    \* the address of a free slot

ASSUME RateAssumption ==
    /\ RateTableSize \in Nat \ {0} /\ Window \in Nat /\ MaxPerWindow \in Nat \ {0}
    /\ Senders \subseteq Nat \ {NoSource}
    /\ Gaps \subseteq Nat

VARIABLES
    rates,  \* s_rate_table
    log     \* the packets so far: source, time, verdict

rateVars == <<rates, log>>

RateSlots == 1..RateTableSize
Entry(ip, count, start) == [ip |-> ip, count |-> count, start |-> start]

SlotsOf(ip) == {i \in RateSlots : rates[i].ip = ip}
FirstSlot(S) == CHOOSE i \in S : \A j \in S : i <= j

\* Mutants: the count is kept when a window ends; every packet starts one.
SeenKeepsCount(entry, now) ==
    IF now - entry.start > Window THEN Entry(entry.ip, entry.count + 1, now)
    ELSE Entry(entry.ip, entry.count + 1, entry.start)
SeenAlwaysFirst(entry, now) ==
    IF now > entry.start THEN Entry(entry.ip, 1, now)
    ELSE Entry(entry.ip, entry.count + 1, entry.start)

\* One more packet of a known source: in its window, or the first of a new one.
Seen(entry, now) ==
    IF now - entry.start > Window THEN Entry(entry.ip, 1, now)
    ELSE Entry(entry.ip, entry.count + 1, entry.start)

\* A new source takes the first free slot, else the first slot of all.
NewSlot == IF SlotsOf(NoSource) # {} THEN FirstSlot(SlotsOf(NoSource)) ELSE 1

Judged(ip, now, ok) == log' = Append(log, [ip |-> ip, at |-> now, ok |-> ok])

\* rate_limit_check
Known(ip, now) ==
    LET i == FirstSlot(SlotsOf(ip)) IN
    /\ SlotsOf(ip) # {}
    /\ rates' = [rates EXCEPT ![i] = Seen(rates[i], now)]
    /\ Judged(ip, now, Seen(rates[i], now).count <= MaxPerWindow)

New(ip, now) ==
    /\ SlotsOf(ip) = {}
    /\ rates' = [rates EXCEPT ![NewSlot] = Entry(ip, 1, now)]
    /\ Judged(ip, now, TRUE)

Clock == IF log = <<>> THEN 0 ELSE log[Len(log)].at

RateInit ==
    /\ rates = [i \in RateSlots |-> Entry(NoSource, 0, 0)]
    /\ log = <<>>

\* A packet arrives, some time after the one before it.
RateNext ==
    \E ip \in Senders, gap \in Gaps : Known(ip, Clock + gap) \/ New(ip, Clock + gap)

RateSpec == RateInit /\ [][RateNext]_rateVars

-----------------------------------------------------------------------------
(* What the limiter is for. *)

\* Packets of one source no longer than a window ago, up to and with the k-th.
Recent(k) == {j \in 1..k : log[j].ip = log[k].ip /\ log[k].at - log[j].at <= Window}

\* Nobody is turned away who sent no more than MaxPerWindow packets within the
\* last window, whatever the other sources do.
ModestServed ==
    \A k \in 1..Len(log) : ~log[k].ok => Cardinality(Recent(k)) > MaxPerWindow

\* While the table has room for every source, none gets more than twice
\* MaxPerWindow packets through within a window's length.
Heard == {log[k].ip : k \in 1..Len(log)}

GreedyHeldBack ==
    Cardinality(Heard) <= RateTableSize
      => \A k \in 1..Len(log) :
           Cardinality({j \in Recent(k) : log[j].ok}) <= 2 * MaxPerWindow
=============================================================================
