---------------------------- MODULE AdminChannel ----------------------------
(***************************************************************************)
(* Authentication of the admin channel: CHALLENGE and the nonce pool, the  *)
(* HMAC under the active secret, and the requests that change that secret  *)
(* or restart the device (CHANGE_SECRET, FACTORY_RESET, REBOOT), with the  *)
(* secret's copy in NVS (devid.c) and the boot that reads it back.  Every  *)
(* other request is an ACT: what it does is PowerManager's, DmxInput's and *)
(* Ota's.                                                                  *)
(*                                                                         *)
(* A nonce is its issue number: the RNG never repeats one.  A request once *)
(* sent may arrive late, again and again, or never; a request the rate     *)
(* limiter drops is one that never arrives.                                *)
(***************************************************************************)
EXTENDS Integers, FiniteSetsExt

CONSTANTS
    Ips,          \* source addresses
    PoolSize,     \* NONCE_POOL_SIZE
    Ttl,          \* NONCE_TTL_US, in ticks
    Secrets,      \* secrets the administrators make up
    Default,      \* ADMIN_DEFAULT_SECRET
    MaxNonces,    \* bound: nonces issued
    MaxCuts       \* bound: power cuts

ASSUME AdminAssumption ==
    /\ PoolSize \in Nat \ {0} /\ Ttl \in Nat
    /\ MaxNonces \in Nat /\ MaxCuts \in Nat
    /\ Default \notin Secrets
    /\ "nothing" \notin Secrets \cup {Default} /\ "zeros" \notin Secrets \cup {Default}

Nonces  == 1..MaxNonces
Slots   == 1..PoolSize
Free    == 0               \* an unused slot
Nowhere == "nowhere"       \* address of a nonce not issued yet
Nothing == "nothing"       \* no secret in NVS
Zeros   == "zeros"         \* s_active_secret before anything is copied to it

\* Requests that need a nonce; CHANGE_SECRET carries the new secret, and
\* FACTORY_RESET goes back to the default.
Request(type, new) == [type |-> type, new |-> new]
Requests == {Request(t, Default) : t \in {"ACT", "REBOOT", "FACTORY_RESET"}}
              \cup {Request("CHANGE_SECRET", s) : s \in Secrets}

VARIABLES
    pool,      \* s_nonces: the nonce each slot holds, or Free
    issued,    \* nonces issued so far
    age,       \* ticks since each nonce was issued, at most Ttl + 1
    bound,     \* the address each nonce was issued to
    signed,    \* the secret each nonce's request is authenticated with
    net,       \* the request sent with each nonce, as a set, and from where
    acts,      \* how many times a request was let through by each nonce
    active,    \* s_active_secret
    stored,    \* the secret in NVS
    nvsOk,     \* s_nvs_ok
    phase,     \* "down", "up", or in the delay before "reboot" or "erase"
    cuts,      \* power cuts so far
    maybe,     \* secrets the administrators have to reckon with
    lastDown   \* nonces issued before the device last went down

poolVars   == <<pool, issued, age, bound, acts, lastDown>>
secretVars == <<active, stored, nvsOk>>
hostVars   == <<signed, net, maybe>>
vars == <<poolVars, secretVars, hostVars, phase, cuts>>

Init ==
    /\ pool = [s \in Slots |-> Free]
    /\ issued = 0
    /\ age = [n \in Nonces |-> 0]
    /\ bound = [n \in Nonces |-> Nowhere]
    /\ signed = [n \in Nonces |-> Default]
    /\ net = [n \in Nonces |-> {}]
    /\ acts = [n \in Nonces |-> 0]
    /\ active = Default /\ stored = Default /\ nvsOk = TRUE
    /\ phase = "up"
    /\ cuts = 0
    /\ maybe = {Default}
    /\ lastDown = 0

-----------------------------------------------------------------------------
(* The nonce pool. *)

Live == {pool[s] : s \in Slots} \ {Free}
Expired(n) == age[n] > Ttl

\* Mutant: a full pool gives up the newest nonce.
VictimNewest ==
    IF \E s \in Slots : pool[s] = Free
    THEN Min({s \in Slots : pool[s] = Free})
    ELSE CHOOSE s \in Slots : \A t \in Slots : pool[s] >= pool[t]

\* nonce_issue's choice: the first unused slot, else the oldest nonce's.
Victim ==
    IF \E s \in Slots : pool[s] = Free
    THEN Min({s \in Slots : pool[s] = Free})
    ELSE CHOOSE s \in Slots : \A t \in Slots : pool[s] <= pool[t]

\* CHALLENGE, under the active secret: a new nonce, bound to the source.  The
\* packet may be a repeated one; the answer may be lost, and the nonce unused.
HandleChallenge(ip) ==
    /\ phase = "up" /\ issued < MaxNonces
    /\ active \in maybe
    /\ issued' = issued + 1
    /\ pool' = [pool EXCEPT ![Victim] = issued']
    /\ bound' = [bound EXCEPT ![issued'] = ip]
    /\ signed' = [signed EXCEPT ![issued'] = active]
    /\ UNCHANGED <<age, acts, lastDown, secretVars, net, maybe, phase, cuts>>

\* Mutant: any nonce of the source will do.
HitsAnyNonce(n, ip) ==
    {s \in Slots : pool[s] # Free /\ bound[pool[s]] = ip /\ ~Expired(pool[s])}

\* nonce_consume: the slots in order; an expired nonce met on the way is freed.
Hits(n, ip) == {s \in Slots : pool[s] = n /\ bound[n] = ip /\ ~Expired(n)}

Freed(n, ip) ==
    {s \in Slots : pool[s] # Free /\ Expired(pool[s]) /\ \A h \in Hits(n, ip) : s < h}

\* Mutant: the nonce found stays in its slot.
ConsumedKept(n, ip) == [s \in Slots |-> IF s \in Freed(n, ip) THEN Free ELSE pool[s]]

Consumed(n, ip) ==
    [s \in Slots |-> IF s \in Hits(n, ip) \cup Freed(n, ip) THEN Free ELSE pool[s]]

-----------------------------------------------------------------------------
(* The administrators' hosts. *)

\* The secrets made up so far.
Made == {p.request.new : p \in UNION {net[n] : n \in Nonces}} \ {Default}

\* The secret a request may put in force.
Tried(request) ==
    IF request.type \in {"CHANGE_SECRET", "FACTORY_RESET"} THEN {request.new} ELSE {}

\* With a nonce it was given, a host sends one request, usually from the
\* address that asked for it.  A new secret is never an old one.
SendRequest(n, ip, request) ==
    /\ n <= issued /\ net[n] = {}
    /\ net' = [net EXCEPT ![n] = {[ip |-> ip, request |-> request]}]
    /\ request.type = "CHANGE_SECRET" => request.new \notin Made
    /\ maybe' = maybe \cup Tried(request)
    /\ UNCHANGED <<poolVars, secretVars, signed, phase, cuts>>

-----------------------------------------------------------------------------
(* The device's handlers. *)

\* Mutant: what NVS answers is not looked at.
ChangeSecretUnchecked(new) ==
    /\ active' = new /\ stored' \in {stored, new}
    /\ maybe' \in {maybe, {new}}
    /\ UNCHANGED <<nvsOk, phase>>

\* handle_change_secret: NVS first, RAM only when NVS took it.  The OK is
\* authenticated with the new secret; hearing it leaves no doubt, losing it or
\* a refusal leaves both possible.  A failing write may still have reached NVS.
ChangeSecret(new) ==
    /\ \/ /\ nvsOk
          /\ stored' = new /\ active' = new
          /\ maybe' \in {maybe, {new}}
       \/ /\ stored' \in IF nvsOk THEN {stored, new} ELSE {stored}
          /\ UNCHANGED <<active, maybe>>
    /\ UNCHANGED <<nvsOk, phase>>

\* REBOOT and FACTORY_RESET answer first, then wait 200 ms.
Perform(request) ==
    \/ request.type = "CHANGE_SECRET" /\ ChangeSecret(request.new)
    \/ request.type = "ACT" /\ UNCHANGED <<secretVars, maybe, phase>>
    \/ request.type = "REBOOT" /\ phase' = "reboot" /\ UNCHANGED <<secretVars, maybe>>
    \/ request.type = "FACTORY_RESET" /\ phase' = "erase" /\ UNCHANGED <<secretVars, maybe>>

\* handle_packet: HMAC under the active secret, then the nonce, then the act.
HandlePacket(n) ==
    /\ phase = "up"
    /\ \E p \in net[n] :
         /\ signed[n] = active
         /\ pool' = Consumed(n, p.ip)
         /\ IF Hits(n, p.ip) # {}
            THEN acts' = [acts EXCEPT ![n] = @ + 1] /\ Perform(p.request)
            ELSE UNCHANGED <<acts, secretVars, maybe, phase>>
    /\ UNCHANGED <<issued, age, bound, lastDown, signed, net, cuts>>

\* Time passes for the nonces in the pool.
Tick ==
    /\ \E n \in Live : ~Expired(n)
    /\ age' = [n \in Nonces |-> IF n \in Live /\ ~Expired(n) THEN age[n] + 1 ELSE age[n]]
    /\ UNCHANGED <<pool, issued, bound, acts, lastDown, secretVars, hostVars, phase, cuts>>

-----------------------------------------------------------------------------
(* Restarts. *)

GoDown ==
    /\ phase' = "down"
    /\ pool' = [s \in Slots |-> Free]
    /\ lastDown' = issued
    /\ UNCHANGED <<issued, age, bound, acts, active, nvsOk, hostVars>>

PowerCut == phase # "down" /\ cuts < MaxCuts /\ cuts' = cuts + 1 /\ GoDown /\ UNCHANGED stored

Reboot == phase = "reboot" /\ GoDown /\ UNCHANGED <<stored, cuts>>

\* Erase NVS, and restart whether or not that worked.
Erase == phase = "erase" /\ GoDown /\ stored' \in {stored, Nothing} /\ UNCHANGED cuts

\* Mutant: what NVS answered is copied, an error too.
FoundAlways == TRUE

\* nvs_get_blob finds a secret.
Found == stored # Nothing

\* devid_init.  NVS may not open, then nothing is copied to the active secret;
\* it may have to be erased to open; the secret may not be there, and the
\* default not be writable; or it may be there and not readable.
Boot ==
    /\ phase = "down"
    /\ phase' = "up"
    /\ \/ /\ active' = Zeros /\ nvsOk' = FALSE
          /\ stored' \in {stored, Nothing}
          /\ maybe' = IF stored' = stored THEN maybe ELSE maybe \cup {Default}
       \/ /\ active' = Default /\ nvsOk' = TRUE
          /\ stored' \in {Default, Nothing, stored}
          /\ maybe' = IF ~Found THEN maybe ELSE maybe \cup {Default}
       \/ /\ Found
          /\ active' = stored /\ nvsOk' = TRUE
          /\ UNCHANGED <<stored, maybe>>
    /\ UNCHANGED <<poolVars, signed, net, cuts>>

-----------------------------------------------------------------------------

Next ==
    \/ \E ip \in Ips : HandleChallenge(ip)
    \/ \E n \in Nonces : HandlePacket(n)
    \/ \E n \in Nonces, ip \in Ips, r \in Requests : SendRequest(n, ip, r)
    \/ Tick \/ PowerCut \/ Reboot \/ Erase \/ Boot

Spec == Init /\ [][Next]_vars

-----------------------------------------------------------------------------
(* Properties. *)

AdminTypeOK ==
    /\ pool \in [Slots -> Nonces \cup {Free}] /\ issued \in 0..MaxNonces
    /\ age \in [Nonces -> 0..(Ttl + 1)] /\ bound \in [Nonces -> Ips \cup {Nowhere}]
    /\ signed \in [Nonces -> Secrets \cup {Default, Zeros}]
    /\ net \in [Nonces -> SUBSET [ip : Ips, request : Requests]]
    /\ acts \in [Nonces -> Nat]
    /\ active \in Secrets \cup {Default, Zeros}
    /\ stored \in Secrets \cup {Default, Nothing}
    /\ nvsOk \in BOOLEAN
    /\ phase \in {"down", "up", "reboot", "erase"} /\ cuts \in 0..MaxCuts
    /\ lastDown \in 0..issued
    /\ maybe \subseteq Secrets \cup {Default}

\* However often a request is delivered, and across restarts, it acts at most
\* once: nonce_consume frees the slot, nothing puts a nonce back.
AtMostOnce == \A n \in Nonces : acts[n] <= 1

\* A host that answers in time is served although others ask for nonces too:
\* until it is used or expires, a nonce stays in the pool unless PoolSize newer
\* ones were issued.
LiveNonceServes ==
    \A n \in Nonces :
      phase = "up" /\ issued - PoolSize < n /\ n <= issued /\ n > lastDown
        /\ acts[n] = 0 /\ ~Expired(n)
      => \E s \in Slots : pool[s] = n

\* Whatever is lost, refused, or cut short, the device listens to a secret its
\* administrators know of: the last one confirmed, one tried since, or the
\* default after a reset asked for or an NVS fault at boot.  Only a device
\* whose NVS did not open listens to none.
SecretKnown == phase = "up" /\ nvsOk => active \in maybe

\* The pool implements single-use permits.
Permit == INSTANCE NoncePermit WITH live <- Live, gone <- (1..issued) \ Live
ImplementsPermit == Permit!Spec
=============================================================================
