------------------------- MODULE AdminChannelProofs -------------------------
(***************************************************************************)
(* AdminChannel's invariants and its refinement of NoncePermit, for every  *)
(* pool size, time to live, set of addresses and set of secrets.           *)
(***************************************************************************)
EXTENDS AdminChannel, TLAPS, WellFoundedInduction, FiniteSetTheorems

\* A nonempty set of naturals has a least element.
LEMMA LeastNatural ==
    ASSUME NEW S \in SUBSET Nat, S # {}
    PROVE  \E x \in S : \A y \in S : x <= y
<1>1. PICK x \in S : \A y \in S : ~(<<y, x>> \in OpToRel(<, Nat))
  BY WFMin, NatLessThanWellFounded, Zenon
<1>2. \A y \in S : <<y, x>> \in OpToRel(<, Nat) <=> y < x
  BY DEF OpToRel
<1>3. \A y \in S : ~(y < x)
  BY <1>1, <1>2, Zenon
<1> QED BY <1>3

\* What is in a request.
LEMMA RequestShape ==
    ASSUME NEW r \in Requests
    PROVE  /\ r.type \in {"ACT", "REBOOT", "FACTORY_RESET", "CHANGE_SECRET"}
           /\ r.new \in Secrets \cup {Default}
           /\ r.type = "CHANGE_SECRET" => r.new \in Secrets
           /\ r.type = "FACTORY_RESET" => r.new = Default
BY DEF Requests, Request

-----------------------------------------------------------------------------
(* The type invariant is inductive. *)

\* nonce_issue's choice is a slot: a free one, or the oldest of a full pool.
LEMMA VictimSlot ==
    ASSUME AdminTypeOK
    PROVE  /\ Victim \in Slots
           /\ \/ pool[Victim] = Free
              \/ \A t \in Slots : pool[t] # Free /\ pool[Victim] <= pool[t]
<1>1. CASE \E s \in Slots : pool[s] = Free
  <2> DEFINE frees == {s \in Slots : pool[s] = Free}
  <2>1. frees \in SUBSET Nat /\ frees # {}  BY <1>1 DEF Slots
  <2>2. \E x \in frees : \A y \in frees : x <= y  BY <2>1, LeastNatural
  <2>3. Min(frees) \in frees  BY <2>2 DEF Min
  <2>4. Victim = Min(frees)  BY <1>1 DEF Victim
  <2> QED BY <2>3, <2>4
<1>2. CASE ~ \E s \in Slots : pool[s] = Free
  <2> DEFINE held == {pool[s] : s \in Slots}
  <2>1. held \in SUBSET Nat  BY DEF AdminTypeOK, Nonces, Free
  <2>2. 1 \in Slots  BY AdminAssumption DEF Slots, AdminAssumption
  <2>3. held # {}  BY <2>2
  <2>4. PICK x \in held : \A y \in held : x <= y  BY <2>1, <2>3, LeastNatural
  <2>5. PICK s \in Slots : pool[s] = x  OBVIOUS
  <2>6. \A t \in Slots : pool[s] <= pool[t]  BY <2>4, <2>5
  <2>7. Victim = CHOOSE u \in Slots : \A t \in Slots : pool[u] <= pool[t]
    BY <1>2 DEF Victim
  <2>8. Victim \in Slots /\ \A t \in Slots : pool[Victim] <= pool[t]
    BY <2>6, <2>7, Zenon
  <2> QED BY <1>2, <2>8
<1> QED BY <1>1, <1>2

LEMMA TypeInit == Init => AdminTypeOK
BY AdminAssumption DEF Init, AdminTypeOK, Slots, Nonces, Free, Nowhere, AdminAssumption

LEMMA ChallengeType ==
    ASSUME AdminTypeOK, NEW ip \in Ips, HandleChallenge(ip)
    PROVE  AdminTypeOK'
<1>1. issued' \in Nonces /\ issued' \in 0..MaxNonces /\ lastDown' \in 0..issued'
  BY AdminAssumption DEF AdminTypeOK, HandleChallenge, Nonces, AdminAssumption
<1>2. pool' \in [Slots -> Nonces \cup {Free}]
  BY <1>1, VictimSlot DEF AdminTypeOK, HandleChallenge
<1>3. bound' \in [Nonces -> Ips \cup {Nowhere}]
  BY <1>1 DEF AdminTypeOK, HandleChallenge
<1>4. active \in Secrets \cup {Default}
  BY DEF AdminTypeOK, HandleChallenge
<1>5. signed' \in [Nonces -> Secrets \cup {Default, Zeros}]
  BY <1>1, <1>4 DEF AdminTypeOK, HandleChallenge
<1> QED BY <1>1, <1>2, <1>3, <1>5 DEF AdminTypeOK, HandleChallenge, secretVars

LEMMA ConsumedType ==
    ASSUME AdminTypeOK, NEW n \in Nonces, NEW ip \in Ips
    PROVE  Consumed(n, ip) \in [Slots -> Nonces \cup {Free}]
BY DEF AdminTypeOK, Consumed

LEMMA PerformType ==
    ASSUME AdminTypeOK, NEW r \in Requests, Perform(r)
    PROVE  /\ active' \in Secrets \cup {Default, Zeros}
           /\ stored' \in Secrets \cup {Default, Nothing}
           /\ nvsOk' \in BOOLEAN
           /\ phase' \in {"down", "up", "reboot", "erase"}
           /\ maybe' \subseteq Secrets \cup {Default}
<1>1. CASE r.type = "CHANGE_SECRET" /\ ChangeSecret(r.new)
  <2>1. r.new \in Secrets  BY <1>1, RequestShape
  <2> QED BY <1>1, <2>1 DEF ChangeSecret, AdminTypeOK
<1>2. CASE ~ (r.type = "CHANGE_SECRET" /\ ChangeSecret(r.new))
  BY <1>2 DEF Perform, AdminTypeOK, secretVars
<1> QED BY <1>1, <1>2

LEMMA PacketType ==
    ASSUME AdminTypeOK, NEW n \in Nonces, HandlePacket(n)
    PROVE  AdminTypeOK'
<1>1. PICK p \in net[n] :
         /\ pool' = Consumed(n, p.ip)
         /\ IF Hits(n, p.ip) # {}
            THEN acts' = [acts EXCEPT ![n] = @ + 1] /\ Perform(p.request)
            ELSE UNCHANGED <<acts, secretVars, maybe, phase>>
  BY DEF HandlePacket
<1>2. p.ip \in Ips /\ p.request \in Requests
  BY DEF AdminTypeOK
<1>3. pool' \in [Slots -> Nonces \cup {Free}]
  BY <1>1, <1>2, ConsumedType
<1>4. acts' \in [Nonces -> Nat]
  BY <1>1 DEF AdminTypeOK
<1>5. /\ active' \in Secrets \cup {Default, Zeros}
      /\ stored' \in Secrets \cup {Default, Nothing}
      /\ nvsOk' \in BOOLEAN
      /\ phase' \in {"down", "up", "reboot", "erase"}
      /\ maybe' \subseteq Secrets \cup {Default}
  BY <1>1, <1>2, PerformType DEF AdminTypeOK, secretVars
<1> QED BY <1>3, <1>4, <1>5 DEF AdminTypeOK, HandlePacket

LEMMA SendType ==
    ASSUME AdminTypeOK, NEW n \in Nonces, NEW ip \in Ips, NEW r \in Requests,
           SendRequest(n, ip, r)
    PROVE  AdminTypeOK'
<1>1. net' \in [Nonces -> SUBSET [ip : Ips, request : Requests]]
  BY DEF SendRequest, AdminTypeOK
<1>2. maybe' \subseteq Secrets \cup {Default}
  <2>1. Tried(r) \subseteq Secrets \cup {Default}  BY RequestShape DEF Tried
  <2> QED BY <2>1 DEF SendRequest, AdminTypeOK
<1> QED BY <1>1, <1>2 DEF SendRequest, AdminTypeOK, poolVars, secretVars

LEMMA TickType ==
    ASSUME AdminTypeOK, Tick
    PROVE  AdminTypeOK'
<1>1. age' \in [Nonces -> 0..(Ttl + 1)]
  BY AdminAssumption DEF AdminTypeOK, Tick, Expired, AdminAssumption
<1> QED BY <1>1 DEF AdminTypeOK, Tick, secretVars, hostVars

LEMMA DownType ==
    ASSUME AdminTypeOK, GoDown, stored' \in {stored, Nothing}, cuts' \in 0..MaxCuts
    PROVE  AdminTypeOK'
BY DEF AdminTypeOK, GoDown, hostVars

LEMMA BootType ==
    ASSUME AdminTypeOK, Boot
    PROVE  AdminTypeOK'
<1>1. UNCHANGED <<pool, issued, age, bound, acts, lastDown, signed, net, cuts>>
  BY DEF Boot, poolVars
<1>2. /\ active' \in Secrets \cup {Default, Zeros}
      /\ stored' \in Secrets \cup {Default, Nothing}
      /\ nvsOk' \in BOOLEAN /\ phase' = "up"
      /\ maybe' \subseteq Secrets \cup {Default}
  BY DEF Boot, Found, AdminTypeOK
<1> QED BY <1>1, <1>2 DEF AdminTypeOK

LEMMA TypeNext == AdminTypeOK /\ [Next]_vars => AdminTypeOK'
<1> SUFFICES ASSUME AdminTypeOK, [Next]_vars PROVE AdminTypeOK'
  OBVIOUS
<1>1. CASE \E ip \in Ips : HandleChallenge(ip)  BY <1>1, ChallengeType
<1>2. CASE \E n \in Nonces : HandlePacket(n)  BY <1>2, PacketType
<1>3. CASE \E n \in Nonces, ip \in Ips, r \in Requests : SendRequest(n, ip, r)
  BY <1>3, SendType
<1>4. CASE Tick  BY <1>4, TickType
<1>5. CASE PowerCut \/ Reboot \/ Erase
  <2>1. cuts' \in 0..MaxCuts
    BY <1>5, AdminAssumption DEF PowerCut, Reboot, Erase, AdminTypeOK, AdminAssumption
  <2> QED BY <1>5, <2>1, DownType DEF PowerCut, Reboot, Erase
<1>6. CASE Boot  BY <1>6, BootType
<1>7. CASE UNCHANGED vars
  BY <1>7 DEF vars, poolVars, secretVars, hostVars, AdminTypeOK
<1> QED BY <1>1, <1>2, <1>3, <1>4, <1>5, <1>6, <1>7, Zenon DEF Next

\* Every variable of the admin channel keeps its type: in particular the
\* active secret is one an administrator or the factory chose, or all zeros.
THEOREM AdminTypeCorrect == Spec => []AdminTypeOK
BY TypeInit, TypeNext, PTL DEF Spec

-----------------------------------------------------------------------------
(* The pool: a nonce in it was issued, has not been used and sits in one   *)
(* slot, and nothing that could still be needed is out of it.              *)

Distinct == \A s, t \in Slots : pool[s] = pool[t] /\ pool[s] # Free => s = t

Unused == \A s \in Slots : pool[s] <= issued /\ (pool[s] # Free => acts[pool[s]] = 0)

NotYetIssued == \A n \in Nonces : n > issued => acts[n] = 0 /\ net[n] = {}

Kept ==
    \A n \in Nonces :
      issued - PoolSize < n /\ n <= issued /\ n > lastDown /\ acts[n] = 0 /\ ~Expired(n)
        => \E s \in Slots : pool[s] = n

PoolInv ==
    /\ AdminTypeOK
    /\ Distinct
    /\ Unused
    /\ NotYetIssued
    /\ AtMostOnce
    /\ Kept

LEMMA PoolInit == Init => PoolInv
<1> SUFFICES ASSUME Init PROVE PoolInv
  OBVIOUS
<1>1. AdminTypeOK  BY TypeInit
<1>2. Distinct /\ Unused  BY DEF Init, Distinct, Unused, Free
<1>3. NotYetIssued /\ AtMostOnce  BY DEF Init, NotYetIssued, AtMostOnce
<1>4. Kept  BY DEF Init, Kept, Nonces
<1> QED BY <1>1, <1>2, <1>3, <1>4 DEF PoolInv

\* The nonce a full pool gives up has PoolSize newer ones in front of it.
LEMMA OldestIsOld ==
    ASSUME AdminTypeOK, Distinct, Unused, pool[Victim] # Free
    PROVE  pool[Victim] <= issued + 1 - PoolSize
<1> DEFINE n == pool[Victim]
<1>1. Victim \in Slots /\ \A t \in Slots : pool[t] # Free /\ n <= pool[t]
  BY VictimSlot
<1>2. n \in Nat /\ n <= issued /\ issued \in Nat
  BY <1>1 DEF AdminTypeOK, Unused, Nonces, Free
<1>3. SUFFICES ASSUME issued - n + 1 < PoolSize PROVE FALSE
  BY <1>2, AdminAssumption DEF AdminAssumption
<1>4. pool \in [Slots -> n..issued]
  <2>1. \A t \in Slots : pool[t] \in n..issued
    BY <1>1, <1>2 DEF Unused, AdminTypeOK, Nonces, Free
  <2> QED BY <2>1 DEF AdminTypeOK
<1>5. IsFiniteSet(Slots) /\ Cardinality(Slots) = PoolSize
  BY FS_Interval, AdminAssumption DEF Slots, AdminAssumption
<1>6. IsFiniteSet(n..issued) /\ Cardinality(n..issued) = issued - n + 1
  <2>1. n \in Int /\ issued \in Int /\ ~(n > issued)  BY <1>2
  <2>2. /\ IsFiniteSet(n..issued)
        /\ Cardinality(n..issued) = IF n > issued THEN 0 ELSE issued - n + 1
    BY <2>1, FS_Interval, Zenon
  <2> QED BY <2>1, <2>2
<1>7. Cardinality(n..issued) < Cardinality(Slots)
  BY <1>3, <1>5, <1>6
<1>8. \E s, t \in Slots : s # t /\ pool[s] = pool[t]
  BY <1>4, <1>5, <1>6, <1>7, FS_PigeonHole
<1> QED BY <1>1, <1>8 DEF Distinct

LEMMA ChallengePool ==
    ASSUME PoolInv, NEW ip \in Ips, HandleChallenge(ip)
    PROVE  PoolInv'
<1> DEFINE new == issued + 1
<1>1. /\ AdminTypeOK /\ Distinct /\ Unused /\ Kept
      /\ new \in Nonces /\ issued \in Nat /\ issued' = new
      /\ pool' = [pool EXCEPT ![Victim] = new]
      /\ UNCHANGED <<age, acts, net, lastDown>>
  BY AdminAssumption DEF PoolInv, HandleChallenge, AdminTypeOK, Nonces, AdminAssumption
<1>2. AdminTypeOK'  BY <1>1, ChallengeType
<1>3. Victim \in Slots  BY <1>1, VictimSlot
<1>4. \A s \in Slots : pool'[s] = IF s = Victim THEN new ELSE pool[s]
  BY <1>1, <1>3 DEF AdminTypeOK
<1>5. \A s \in Slots : pool[s] \in Nat /\ pool[s] < new
  BY <1>1 DEF Unused, AdminTypeOK, Nonces, Free
<1>6. Distinct'
  BY <1>1, <1>4, <1>5 DEF Distinct
<1>7. acts[new] = 0
  BY <1>1 DEF PoolInv, NotYetIssued
<1>8. Unused'
  BY <1>1, <1>4, <1>5, <1>7 DEF Unused
<1>9. NotYetIssued' /\ AtMostOnce'
  BY <1>1 DEF PoolInv, NotYetIssued, AtMostOnce, Nonces
<1>10. Kept'
  <2> SUFFICES ASSUME NEW n \in Nonces, new - PoolSize < n, n <= new, n > lastDown,
                      acts[n] = 0, ~Expired(n)
               PROVE  \E s \in Slots : pool'[s] = n
    BY <1>1 DEF Kept, Expired
  <2>1. CASE n = new  BY <2>1, <1>3, <1>4
  <2>2. CASE n # new
    <3>1. n <= issued /\ issued - PoolSize < n
      BY <2>2, <1>1, AdminAssumption DEF Nonces, AdminAssumption
    <3>2. PICK s \in Slots : pool[s] = n  BY <3>1, <1>1 DEF Kept
    <3>3. s # Victim
      <4> SUFFICES ASSUME s = Victim PROVE FALSE  OBVIOUS
      <4>1. pool[Victim] # Free  BY <3>2 DEF Nonces, Free
      <4>2. pool[Victim] = n  BY <3>2
      <4>3. pool[Victim] <= issued + 1 - PoolSize  BY <4>1, <1>1, OldestIsOld, Zenon
      <4> QED BY <4>2, <4>3, <1>1, AdminAssumption DEF Nonces, AdminAssumption
    <3> QED BY <3>2, <3>3, <1>4
  <2> QED BY <2>1, <2>2
<1> QED BY <1>2, <1>6, <1>8, <1>9, <1>10 DEF PoolInv

LEMMA PacketPool ==
    ASSUME PoolInv, NEW n \in Nonces, HandlePacket(n)
    PROVE  PoolInv'
<1>1. AdminTypeOK /\ AdminTypeOK'
  BY PacketType DEF PoolInv
<1>2. PICK p \in net[n] :
         /\ pool' = Consumed(n, p.ip)
         /\ IF Hits(n, p.ip) # {}
            THEN acts' = [acts EXCEPT ![n] = @ + 1] /\ Perform(p.request)
            ELSE UNCHANGED <<acts, secretVars, maybe, phase>>
  BY DEF HandlePacket
<1>3. UNCHANGED <<issued, age, net, lastDown>>
  BY DEF HandlePacket
<1> DEFINE hits == Hits(n, p.ip)
           freed == Freed(n, p.ip)
<1>4. \A s \in Slots : pool'[s] = IF s \in hits \cup freed THEN Free ELSE pool[s]
  BY <1>2 DEF Consumed
<1>5. \A s \in hits : s \in Slots /\ pool[s] = n /\ ~Expired(n)
  BY DEF Hits
<1>6. \A s \in freed : s \in Slots /\ pool[s] # Free /\ Expired(pool[s])
  BY DEF Freed
<1>7. \A m \in Nonces : acts'[m] = IF m = n /\ hits # {} THEN acts[m] + 1 ELSE acts[m]
  BY <1>1, <1>2 DEF AdminTypeOK
<1>8. Distinct'
  BY <1>4 DEF PoolInv, Distinct
<1>9. \A s \in Slots : pool'[s] # Free => pool'[s] = pool[s] /\ (hits # {} => pool[s] # n)
  BY <1>4, <1>5 DEF PoolInv, Distinct
<1>10. Unused'
  <2> SUFFICES ASSUME NEW s \in Slots
               PROVE  pool'[s] <= issued /\ (pool'[s] # Free => acts'[pool'[s]] = 0)
    BY <1>3 DEF Unused
  <2>1. CASE pool'[s] = Free
    BY <2>1, <1>1 DEF Free, AdminTypeOK
  <2>2. CASE pool'[s] # Free
    <3>1. pool'[s] = pool[s] /\ (hits # {} => pool[s] # n) /\ pool[s] \in Nonces
      BY <2>2, <1>1, <1>9 DEF AdminTypeOK
    <3> QED BY <3>1, <2>2, <1>7 DEF PoolInv, Unused
  <2> QED BY <2>1, <2>2
<1>11. hits # {} => acts[n] = 0 /\ n <= issued
  BY <1>5 DEF PoolInv, Unused, Nonces, Free
<1>12. NotYetIssued'
  BY <1>3, <1>7, <1>11, <1>1 DEF PoolInv, NotYetIssued, AdminTypeOK, Nonces
<1>13. AtMostOnce'
  BY <1>7, <1>11 DEF PoolInv, AtMostOnce
<1>14. Kept'
  <2> SUFFICES ASSUME NEW m \in Nonces, issued - PoolSize < m, m <= issued, m > lastDown,
                      acts'[m] = 0, ~Expired(m)
               PROVE  \E s \in Slots : pool'[s] = m
    BY <1>3 DEF Kept, Expired
  <2>1. acts[m] = 0 /\ ~(m = n /\ hits # {})
    BY <1>7, <1>1 DEF AdminTypeOK
  <2>2. PICK s \in Slots : pool[s] = m
    BY <2>1 DEF PoolInv, Kept
  <2>3. s \notin hits \cup freed
    BY <2>1, <2>2, <1>5, <1>6
  <2> QED BY <2>2, <2>3, <1>4
<1> QED BY <1>1, <1>8, <1>10, <1>12, <1>13, <1>14 DEF PoolInv

LEMMA PoolNext == PoolInv /\ [Next]_vars => PoolInv'
<1> SUFFICES ASSUME PoolInv, [Next]_vars PROVE PoolInv'
  OBVIOUS
<1>1. AdminTypeOK /\ AdminTypeOK'  BY TypeNext DEF PoolInv
<1>2. CASE \E ip \in Ips : HandleChallenge(ip)  BY <1>2, ChallengePool
<1>3. CASE \E n \in Nonces : HandlePacket(n)  BY <1>3, PacketPool
<1>4. CASE \E n \in Nonces, ip \in Ips, r \in Requests : SendRequest(n, ip, r)
  <2>1. PICK n \in Nonces, ip \in Ips, r \in Requests : SendRequest(n, ip, r)
    BY <1>4
  <2>2. UNCHANGED <<pool, issued, age, acts, lastDown>> /\ n <= issued
    BY <2>1 DEF SendRequest, poolVars
  <2>3. \A m \in Nonces : m > issued => net'[m] = net[m]
    BY <2>1, <2>2, <1>1 DEF SendRequest, AdminTypeOK, Nonces
  <2> QED BY <1>1, <2>2, <2>3 DEF PoolInv, Distinct, Unused, NotYetIssued, AtMostOnce,
                                  Kept, Expired
<1>5. CASE Tick
  <2>1. UNCHANGED <<pool, issued, acts, net, lastDown>>
    BY <1>5 DEF Tick, hostVars
  <2>2. \A n \in Nonces : Expired(n) => Expired(n)'
    BY <1>5, <1>1 DEF Tick, Expired, AdminTypeOK
  <2> QED BY <1>1, <2>1, <2>2 DEF PoolInv, Distinct, Unused, NotYetIssued, AtMostOnce, Kept
<1>6. CASE PowerCut \/ Reboot \/ Erase
  <2>1. GoDown  BY <1>6 DEF PowerCut, Reboot, Erase
  <2>2. pool' = [s \in Slots |-> Free] /\ lastDown' = issued
        /\ UNCHANGED <<issued, age, acts, net>>
    BY <2>1 DEF GoDown, hostVars
  <2>3. Distinct' /\ Unused'
    BY <2>2, <1>1 DEF Distinct, Unused, Free, AdminTypeOK
  <2>4. NotYetIssued' /\ AtMostOnce'
    BY <2>2 DEF PoolInv, NotYetIssued, AtMostOnce
  <2>5. Kept'
    BY <2>2, <1>1 DEF Kept, AdminTypeOK, Nonces
  <2> QED BY <1>1, <2>3, <2>4, <2>5 DEF PoolInv
<1>7. CASE Boot
  BY <1>1, <1>7 DEF Boot, poolVars, PoolInv, Distinct, Unused, NotYetIssued, AtMostOnce,
                    Kept, Expired
<1>8. CASE UNCHANGED vars
  BY <1>1, <1>8 DEF vars, poolVars, hostVars, PoolInv, Distinct, Unused, NotYetIssued,
                    AtMostOnce, Kept, Expired
<1> QED BY <1>2, <1>3, <1>4, <1>5, <1>6, <1>7, <1>8, Zenon DEF Next

THEOREM PoolInvariance == Spec => []PoolInv
BY PoolInit, PoolNext, PTL DEF Spec

\* Repeated, late or from before a restart, a request acts at most once.
THEOREM OneActPerNonce == Spec => []AtMostOnce
<1>1. PoolInv => AtMostOnce  BY DEF PoolInv
<1> QED BY <1>1, PoolInvariance, PTL

\* A nonce that is neither used nor expired is still there while fewer than
\* PoolSize newer ones were issued: a host is not starved by others' CHALLENGEs.
THEOREM FreshNonceServes == Spec => []LiveNonceServes
<1>1. PoolInv => LiveNonceServes  BY DEF PoolInv, Kept, LiveNonceServes
<1> QED BY <1>1, PoolInvariance, PTL

-----------------------------------------------------------------------------
(* The secret: what NVS holds, and what any request that still can act may *)
(* put in force, is known to the administrators; and a secret made up for  *)
(* a request that has not acted is in use nowhere.                         *)

New(p) == p.request.new
Changes(p) == p.request.type = "CHANGE_SECRET"

StoredKnown == IF stored = Nothing THEN Default \in maybe ELSE stored \in maybe
EraseKnown  == phase = "erase" => Default \in maybe
LiveKnown   == \A n \in Live : \A p \in net[n] :
                 signed[n] = active => Tried(p.request) \subseteq maybe
DownEmpty   == phase = "down" => Live = {}

Fresh ==
    \A n \in Nonces : \A p \in net[n] :
      Changes(p) /\ acts[n] = 0
        => New(p) # active /\ New(p) # stored /\ \A m \in Nonces : New(p) # signed[m]

Unique ==
    \A m, n \in Nonces : \A p \in net[m], q \in net[n] :
      Changes(p) /\ Changes(q) /\ New(p) = New(q) => m = n

Origin ==
    /\ active \in Made \cup {Default, Zeros}
    /\ stored \in Made \cup {Default, Nothing}
    /\ \A n \in Nonces : signed[n] \in Made \cup {Default, Zeros}

SecretInv ==
    /\ SecretKnown /\ StoredKnown /\ EraseKnown /\ LiveKnown /\ DownEmpty
    /\ Fresh /\ Unique /\ Origin

\* The secrets made up are the new ones of the requests sent.
LEMMA MadeSecrets ==
    ASSUME AdminTypeOK
    PROVE  \A s : s \in Made <=> s # Default /\ \E n \in Nonces : \E p \in net[n] : s = New(p)
BY DEF Made, New

\* A secret made up is none of the constants.
LEMMA Constants ==
    /\ Default \notin Secrets /\ Zeros \notin Secrets /\ Nothing \notin Secrets
    /\ Default # Nothing /\ Default # Zeros
BY AdminAssumption DEF AdminAssumption, Zeros, Nothing

LEMMA SecretInit == Init => SecretInv
<1> SUFFICES ASSUME Init PROVE SecretInv
  OBVIOUS
<1>1. SecretKnown /\ StoredKnown /\ EraseKnown
  BY Constants DEF Init, SecretKnown, StoredKnown, EraseKnown
<1>2. LiveKnown /\ DownEmpty
  BY DEF Init, LiveKnown, DownEmpty, Live
<1>3. Fresh /\ Unique /\ Origin
  BY DEF Init, Fresh, Unique, Origin
<1> QED BY <1>1, <1>2, <1>3 DEF SecretInv

LEMMA ChallengeSecret ==
    ASSUME PoolInv, SecretInv, NEW ip \in Ips, HandleChallenge(ip)
    PROVE  SecretInv'
<1> DEFINE new == issued + 1
<1>1. /\ AdminTypeOK /\ new \in Nonces /\ active \in maybe /\ phase = "up"
      /\ pool' = [pool EXCEPT ![Victim] = new]
      /\ signed' = [signed EXCEPT ![new] = active]
      /\ UNCHANGED <<acts, active, stored, nvsOk, net, maybe, phase>>
  BY AdminAssumption
     DEF PoolInv, HandleChallenge, AdminTypeOK, Nonces, secretVars, AdminAssumption
<1>2. \A m \in Nonces : signed'[m] = IF m = new THEN active ELSE signed[m]
  BY <1>1 DEF AdminTypeOK
<1>3. SecretKnown' /\ StoredKnown' /\ EraseKnown' /\ DownEmpty'
  BY <1>1 DEF SecretInv, SecretKnown, StoredKnown, EraseKnown, DownEmpty
<1>4. LiveKnown'
  <2>1. \A n \in Live' : n \in Nonces /\ (n \in Live \/ n = new)
    BY <1>1, VictimSlot DEF Live, AdminTypeOK, Slots
  <2>2. net[new] = {}
    BY <1>1 DEF PoolInv, NotYetIssued, AdminTypeOK
  <2> QED BY <2>1, <2>2, <1>1, <1>2 DEF SecretInv, LiveKnown
<1>5. Fresh'
  BY <1>1, <1>2 DEF SecretInv, Fresh
<1>6. Unique' /\ Made' = Made
  BY <1>1 DEF SecretInv, Unique, Made
<1>7. Origin'
  BY <1>1, <1>2, <1>6 DEF SecretInv, Origin
<1> QED BY <1>3, <1>4, <1>5, <1>6, <1>7 DEF SecretInv

LEMMA SendSecret ==
    ASSUME PoolInv, SecretInv, NEW n \in Nonces, NEW ip \in Ips, NEW r \in Requests,
           SendRequest(n, ip, r)
    PROVE  SecretInv'
<1> DEFINE q == [ip |-> ip, request |-> r]
<1>1. /\ AdminTypeOK /\ net[n] = {}
      /\ r.type = "CHANGE_SECRET" => r.new \notin Made
      /\ maybe' = maybe \cup Tried(r)
      /\ UNCHANGED <<pool, acts, active, stored, nvsOk, signed, phase>>
  BY DEF PoolInv, SendRequest, poolVars, secretVars
<1>2. \A m \in Nonces : net'[m] = IF m = n THEN {q} ELSE net[m]
  BY <1>1 DEF SendRequest, AdminTypeOK
<1>3. q.request = r /\ r.new \in Secrets \cup {Default}
      /\ (r.type = "CHANGE_SECRET" => r.new \in Secrets)
  BY RequestShape
<1>4. SecretKnown' /\ StoredKnown' /\ EraseKnown' /\ DownEmpty'
  BY <1>1 DEF SecretInv, SecretKnown, StoredKnown, EraseKnown, DownEmpty, Live
<1>5. LiveKnown'
  <2>1. Live' = Live /\ \A m \in Live : m \in Nonces
    BY <1>1 DEF Live, AdminTypeOK
  <2>2. \A m \in Live : \A p \in net'[m] :
          signed[m] = active => Tried(p.request) \subseteq maybe'
    BY <2>1, <1>1, <1>2, <1>3 DEF SecretInv, LiveKnown
  <2> QED BY <2>1, <2>2, <1>1 DEF LiveKnown
<1>6. \A s \in Made : s \in Made'
  BY <1>1, <1>2 DEF Made
<1>7. Origin'
  BY <1>1, <1>6 DEF SecretInv, Origin
<1>8. Fresh'
  <2>1. Changes(q) => /\ New(q) # active /\ New(q) # stored
                      /\ \A m \in Nonces : New(q) # signed[m]
    BY <1>1, <1>3, Constants DEF SecretInv, Origin, Changes, New
  <2>2. \A m \in Nonces : \A p \in net'[m] : p \in net[m] \/ (m = n /\ p = q)
    BY <1>2
  <2> QED BY <2>1, <2>2, <1>1 DEF SecretInv, Fresh
<1>9. Unique'
  <2>1. \A m \in Nonces : \A p \in net[m] : Changes(p) => New(p) \in Made
    <3> SUFFICES ASSUME NEW m \in Nonces, NEW p \in net[m], Changes(p)
                 PROVE  New(p) \in Made
      OBVIOUS
    <3>1. p.request \in Requests  BY <1>1 DEF AdminTypeOK
    <3>2. New(p) \in Secrets  BY <3>1, RequestShape DEF Changes, New
    <3> QED BY <3>2, <1>1, Constants, MadeSecrets
  <2>2. \A m \in Nonces : \A p \in net'[m] : p \in net[m] \/ (m = n /\ p = q)
    BY <1>2
  <2>3. Changes(q) => New(q) \notin Made
    BY <1>1, <1>3 DEF Changes, New
  <2> QED BY <2>1, <2>2, <2>3 DEF SecretInv, Unique
<1> QED BY <1>4, <1>5, <1>7, <1>8, <1>9 DEF SecretInv

LEMMA PacketSecret ==
    ASSUME PoolInv, SecretInv, NEW n \in Nonces, HandlePacket(n)
    PROVE  SecretInv'
<1>1. AdminTypeOK /\ AdminTypeOK'
  BY PacketType DEF PoolInv
<1>2. PICK p \in net[n] :
         /\ signed[n] = active
         /\ pool' = Consumed(n, p.ip)
         /\ IF Hits(n, p.ip) # {}
            THEN acts' = [acts EXCEPT ![n] = @ + 1] /\ Perform(p.request)
            ELSE UNCHANGED <<acts, secretVars, maybe, phase>>
  BY DEF HandlePacket
<1>3. phase = "up" /\ UNCHANGED <<signed, net>> /\ p.request \in Requests
  BY <1>1 DEF HandlePacket, AdminTypeOK
<1> DEFINE hit == Hits(n, p.ip) # {}
<1>4. /\ \A m \in Live' : m \in Live /\ m \in Nonces
      /\ hit => n \in Live /\ n \notin Live' /\ acts[n] = 0
  BY <1>1, <1>2 DEF Live, Consumed, Hits, PoolInv, Unused, Nonces, Free, AdminTypeOK
<1>5. \A m \in Nonces : acts'[m] = IF m = n /\ hit THEN acts[m] + 1 ELSE acts[m]
  BY <1>1, <1>2 DEF AdminTypeOK
<1>6. Unique' /\ Made' = Made
  BY <1>3 DEF SecretInv, Unique, Made
<1>7. DownEmpty'
  <2>1. phase' # "down"
    BY <1>2, <1>3 DEF Perform, ChangeSecret
  <2> QED BY <2>1 DEF DownEmpty
<1>8. CASE hit /\ Changes(p)
  <2> DEFINE new == New(p)
  <2>1. /\ Perform(p.request) /\ new \in Secrets /\ new \in maybe
        /\ new # active /\ new # stored /\ \A m \in Nonces : new # signed[m]
    <3>1. Tried(p.request) = {new}  BY <1>8 DEF Tried, Changes, New
    <3> QED BY <3>1, <1>2, <1>3, <1>4, <1>8, RequestShape
            DEF SecretInv, LiveKnown, Fresh, Changes, New
  <2>2. ChangeSecret(new)
    BY <2>1, <1>8 DEF Perform, Changes, New
  <2>3. UNCHANGED <<nvsOk, phase>>  BY <2>2 DEF ChangeSecret
  <2>4. new \in Made
    BY <2>1, <1>1, Constants, MadeSecrets
  <2>5. \A m \in Nonces : \A q \in net[m] :
          Changes(q) /\ acts'[m] = 0 => acts[m] = 0 /\ New(q) # new
    BY <1>4, <1>5, <1>8 DEF SecretInv, Unique
  <2>6. CASE active' = new /\ stored' = new /\ maybe' \in {maybe, {new}}
    <3>1. SecretKnown' /\ StoredKnown' /\ EraseKnown'
      BY <2>1, <2>3, <2>6, <1>3, Constants DEF SecretKnown, StoredKnown, EraseKnown
    <3>2. LiveKnown'
      BY <2>1, <2>6, <1>3, <1>4 DEF LiveKnown
    <3>3. Fresh'
      BY <2>5, <2>6, <1>3 DEF SecretInv, Fresh
    <3>4. Origin'
      BY <2>4, <2>6, <1>3, <1>6 DEF SecretInv, Origin
    <3> QED BY <3>1, <3>2, <3>3, <3>4, <1>6, <1>7 DEF SecretInv
  <2>7. CASE stored' \in {stored, new} /\ UNCHANGED <<active, maybe>>
    <3>1. SecretKnown' /\ StoredKnown' /\ EraseKnown'
      BY <2>1, <2>3, <2>7, <1>3, Constants
         DEF SecretInv, SecretKnown, StoredKnown, EraseKnown
    <3>2. LiveKnown'
      BY <2>7, <1>3, <1>4 DEF SecretInv, LiveKnown
    <3>3. Fresh'
      BY <2>5, <2>7, <1>3 DEF SecretInv, Fresh
    <3>4. Origin'
      BY <2>4, <2>7, <1>3, <1>6 DEF SecretInv, Origin
    <3> QED BY <3>1, <3>2, <3>3, <3>4, <1>6, <1>7 DEF SecretInv
  <2> QED BY <2>2, <2>6, <2>7 DEF ChangeSecret
<1>9. CASE ~(hit /\ Changes(p))
  <2>1. UNCHANGED <<active, stored, nvsOk, maybe>>
    BY <1>2, <1>9 DEF Perform, Changes, secretVars
  <2>2. phase' = "erase" => Default \in maybe
    <3> SUFFICES ASSUME phase' = "erase" PROVE Default \in maybe
      OBVIOUS
    <3>1. hit /\ p.request.type = "FACTORY_RESET"
      BY <1>2, <1>3, <1>9 DEF Perform, Changes
    <3>2. Tried(p.request) = {Default}
      BY <3>1, <1>3, RequestShape DEF Tried
    <3> QED BY <3>1, <3>2, <1>2, <1>4 DEF SecretInv, LiveKnown
  <2>3. SecretKnown' /\ StoredKnown' /\ EraseKnown'
    BY <2>1, <2>2, <1>3 DEF SecretInv, SecretKnown, StoredKnown, EraseKnown
  <2>4. LiveKnown'
    BY <2>1, <1>3, <1>4 DEF SecretInv, LiveKnown
  <2>5. \A m \in Nonces : acts'[m] = 0 => acts[m] = 0
    BY <1>1, <1>5 DEF AdminTypeOK
  <2>6. Fresh' /\ Origin'
    BY <2>1, <2>5, <1>3, <1>6 DEF SecretInv, Fresh, Origin
  <2> QED BY <2>3, <2>4, <2>6, <1>6, <1>7 DEF SecretInv
<1> QED BY <1>8, <1>9

LEMMA DownSecret ==
    ASSUME AdminTypeOK, SecretInv, GoDown,
           stored' = stored \/ (phase = "erase" /\ stored' = Nothing)
    PROVE  SecretInv'
<1>1. /\ phase' = "down" /\ pool' = [s \in Slots |-> Free]
      /\ UNCHANGED <<acts, active, nvsOk, signed, net, maybe>>
  BY DEF GoDown, hostVars
<1>2. Live' = {}
  BY <1>1 DEF Live
<1>3. SecretKnown' /\ StoredKnown' /\ EraseKnown' /\ LiveKnown' /\ DownEmpty'
  BY <1>1, <1>2
     DEF SecretInv, SecretKnown, StoredKnown, EraseKnown, LiveKnown, DownEmpty
<1>4. Unique' /\ Made' = Made
  BY <1>1 DEF SecretInv, Unique, Made
<1>5. Origin'
  BY <1>1, <1>4 DEF SecretInv, Origin
<1>6. Fresh'
  <2>1. \A n \in Nonces : \A p \in net[n] : Changes(p) => New(p) # Nothing
    <3> SUFFICES ASSUME NEW n \in Nonces, NEW p \in net[n], Changes(p)
                 PROVE  New(p) # Nothing
      OBVIOUS
    <3>1. p.request \in Requests  BY DEF AdminTypeOK
    <3> QED BY <3>1, RequestShape, Constants DEF Changes, New
  <2> QED BY <2>1, <1>1 DEF SecretInv, Fresh
<1> QED BY <1>3, <1>4, <1>5, <1>6 DEF SecretInv

LEMMA BootSecret ==
    ASSUME AdminTypeOK, SecretInv, Boot
    PROVE  SecretInv'
<1>1. /\ phase = "down" /\ phase' = "up" /\ UNCHANGED <<pool, acts, signed, net>>
      /\ \/ /\ active' = Zeros /\ nvsOk' = FALSE
            /\ stored' \in {stored, Nothing}
            /\ maybe' = IF stored' = stored THEN maybe ELSE maybe \cup {Default}
         \/ /\ active' = Default /\ nvsOk' = TRUE
            /\ stored' \in {Default, Nothing, stored}
            /\ maybe' = IF stored = Nothing THEN maybe ELSE maybe \cup {Default}
         \/ /\ stored # Nothing /\ active' = stored /\ nvsOk' = TRUE
            /\ UNCHANGED <<stored, maybe>>
  BY DEF Boot, poolVars, Found
<1>2. Live' = {}
  BY <1>1 DEF SecretInv, DownEmpty, Live
<1>3. LiveKnown' /\ DownEmpty' /\ EraseKnown'
  BY <1>1, <1>2 DEF LiveKnown, DownEmpty, EraseKnown
<1>4. SecretKnown' /\ StoredKnown'
  BY <1>1, Constants DEF SecretInv, SecretKnown, StoredKnown
<1>5. Unique' /\ Made' = Made
  BY <1>1 DEF SecretInv, Unique, Made
<1>6. Origin'
  BY <1>1, <1>5 DEF SecretInv, Origin
<1>7. \A n \in Nonces : \A p \in net[n] :
        Changes(p) => New(p) # Nothing /\ New(p) # Default /\ New(p) # Zeros
  <2> SUFFICES ASSUME NEW n \in Nonces, NEW p \in net[n], Changes(p)
               PROVE  New(p) # Nothing /\ New(p) # Default /\ New(p) # Zeros
    OBVIOUS
  <2>1. p.request \in Requests  BY DEF AdminTypeOK
  <2> QED BY <2>1, RequestShape, Constants DEF Changes, New
<1>8. Fresh'
  BY <1>1, <1>7 DEF SecretInv, Fresh
<1> QED BY <1>3, <1>4, <1>5, <1>6, <1>8 DEF SecretInv

LEMMA SecretNext == PoolInv /\ SecretInv /\ [Next]_vars => SecretInv'
<1> SUFFICES ASSUME PoolInv, SecretInv, [Next]_vars PROVE SecretInv'
  OBVIOUS
<1>1. AdminTypeOK  BY DEF PoolInv
<1>2. CASE \E ip \in Ips : HandleChallenge(ip)  BY <1>2, ChallengeSecret
<1>3. CASE \E n \in Nonces : HandlePacket(n)  BY <1>3, PacketSecret
<1>4. CASE \E n \in Nonces, ip \in Ips, r \in Requests : SendRequest(n, ip, r)
  BY <1>4, SendSecret
<1>5. CASE Tick \/ UNCHANGED vars
  <2>1. UNCHANGED <<pool, acts, active, stored, nvsOk, signed, net, maybe, phase>>
    BY <1>5 DEF Tick, vars, poolVars, secretVars, hostVars
  <2>2. Live' = Live /\ Made' = Made
    BY <2>1 DEF Live, Made
  <2> QED BY <2>1, <2>2 DEF SecretInv, SecretKnown, StoredKnown, EraseKnown, LiveKnown,
                            DownEmpty, Fresh, Unique, Origin
<1>6. CASE PowerCut \/ Reboot \/ Erase
  BY <1>1, <1>6, DownSecret DEF PowerCut, Reboot, Erase
<1>7. CASE Boot  BY <1>1, <1>7, BootSecret
<1> QED BY <1>2, <1>3, <1>4, <1>5, <1>6, <1>7, Zenon DEF Next

\* A device whose NVS opened listens to a secret its administrators know of,
\* whatever answer was lost, write refused or restart came in between.
THEOREM DeviceStaysReachable == Spec => []SecretKnown
<1>1. SecretInv => SecretKnown  BY DEF SecretInv
<1>2. Spec => []SecretInv  BY SecretInit, SecretNext, PoolInvariance, PTL DEF Spec
<1> QED BY <1>1, <1>2, PTL

-----------------------------------------------------------------------------
(* AdminChannel implements NoncePermit. *)

Gone == (1..issued) \ Live

LEMMA LiveShape ==
    ASSUME PoolInv
    PROVE  /\ Live \subseteq Nonces /\ issued \in Nat
           /\ \A n \in Live : n \in 1..issued
           /\ \A n : n \in Live <=> n # Free /\ \E s \in Slots : pool[s] = n
<1>1. \A n : n \in Live <=> n # Free /\ \E s \in Slots : pool[s] = n
  BY DEF Live
<1>2. AdminTypeOK /\ Unused  BY DEF PoolInv
<1> QED BY <1>1, <1>2 DEF AdminTypeOK, Unused, Nonces, Free

\* Nonces leave the pool: they are withdrawn.
LEMMA WithdrawStep ==
    ASSUME PoolInv, issued' = issued, Live' \subseteq Live, UNCHANGED acts
    PROVE  Permit!Next
<1> DEFINE S == Live \ Live'
<1>1. S \in SUBSET Live  OBVIOUS
<1>2. Permit!Withdraw(S)
  <2>1. Live' = Live \ S  OBVIOUS
  <2>2. Gone' = Gone \cup S
    BY LiveShape DEF Gone
  <2> QED BY <2>1, <2>2 DEF Permit!Withdraw, Gone
<1> QED BY <1>1, <1>2 DEF Permit!Next

LEMMA IssueStep ==
    ASSUME PoolInv, NEW ip \in Ips, HandleChallenge(ip)
    PROVE  Permit!Next
<1> DEFINE new == issued + 1
           S == {pool[Victim]} \ {Free}
<1>1. /\ AdminTypeOK /\ Distinct /\ new \in Nonces /\ issued \in Nat /\ issued' = new
      /\ pool' = [pool EXCEPT ![Victim] = new] /\ UNCHANGED acts
  BY AdminAssumption DEF PoolInv, HandleChallenge, AdminTypeOK, Nonces, AdminAssumption
<1>2. Victim \in Slots  BY <1>1, VictimSlot
<1>3. \A s \in Slots : pool'[s] = IF s = Victim THEN new ELSE pool[s]
  BY <1>1, <1>2 DEF AdminTypeOK
<1>4. S \in SUBSET Live  BY <1>2 DEF Live
<1>5. new \notin Live /\ new # Free
  BY <1>1, LiveShape DEF Nonces, Free
<1>6. Live' = (Live \ S) \cup {new}
  <2>1. \A n : n \in Live' <=> n # Free /\ \E s \in Slots : pool'[s] = n
    BY DEF Live
  <2>2. \A n : n \in Live' => n \in (Live \ S) \cup {new}
    BY <2>1, <1>1, <1>2, <1>3, LiveShape DEF Distinct
  <2>3. \A n : n \in (Live \ S) => n \in Live'
    BY <2>1, <1>2, <1>3, LiveShape
  <2>4. new \in Live'
    BY <2>1, <1>2, <1>3, <1>5
  <2> QED BY <2>2, <2>3, <2>4
<1>7. Gone' = Gone \cup S
  <2>1. S \subseteq 1..issued  BY <1>4, LiveShape
  <2>2. 1..issued' = (1..issued) \cup {new} /\ new \notin 1..issued  BY <1>1
  <2>3. Gone' = (1..issued') \ Live'  BY DEF Gone
  <2> HIDE DEF new, S
  <2> QED BY <2>1, <2>2, <2>3, <1>4, <1>5, <1>6 DEF Gone
<1>8. new \notin Live \cup Gone
  BY <1>1, <1>5 DEF Gone
<1>9. Permit!Issue(new, S)
  BY <1>1, <1>4, <1>6, <1>7, <1>8 DEF Permit!Issue, Gone
<1> QED BY <1>1, <1>4, <1>9 DEF Permit!Next

LEMMA PacketStep ==
    ASSUME PoolInv, NEW n \in Nonces, HandlePacket(n)
    PROVE  Permit!Next
<1>1. PICK p \in net[n] :
         /\ pool' = Consumed(n, p.ip)
         /\ IF Hits(n, p.ip) # {}
            THEN acts' = [acts EXCEPT ![n] = @ + 1] /\ Perform(p.request)
            ELSE UNCHANGED <<acts, secretVars, maybe, phase>>
  BY DEF HandlePacket
<1>2. issued' = issued  BY DEF HandlePacket
<1>3. Live' \subseteq Live
  BY <1>1 DEF Live, Consumed
<1>4. CASE Hits(n, p.ip) = {}
  BY <1>1, <1>2, <1>3, <1>4, WithdrawStep
<1>5. CASE Hits(n, p.ip) # {}
  <2> DEFINE S == Live \ Live'
  <2>1. n \in Live /\ n \notin Live'
    BY <1>1, <1>5 DEF Live, Consumed, Hits, Nonces, Free, PoolInv, Distinct
  <2>2. S \in SUBSET Live /\ n \in S /\ Live' = Live \ S
    BY <1>3, <2>1
  <2>3. Gone' = Gone \cup S
    BY <1>2, <1>3, LiveShape DEF Gone
  <2>4. Permit!Act(n, S)
    BY <1>1, <1>5, <2>1, <2>2, <2>3 DEF Permit!Act, Gone
  <2> QED BY <2>2, <2>4 DEF Permit!Next
<1> QED BY <1>4, <1>5

LEMMA StepImplementsPermit ==
    PoolInv /\ [Next]_vars => [Permit!Next]_(Permit!permitVars)
<1> SUFFICES ASSUME PoolInv, [Next]_vars
             PROVE  Permit!Next \/ UNCHANGED <<Live, Gone, acts>>
  BY DEF Permit!permitVars, Gone
<1>1. CASE \E ip \in Ips : HandleChallenge(ip)  BY <1>1, IssueStep
<1>2. CASE \E n \in Nonces : HandlePacket(n)  BY <1>2, PacketStep
<1>3. CASE (\E n \in Nonces, ip \in Ips, r \in Requests : SendRequest(n, ip, r))
           \/ Tick \/ Boot \/ UNCHANGED vars
  <2>1. UNCHANGED <<pool, issued, acts>>
    BY <1>3 DEF SendRequest, Tick, Boot, poolVars, vars
  <2> QED BY <2>1 DEF Live, Gone
<1>4. CASE PowerCut \/ Reboot \/ Erase
  <2>1. GoDown  BY <1>4 DEF PowerCut, Reboot, Erase
  <2>2. Live' = {} /\ issued' = issued /\ UNCHANGED acts
    BY <2>1 DEF GoDown, Live
  <2> QED BY <2>2, WithdrawStep
<1> QED BY <1>1, <1>2, <1>3, <1>4, Zenon DEF Next

\* The pool of slots, with its evictions, expiries and restarts, is a set of
\* single-use permits.
THEOREM PermitRefinement == Spec => ImplementsPermit
<1>1. Init => Permit!Init
  BY DEF Init, Permit!Init, Live
<1>2. Spec => [][Permit!Next]_(Permit!permitVars)
  BY StepImplementsPermit, PoolInvariance, PTL DEF Spec
<1> QED BY <1>1, <1>2, PTL DEF Spec, ImplementsPermit, Permit!Spec
=============================================================================
