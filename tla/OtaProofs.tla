------------------------------ MODULE OtaProofs ------------------------------
(***************************************************************************)
(* Ota's safety properties, for every set of clients and images, every     *)
(* image and slot size, and every bound on sockets, retries and restarts.  *)
(***************************************************************************)
EXTENDS Ota, TLAPS, SequenceTheorems

SessionType == [open : BOOLEAN, image : Images, stale : BOOLEAN, owner : Sockets \cup {<<>>}]
ClientType == [pc : Pc, image : Images, off : 0..SlotSize, tries : 0..MaxTries,
               sock : 0..MaxSockets]
ChunkType == [from : Sockets, image : Images, off : 0..SlotSize]

SessionFits == session.open => Pieces[session.image] <= SlotSize
SessionUp   == session.open => phase = "app"
SocketOpen  == \A c \in Clients : client[c].pc \notin AtRest => client[c].sock # 0

\* OtaTypeOK with what its preservation needs.
TypeInv == OtaTypeOK /\ SessionFits /\ SessionUp /\ SocketOpen

-----------------------------------------------------------------------------
(* Types. *)

LEMMA ImagesOK ==
    /\ Factory \in Images /\ Factory \notin Broken
    /\ \A i \in Images : Pieces[i] \in Nat /\ Pieces[i] # 0
    /\ SlotSize \in Nat /\ Pieces[Factory] <= SlotSize
    /\ MaxTries \in Nat /\ MaxTries # 0 /\ MaxSockets \in Nat /\ MaxInbox \in Nat
    /\ MaxRestarts \in Nat
BY OtaAssumption DEF OtaAssumption

LEMMA WholeType ==
    ASSUME NEW i \in Images, Pieces[i] <= SlotSize
    PROVE  Whole(i) \in Seq(Images \X (0..SlotSize)) /\ Len(Whole(i)) = Pieces[i]
<1>1. Pieces[i] \in Nat /\ SlotSize \in Nat  BY ImagesOK
<1>2. \A k \in 1..Pieces[i] : <<i, k - 1>> \in Images \X (0..SlotSize)
  BY <1>1
<1>3. Whole(i) \in [1..Pieces[i] -> Images \X (0..SlotSize)]
  BY <1>2 DEF Whole
<1>4. Whole(i) \in Seq(Images \X (0..SlotSize))
  BY <1>1, <1>3, SeqDef
<1> QED BY <1>1, <1>3, <1>4, LenProperties

LEMMA TargetSlot ==
    ASSUME OtaTypeOK
    PROVE  Target \in Slots /\ Target # running /\ running \in Slots
BY DEF OtaTypeOK, Target, Other, Slots

LEMMA WrittenType ==
    ASSUME OtaTypeOK
    PROVE  /\ Written \in 0..SlotSize
           /\ session.open => Written = Len(flash[Target])
<1>1. flash[Target] \in Seq(Images \X (0..SlotSize)) /\ Len(flash[Target]) <= SlotSize
  BY TargetSlot DEF OtaTypeOK
<1>2. SlotSize \in Nat  BY ImagesOK
<1> QED BY <1>1, <1>2 DEF Written

LEMMA ClosedType == Closed \in SessionType /\ ~Closed.open
BY ImagesOK DEF Closed, SessionType

LEMMA SocketType ==
    ASSUME TypeInv, NEW c \in Clients, client[c].pc \notin AtRest
    PROVE  Me(c) \in Sockets
BY ImagesOK DEF TypeInv, OtaTypeOK, SocketOpen, Me, Sockets

LEMMA TypeInit == Init => TypeInv
<1> SUFFICES ASSUME Init PROVE TypeInv
  OBVIOUS
<1>1. session \in SessionType /\ ~session.open
  BY ClosedType DEF Init
<1>2. flash \in [Slots -> Seq(Images \X (0..SlotSize))]
      /\ \A s \in Slots : Len(flash[s]) <= SlotSize
  BY ImagesOK, WholeType DEF Init, Slots
<1>3. client \in [Clients -> ClientType] /\ \A c \in Clients : client[c].pc \in AtRest
  BY ImagesOK DEF Init, ClientType, Pc, AtRest, Op
<1>4. inbox \in [Clients -> Seq(Answers)] /\ cmds \in [Clients -> Seq(Requests)]
      /\ \A c \in Clients : Len(inbox[c]) <= MaxInbox
  BY ImagesOK DEF Init
<1>5. boot \in Slots /\ running \in Slots /\ phase = "app" /\ restarts \in 0..MaxRestarts
      /\ slotState \in [Slots -> {"EMPTY", "NEW", "PENDING", "VALID", "ABORTED"}]
  BY ImagesOK DEF Init, Slots
<1> QED BY <1>1, <1>2, <1>3, <1>4, <1>5
        DEF Init, TypeInv, OtaTypeOK, SessionFits, SessionUp, SocketOpen, SessionType, ClientType

-----------------------------------------------------------------------------
(* The clients' steps. *)

\* A step that leaves the device alone keeps its part of the type invariant.
LEMMA ClientTypes ==
    ASSUME TypeInv, UNCHANGED deviceVars,
           client' \in [Clients -> ClientType],
           \A c \in Clients : client'[c].pc \notin AtRest => client'[c].sock # 0,
           inbox' \in [Clients -> Seq(Answers)],
           \A c \in Clients : Len(inbox'[c]) <= MaxInbox,
           cmds' \in [Clients -> Seq(Requests)],
           chunks' \subseteq ChunkType
    PROVE  TypeInv'
BY DEF TypeInv, OtaTypeOK, SessionFits, SessionUp, SocketOpen, deviceVars, ClientType, ChunkType,
       Written, Target

LEMMA SendType ==
    ASSUME TypeInv, NEW c \in Clients, NEW type \in {"BEGIN", "END", "ABORT"},
           client'[c].sock \in 1..MaxSockets, client'[c].image \in Images,
           Send(c, type)
    PROVE  cmds' \in [Clients -> Seq(Requests)]
<1> DEFINE r == [type |-> type, sock |-> client'[c].sock, image |-> client'[c].image]
<1>1. r \in Requests  BY DEF Requests
<1>2. cmds' = [cmds EXCEPT ![c] = Append(@, r)]  BY DEF Send
<1> HIDE DEF r
<1> QED BY <1>1, <1>2 DEF TypeInv, OtaTypeOK

\* An operation of one client changes.
LEMMA OpType ==
    ASSUME TypeInv, NEW c \in Clients, NEW pc \in Pc, NEW i \in Images, NEW off \in 0..SlotSize,
           NEW tries \in 0..MaxTries, NEW sock \in 1..MaxSockets,
           client' = [client EXCEPT ![c] = Op(pc, i, off, tries, sock)]
    PROVE  /\ client' \in [Clients -> ClientType]
           /\ \A d \in Clients : client'[d].pc \notin AtRest => client'[d].sock # 0
<1>1. Op(pc, i, off, tries, sock) \in ClientType /\ Op(pc, i, off, tries, sock).sock # 0
  BY ImagesOK DEF Op, ClientType
<1> QED BY <1>1 DEF TypeInv, OtaTypeOK, SocketOpen, ClientType

\* The fields of a client's operation.
LEMMA OpFields ==
    ASSUME TypeInv, NEW c \in Clients
    PROVE  /\ client[c].pc \in Pc /\ client[c].image \in Images
           /\ client[c].off \in 0..SlotSize /\ client[c].tries \in 0..MaxTries
           /\ client[c].sock \in 0..MaxSockets
           /\ client[c].pc \notin AtRest => client[c].sock \in 1..MaxSockets
BY ImagesOK DEF TypeInv, OtaTypeOK, SocketOpen

LEMMA LeaveType ==
    ASSUME TypeInv, NEW c \in Clients, NEW pc \in AtRest, Leave(c, pc), UNCHANGED deviceVars
    PROVE  TypeInv'
<1>1. Op(pc, Factory, 0, 0, client[c].sock) \in ClientType
  BY ImagesOK, OpFields DEF Op, ClientType, Pc
<1>2. client' = [client EXCEPT ![c] = Op(pc, Factory, 0, 0, client[c].sock)]
  BY DEF Leave, TypeInv, OtaTypeOK
<1>3. /\ client' \in [Clients -> ClientType]
      /\ \A d \in Clients : client'[d].pc \notin AtRest => client'[d].sock # 0
  BY <1>1, <1>2 DEF TypeInv, OtaTypeOK, SocketOpen, ClientType, Op
<1>4. inbox' \in [Clients -> Seq(Answers)] /\ \A d \in Clients : Len(inbox'[d]) <= MaxInbox
  BY ImagesOK DEF TypeInv, OtaTypeOK, Leave
<1>5. UNCHANGED <<cmds, chunks>>  BY DEF Leave
<1> QED BY <1>3, <1>4, <1>5, ClientTypes DEF TypeInv, OtaTypeOK, ChunkType

LEMMA SendChunkType ==
    ASSUME TypeInv, NEW c \in Clients, client[c].pc \notin AtRest,
           NEW off \in 0..SlotSize, NEW tries \in 0..MaxTries, SendChunk(c, off, tries)
    PROVE  /\ client' \in [Clients -> ClientType]
           /\ \A d \in Clients : client'[d].pc \notin AtRest => client'[d].sock # 0
           /\ chunks' \subseteq ChunkType
<1>1. [from |-> Me(c), image |-> client[c].image, off |-> off] \in ChunkType
  BY SocketType, OpFields DEF ChunkType
<1>2. chunks' \subseteq ChunkType
  BY <1>1 DEF TypeInv, OtaTypeOK, SendChunk, ChunkType
<1>3. client' = [client EXCEPT ![c] =
                   Op("chunk", client[c].image, off, tries, client[c].sock)]
  BY DEF SendChunk, TypeInv, OtaTypeOK
<1>4. "chunk" \in Pc  BY DEF Pc, Waiting
<1> QED BY <1>2, <1>3, <1>4, OpFields, OpType

LEMMA StartType ==
    ASSUME TypeInv, NEW c \in Clients, NEW i \in Images,
           NEW pc \in {"begin", "abort"}, NEW type \in {"BEGIN", "ABORT"},
           Start(c, i, pc, type)
    PROVE  TypeInv'
<1>1. client[c].sock \in 0..MaxSockets /\ client[c].sock < MaxSockets
  BY DEF Start, TypeInv, OtaTypeOK
<1>2. client' = [client EXCEPT ![c] = Op(pc, i, 0, 0, client[c].sock + 1)]
  BY DEF Start, TypeInv, OtaTypeOK
<1>3. client[c].sock + 1 \in 1..MaxSockets  BY <1>1, ImagesOK
<1>4. client'[c].sock \in 1..MaxSockets /\ client'[c].image = i
  BY <1>2, <1>3 DEF TypeInv, OtaTypeOK, Op
<1>5. pc \in Pc  BY DEF Pc, Waiting
<1>6. /\ client' \in [Clients -> ClientType]
      /\ \A d \in Clients : client'[d].pc \notin AtRest => client'[d].sock # 0
  <2>1. 0 \in 0..SlotSize /\ 0 \in 0..MaxTries  BY ImagesOK
  <2> QED BY <1>2, <1>3, <1>5, <2>1, OpType
<1>7. cmds' \in [Clients -> Seq(Requests)]
  BY <1>4, SendType DEF Start
<1>8. inbox' \in [Clients -> Seq(Answers)] /\ \A d \in Clients : Len(inbox'[d]) <= MaxInbox
  BY ImagesOK DEF TypeInv, OtaTypeOK, Start
<1>9. UNCHANGED <<deviceVars, chunks>>  BY DEF Start
<1> QED BY <1>6, <1>7, <1>8, <1>9, ClientTypes DEF TypeInv, OtaTypeOK, ChunkType

LEMMA ReceiveType ==
    ASSUME TypeInv, NEW c \in Clients, Receive(c)
    PROVE  TypeInv'
<1> DEFINE answer == Head(inbox[c])
<1>1. client[c].pc \in Waiting /\ inbox[c] # <<>> /\ UNCHANGED deviceVars
  BY DEF Receive
<1>2. inbox[c] \in Seq(Answers) /\ answer \in Answers /\ client[c].pc \notin AtRest
  BY <1>1 DEF TypeInv, OtaTypeOK, Waiting, AtRest
<1>3. CASE \E pc \in {"failed", "applied"} : Leave(c, pc)
  BY <1>1, <1>3, LeaveType DEF AtRest
<1>4. CASE ~ \E pc \in {"failed", "applied"} : Leave(c, pc)
  <2>1. /\ \/ client[c].pc = "begin" /\ SendChunk(c, 0, 1)
           \/ client[c].pc = "chunk" /\ ChunkAccepted(c, answer)
        /\ inbox' = [inbox EXCEPT ![c] = Tail(@)]
        /\ UNCHANGED cmds
    BY <1>4 DEF Receive
  <2>2. inbox' \in [Clients -> Seq(Answers)] /\ \A d \in Clients : Len(inbox'[d]) <= MaxInbox
    BY <2>1, <1>1, <1>2, ImagesOK DEF TypeInv, OtaTypeOK
  <2>3. answer.written \in 0..SlotSize  BY <1>2 DEF Answers
  <2>4. 0 \in 0..SlotSize /\ 1 \in 0..MaxTries /\ 0 \in 0..MaxTries  BY ImagesOK
  <2>5. /\ client' \in [Clients -> ClientType]
        /\ \A d \in Clients : client'[d].pc \notin AtRest => client'[d].sock # 0
        /\ chunks' \subseteq ChunkType
    <3>1. CASE SendChunk(c, 0, 1)
      BY <3>1, <2>4, <1>2, SendChunkType
    <3>2. CASE SendChunk(c, answer.written, 1)
      BY <3>2, <2>3, <2>4, <1>2, SendChunkType
    <3>3. CASE /\ client' = [client EXCEPT ![c] =
                                Op("finish", client[c].image, answer.written, 0, client[c].sock)]
               /\ UNCHANGED chunks
      <4>1. "finish" \in Pc  BY DEF Pc
      <4>2. /\ client' \in [Clients -> ClientType]
            /\ \A d \in Clients : client'[d].pc \notin AtRest => client'[d].sock # 0
        BY <3>3, <4>1, <2>3, <2>4, <1>2, OpFields, OpType
      <4> QED BY <3>3, <4>2 DEF TypeInv, OtaTypeOK, ChunkType
    <3> QED BY <2>1, <3>1, <3>2, <3>3 DEF ChunkAccepted, NextOffset, TypeInv, OtaTypeOK
  <2> QED BY <1>1, <2>1, <2>2, <2>5, ClientTypes DEF TypeInv, OtaTypeOK
<1> QED BY <1>3, <1>4

LEMMA TimeoutType ==
    ASSUME TypeInv, NEW c \in Clients, Timeout(c)
    PROVE  TypeInv'
<1>1. client[c].pc \in Waiting /\ client[c].pc \notin AtRest /\ UNCHANGED deviceVars
  BY DEF Timeout, Waiting, AtRest
<1>2. CASE Leave(c, "failed")
  BY <1>1, <1>2, LeaveType DEF AtRest
<1>3. CASE ~Leave(c, "failed")
  <2>1. /\ client[c].tries < MaxTries /\ UNCHANGED <<inbox, cmds>>
        /\ SendChunk(c, client[c].off, client[c].tries + 1)
    BY <1>3 DEF Timeout
  <2>2. client[c].tries + 1 \in 0..MaxTries /\ client[c].off \in 0..SlotSize
    BY <2>1, ImagesOK DEF TypeInv, OtaTypeOK
  <2>3. /\ client' \in [Clients -> ClientType]
        /\ \A d \in Clients : client'[d].pc \notin AtRest => client'[d].sock # 0
        /\ chunks' \subseteq ChunkType
    BY <1>1, <2>1, <2>2, SendChunkType
  <2> QED BY <1>1, <2>1, <2>3, ClientTypes DEF TypeInv, OtaTypeOK
<1> QED BY <1>2, <1>3

LEMMA FinishType ==
    ASSUME TypeInv, NEW c \in Clients, Finish(c)
    PROVE  TypeInv'
<1>1. CASE Leave(c, "failed")
  BY <1>1, LeaveType DEF AtRest, Finish
<1>2. CASE ~Leave(c, "failed")
  <2>1. /\ client[c].pc = "finish" /\ Send(c, "END") /\ UNCHANGED <<inbox, chunks, deviceVars>>
        /\ client' = [client EXCEPT ![c] = Op("end", client[c].image, client[c].off,
                                              client[c].tries, client[c].sock)]
    BY <1>2 DEF Finish, TypeInv, OtaTypeOK
  <2>2. client[c].pc \notin AtRest /\ "end" \in Pc
    BY <2>1 DEF AtRest, Pc, Waiting
  <2>3. /\ client' \in [Clients -> ClientType]
        /\ \A d \in Clients : client'[d].pc \notin AtRest => client'[d].sock # 0
        /\ client'[c].sock \in 1..MaxSockets /\ client'[c].image \in Images
    <3>1. /\ client' \in [Clients -> ClientType]
          /\ \A d \in Clients : client'[d].pc \notin AtRest => client'[d].sock # 0
      BY <2>1, <2>2, OpFields, OpType
    <3>2. client'[c].sock = client[c].sock /\ client'[c].image = client[c].image
      BY <2>1 DEF TypeInv, OtaTypeOK, Op
    <3> QED BY <3>1, <3>2, <2>2, OpFields
  <2>4. cmds' \in [Clients -> Seq(Requests)]
    BY <2>1, <2>3, SendType
  <2> QED BY <2>1, <2>3, <2>4, ClientTypes DEF TypeInv, OtaTypeOK, ChunkType
<1> QED BY <1>1, <1>2

-----------------------------------------------------------------------------
(* The device's steps. *)

LEMMA DeviceTypes ==
    ASSUME TypeInv, UNCHANGED client, chunks' \subseteq ChunkType,
           session' \in SessionType, SessionFits', SessionUp',
           flash' \in [Slots -> Seq(Images \X (0..SlotSize))],
           \A s \in Slots : Len(flash'[s]) <= SlotSize,
           session'.open => Written' <= Pieces[session'.image],
           boot' \in Slots, running' \in Slots,
           slotState' \in [Slots -> {"EMPTY", "NEW", "PENDING", "VALID", "ABORTED"}],
           phase' \in {"cut", "reset", "booting", "app"}, restarts' \in 0..MaxRestarts,
           inbox' \in [Clients -> Seq(Answers)],
           \A c \in Clients : Len(inbox'[c]) <= MaxInbox,
           cmds' \in [Clients -> Seq(Requests)]
    PROVE  TypeInv'
BY DEF TypeInv, OtaTypeOK, SessionFits, SessionUp, SocketOpen, SessionType, ChunkType

LEMMA AnswerType ==
    ASSUME TypeInv, NEW to, to[1] \in Clients, NEW type \in {"BEGIN", "CHUNK", "END", "ABORT"},
           NEW ok \in BOOLEAN, NEW written \in 0..SlotSize, Answer(to, type, ok, written)
    PROVE  inbox' \in [Clients -> Seq(Answers)] /\ \A c \in Clients : Len(inbox'[c]) <= MaxInbox
<1> DEFINE a == [type |-> type, ok |-> ok, written |-> written]
<1>1. a \in Answers  BY DEF Answers
<1>2. CASE UNCHANGED inbox  BY <1>2 DEF TypeInv, OtaTypeOK
<1>3. CASE ~UNCHANGED inbox
  <2>1. Len(inbox[to[1]]) < MaxInbox /\ inbox' = [inbox EXCEPT ![to[1]] = Append(@, a)]
    BY <1>3 DEF Answer
  <2> HIDE DEF a
  <2>2. inbox[to[1]] \in Seq(Answers)  BY DEF TypeInv, OtaTypeOK
  <2>3. Append(inbox[to[1]], a) \in Seq(Answers)
        /\ Len(Append(inbox[to[1]], a)) <= MaxInbox
    BY <1>1, <2>1, <2>2, ImagesOK
  <2>4. \A c \in Clients : inbox'[c] = IF c = to[1] THEN Append(inbox[to[1]], a) ELSE inbox[c]
    BY <2>1 DEF TypeInv, OtaTypeOK
  <2> QED BY <2>1, <2>3, <2>4 DEF TypeInv, OtaTypeOK
<1> QED BY <1>2, <1>3

\* A command that arrives came from a socket.
LEMMA ArrivesType ==
    ASSUME TypeInv, NEW c \in Clients, cmds[c] # <<>>,
           cmds' = [cmds EXCEPT ![c] = Tail(@)]
    PROVE  /\ Head(cmds[c]) \in Requests
           /\ From(c) \in Sockets /\ From(c)[1] = c
           /\ cmds' \in [Clients -> Seq(Requests)]
<1>1. Head(cmds[c]) \in Requests /\ Tail(cmds[c]) \in Seq(Requests)
  BY DEF TypeInv, OtaTypeOK
<1> QED BY <1>1 DEF TypeInv, OtaTypeOK, From, Sockets, Requests

\* The slot written to is erased, or left as it is.
LEMMA ErasedType ==
    ASSUME TypeInv, flash' = [flash EXCEPT ![Target] = <<>>]
    PROVE  /\ flash' \in [Slots -> Seq(Images \X (0..SlotSize))]
           /\ \A s \in Slots : Len(flash'[s]) <= SlotSize
           /\ flash'[Target] = <<>>
<1>1. SlotSize \in Nat  BY ImagesOK
<1>2. \A s \in Slots : flash'[s] = IF s = Target THEN <<>> ELSE flash[s]
  BY TargetSlot DEF TypeInv, OtaTypeOK
<1>3. flash' \in [Slots -> Seq(Images \X (0..SlotSize))]
  <2>1. <<>> \in Seq(Images \X (0..SlotSize))  BY EmptySeq
  <2>2. flash \in [Slots -> Seq(Images \X (0..SlotSize))]  BY DEF TypeInv, OtaTypeOK
  <2> QED BY <2>1, <2>2
<1> QED BY <1>1, <1>2, <1>3, TargetSlot DEF TypeInv, OtaTypeOK

LEMMA BeginType ==
    ASSUME TypeInv, NEW c \in Clients, HandleBegin(c)
    PROVE  TypeInv'
<1> DEFINE i == Head(cmds[c]).image
<1>1. /\ cmds[c] # <<>> /\ cmds' = [cmds EXCEPT ![c] = Tail(@)]
      /\ UNCHANGED <<boot, running, phase, restarts, client, chunks, slotState>>
      /\ phase = "app"
  BY DEF HandleBegin, Arrives
<1>2. /\ i \in Images /\ From(c) \in Sockets /\ From(c)[1] = c
      /\ cmds' \in [Clients -> Seq(Requests)]
  BY <1>1, ArrivesType DEF Requests
<1>3. inbox' \in [Clients -> Seq(Answers)] /\ \A d \in Clients : Len(inbox'[d]) <= MaxInbox
  <2>1. \E ok \in BOOLEAN : Answer(From(c), "BEGIN", ok, 0)
    BY DEF HandleBegin
  <2>2. 0 \in 0..SlotSize  BY ImagesOK
  <2> QED BY <2>1, <2>2, <1>2, AnswerType
<1>4. UNCHANGED Target  BY <1>1 DEF Target
<1>5. CASE UNCHANGED <<session, flash>>
  <2>1. Written' = Written  BY <1>4, <1>5 DEF Written
  <2> QED BY <1>1, <1>2, <1>3, <1>5, <2>1, DeviceTypes
          DEF TypeInv, OtaTypeOK, SessionType, SessionFits, SessionUp, ChunkType
<1>6. CASE session' = Closed /\ flash' \in {flash, [flash EXCEPT ![Target] = <<>>]}
  <2>1. /\ flash' \in [Slots -> Seq(Images \X (0..SlotSize))]
        /\ \A s \in Slots : Len(flash'[s]) <= SlotSize
    BY <1>6, ErasedType DEF TypeInv, OtaTypeOK
  <2>2. session' \in SessionType /\ ~session'.open
    BY <1>6, ClosedType
  <2> QED BY <1>1, <1>2, <1>3, <2>1, <2>2, DeviceTypes
          DEF TypeInv, OtaTypeOK, SessionFits, SessionUp, ChunkType
<1>7. CASE /\ Fits(i) /\ flash' = [flash EXCEPT ![Target] = <<>>]
           /\ session' = [open |-> TRUE, image |-> i, stale |-> FALSE, owner |-> From(c)]
  <2>1. /\ flash' \in [Slots -> Seq(Images \X (0..SlotSize))]
        /\ \A s \in Slots : Len(flash'[s]) <= SlotSize
        /\ flash'[Target] = <<>>
    BY <1>7, ErasedType
  <2>2. session' \in SessionType /\ session'.image = i /\ session'.open
    BY <1>2, <1>7 DEF SessionType
  <2>3. Written' = 0
    BY <1>4, <2>1, <2>2 DEF Written
  <2>4. SessionFits' /\ Written' <= Pieces[session'.image]
    BY <1>2, <1>7, <2>2, <2>3, ImagesOK DEF SessionFits, Fits
  <2> QED BY <1>1, <1>2, <1>3, <2>1, <2>2, <2>4, DeviceTypes
          DEF TypeInv, OtaTypeOK, SessionUp, ChunkType
<1> QED BY <1>5, <1>6, <1>7 DEF HandleBegin

\* What a chunk does to the slot and the session.
LEMMA ChunkEffect ==
    ASSUME TypeInv, NEW p \in chunks, HandleChunk(p)
    PROVE  /\ p \in ChunkType
           /\ UNCHANGED <<boot, slotState, running, phase, restarts, client, cmds, chunks>>
           /\ phase = "app"
           /\ \/ UNCHANGED <<session, flash>>
              \/ UNCHANGED flash /\ session' = Closed
              \/ /\ session.open /\ p.off = Written /\ p.off < Pieces[session.image]
                 /\ flash' = [flash EXCEPT ![Target] = Append(@, <<p.image, p.off>>)]
                 /\ session' = [session EXCEPT !.stale = FALSE]
           /\ inbox' \in [Clients -> Seq(Answers)]
           /\ \A c \in Clients : Len(inbox'[c]) <= MaxInbox
<1>1. p \in ChunkType  BY DEF TypeInv, OtaTypeOK, ChunkType
<1>2. \E ok \in BOOLEAN, w \in 0..SlotSize : Answer(p.from, "CHUNK", ok, w)
  <2>1. 0 \in 0..SlotSize /\ Written \in 0..SlotSize
    BY ImagesOK, WrittenType DEF TypeInv
  <2>2. session.open /\ Extends(p) => Written + 1 \in 0..SlotSize
    BY <2>1, ImagesOK DEF Extends, TypeInv, SessionFits, OtaTypeOK
  <2> QED BY <2>1, <2>2 DEF HandleChunk, RepeatChunk, RefuseChunk, WriteChunk
<1>3. p.from[1] \in Clients  BY <1>1 DEF ChunkType, Sockets
<1>4. inbox' \in [Clients -> Seq(Answers)] /\ \A c \in Clients : Len(inbox'[c]) <= MaxInbox
  BY <1>2, <1>3, AnswerType
<1> QED BY <1>1, <1>4
        DEF HandleChunk, RepeatChunk, RefuseChunk, WriteChunk, Extends

\* A chunk extends the slot by one place.
LEMMA ExtendedFlash ==
    ASSUME TypeInv, NEW p \in ChunkType, session.open, p.off = Written,
           p.off < Pieces[session.image],
           flash' = [flash EXCEPT ![Target] = Append(@, <<p.image, p.off>>)]
    PROVE  /\ flash' \in [Slots -> Seq(Images \X (0..SlotSize))]
           /\ \A s \in Slots : s # Target => flash'[s] = flash[s]
           /\ flash'[Target] = Append(flash[Target], <<p.image, p.off>>)
           /\ Len(flash'[Target]) = Written + 1 /\ Written + 1 <= SlotSize
<1> DEFINE q == <<p.image, p.off>>
<1>1. q \in Images \X (0..SlotSize)  BY DEF ChunkType
<1>2. /\ Target \in Slots /\ Written = Len(flash[Target]) /\ Written \in Nat
      /\ flash[Target] \in Seq(Images \X (0..SlotSize))
  <2>1. OtaTypeOK  BY DEF TypeInv
  <2>2. Target \in Slots /\ Written \in 0..SlotSize /\ Written = Len(flash[Target])
    BY <2>1, TargetSlot, WrittenType
  <2> QED BY <2>1, <2>2, ImagesOK DEF OtaTypeOK
<1>3. Written + 1 <= SlotSize
  <2>1. session.image \in Images /\ Pieces[session.image] <= SlotSize
    BY DEF TypeInv, OtaTypeOK, SessionFits
  <2>2. Pieces[session.image] \in Nat /\ SlotSize \in Nat  BY <2>1, ImagesOK
  <2>3. Written < Pieces[session.image]  OBVIOUS
  <2> QED BY <2>1, <2>2, <2>3, <1>2
<1> HIDE DEF q
<1>4. Append(flash[Target], q) \in Seq(Images \X (0..SlotSize))
      /\ Len(Append(flash[Target], q)) = Written + 1
  BY <1>1, <1>2
<1>5. flash' = [flash EXCEPT ![Target] = Append(flash[Target], q)]
  BY <1>2 DEF q, TypeInv, OtaTypeOK
<1>6. \A s \in Slots : flash'[s] = IF s = Target THEN Append(flash[Target], q) ELSE flash[s]
  BY <1>5 DEF TypeInv, OtaTypeOK
<1>7. flash' \in [Slots -> Seq(Images \X (0..SlotSize))]
  BY <1>4, <1>5 DEF TypeInv, OtaTypeOK
<1>8. \A s \in Slots : s # Target => flash'[s] = flash[s]
  BY <1>6
<1>9. flash'[Target] = Append(flash[Target], q)
  BY <1>2, <1>6
<1>10. Len(flash'[Target]) = Written + 1
  BY <1>4, <1>9
<1> QED BY <1>3, <1>7, <1>8, <1>9, <1>10 DEF q

LEMMA ChunkHandled ==
    ASSUME TypeInv, NEW p \in chunks, HandleChunk(p)
    PROVE  TypeInv'
<1>1. /\ p \in ChunkType
      /\ UNCHANGED <<boot, slotState, running, phase, restarts, client, cmds, chunks>>
      /\ phase = "app"
      /\ inbox' \in [Clients -> Seq(Answers)] /\ \A c \in Clients : Len(inbox'[c]) <= MaxInbox
  BY ChunkEffect
<1>2. UNCHANGED Target  BY <1>1 DEF Target
<1>3. CASE UNCHANGED <<session, flash>>
  <2>1. Written' = Written  BY <1>2, <1>3 DEF Written
  <2> QED BY <1>1, <1>3, <2>1, DeviceTypes
          DEF TypeInv, OtaTypeOK, SessionType, SessionFits, SessionUp, ChunkType
<1>4. CASE UNCHANGED flash /\ session' = Closed
  <2>1. session' \in SessionType /\ ~session'.open  BY <1>4, ClosedType
  <2> QED BY <1>1, <1>4, <2>1, DeviceTypes
          DEF TypeInv, OtaTypeOK, SessionFits, SessionUp, ChunkType
<1>5. CASE /\ session.open /\ p.off = Written /\ p.off < Pieces[session.image]
           /\ flash' = [flash EXCEPT ![Target] = Append(@, <<p.image, p.off>>)]
           /\ session' = [session EXCEPT !.stale = FALSE]
  <2>1. /\ flash' \in [Slots -> Seq(Images \X (0..SlotSize))]
        /\ \A s \in Slots : s # Target => flash'[s] = flash[s]
        /\ Len(flash'[Target]) = Written + 1 /\ Written + 1 <= SlotSize
    BY <1>1, <1>5, ExtendedFlash
  <2>2. \A s \in Slots : Len(flash'[s]) <= SlotSize
    BY <2>1 DEF TypeInv, OtaTypeOK
  <2>3. /\ session' \in SessionType /\ session'.open /\ session'.image = session.image
    BY <1>5 DEF TypeInv, OtaTypeOK, SessionType
  <2>4. Written' = Written + 1 /\ Written' <= Pieces[session'.image]
    BY <1>2, <1>5, <2>1, <2>3, WrittenType, ImagesOK DEF Written, TypeInv, OtaTypeOK
  <2>5. SessionFits'
    BY <1>5, <2>3 DEF TypeInv, SessionFits
  <2> QED BY <1>1, <2>1, <2>2, <2>3, <2>4, <2>5, DeviceTypes
          DEF TypeInv, OtaTypeOK, SessionUp, ChunkType
<1> QED BY <1>3, <1>4, <1>5, ChunkEffect

LEMMA EndType ==
    ASSUME TypeInv, NEW c \in Clients, HandleEnd(c)
    PROVE  TypeInv'
<1>1. /\ cmds[c] # <<>> /\ cmds' = [cmds EXCEPT ![c] = Tail(@)] /\ session' = Closed
      /\ UNCHANGED <<flash, running, phase, restarts, client, chunks>>
      /\ boot' \in {boot, Target}
      /\ \/ slotState' = [slotState EXCEPT ![Target] = "NEW"]
         \/ UNCHANGED slotState
      /\ \E ok \in BOOLEAN : Answer(From(c), "END", ok, 0)
  BY DEF HandleEnd
<1>2. From(c)[1] = c /\ cmds' \in [Clients -> Seq(Requests)]
  BY <1>1, ArrivesType
<1>3. inbox' \in [Clients -> Seq(Answers)] /\ \A d \in Clients : Len(inbox'[d]) <= MaxInbox
  <2>1. 0 \in 0..SlotSize  BY ImagesOK
  <2> QED BY <1>1, <1>2, <2>1, AnswerType
<1>4. session' \in SessionType /\ ~session'.open  BY <1>1, ClosedType
<1>5. boot' \in Slots
      /\ slotState' \in [Slots -> {"EMPTY", "NEW", "PENDING", "VALID", "ABORTED"}]
  BY <1>1, TargetSlot DEF TypeInv, OtaTypeOK
<1> QED BY <1>1, <1>2, <1>3, <1>4, <1>5, DeviceTypes
        DEF TypeInv, OtaTypeOK, SessionFits, SessionUp, ChunkType

LEMMA AbortType ==
    ASSUME TypeInv, NEW c \in Clients, HandleAbort(c)
    PROVE  TypeInv'
<1>1. /\ cmds[c] # <<>> /\ cmds' = [cmds EXCEPT ![c] = Tail(@)] /\ session' = Closed
      /\ UNCHANGED <<flash, boot, slotState, running, phase, restarts, client, chunks>>
      /\ Answer(From(c), "ABORT", TRUE, 0)
  BY DEF HandleAbort, Arrives
<1>2. From(c)[1] = c /\ cmds' \in [Clients -> Seq(Requests)]
  BY <1>1, ArrivesType
<1>3. inbox' \in [Clients -> Seq(Answers)] /\ \A d \in Clients : Len(inbox'[d]) <= MaxInbox
  <2>1. 0 \in 0..SlotSize  BY ImagesOK
  <2> QED BY <1>1, <1>2, <2>1, AnswerType
<1>4. session' \in SessionType /\ ~session'.open  BY <1>1, ClosedType
<1> QED BY <1>1, <1>2, <1>3, <1>4, DeviceTypes
        DEF TypeInv, OtaTypeOK, SessionFits, SessionUp, ChunkType

LEMMA StaleType ==
    ASSUME TypeInv, GoStale
    PROVE  TypeInv'
<1>1. /\ session' = [session EXCEPT !.stale = TRUE] /\ session.open
      /\ UNCHANGED <<flash, boot, slotState, running, phase, restarts, client, inbox, cmds,
                     chunks>>
  BY DEF GoStale
<1>2. session' \in SessionType /\ session'.open /\ session'.image = session.image
  BY <1>1 DEF TypeInv, OtaTypeOK, SessionType
<1>3. Written' = Written  BY <1>1, <1>2 DEF Written, Target
<1> QED BY <1>1, <1>2, <1>3, DeviceTypes DEF TypeInv, OtaTypeOK, SessionFits, SessionUp, ChunkType

LEMMA LoseType ==
    ASSUME TypeInv, NEW c \in Clients, LoseCommand(c)
    PROVE  TypeInv'
<1>1. cmds' \in [Clients -> Seq(Requests)]
  BY ArrivesType DEF LoseCommand
<1> QED BY <1>1, ClientTypes DEF LoseCommand, TypeInv, OtaTypeOK, SocketOpen, ClientType,
                                 ChunkType

LEMMA RestartType ==
    ASSUME TypeInv, NEW cause \in {"cut", "reset"}, Restart(cause)
    PROVE  TypeInv'
<1>1. session' \in SessionType /\ ~session'.open
  BY ClosedType DEF Restart
<1>2. restarts' \in 0..MaxRestarts
  BY ImagesOK DEF Restart, TypeInv, OtaTypeOK
<1>3. cmds' \in [Clients -> Seq(Requests)]
  BY DEF Restart
<1> QED BY <1>1, <1>2, <1>3, DeviceTypes
        DEF Restart, TypeInv, OtaTypeOK, SessionFits, SessionUp, ChunkType

LEMMA BootTypes ==
    ASSUME TypeInv, Bootloader \/ ConfirmApp \/ CrashEarly
    PROVE  TypeInv'
<1>1. UNCHANGED <<session, flash, restarts, client, inbox, cmds, chunks>>
  BY DEF Bootloader, ConfirmApp, CrashEarly
<1>2. boot' \in Slots /\ running' \in Slots /\ phase' \in {"cut", "reset", "booting", "app"}
  <2>1. BootSlot \in Slots
    BY DEF TypeInv, OtaTypeOK, BootSlot, Other, Slots
  <2> QED BY <2>1 DEF Bootloader, ConfirmApp, CrashEarly, TypeInv, OtaTypeOK
<1>3. slotState' \in [Slots -> {"EMPTY", "NEW", "PENDING", "VALID", "ABORTED"}]
  BY DEF Bootloader, ConfirmApp, CrashEarly, TypeInv, OtaTypeOK
<1>4. session' \in SessionType /\ ~session'.open
  BY <1>1 DEF Bootloader, ConfirmApp, CrashEarly, TypeInv, OtaTypeOK, SessionUp, SessionType
<1> QED BY <1>1, <1>2, <1>3, <1>4, DeviceTypes
        DEF TypeInv, OtaTypeOK, SessionFits, SessionUp, ChunkType

LEMMA TypeNext == TypeInv /\ [Next]_vars => TypeInv'
<1> SUFFICES ASSUME TypeInv, [Next]_vars PROVE TypeInv'
  OBVIOUS
<1>1. ASSUME NEW c \in Clients, Update(c) \/ Abort(c) PROVE TypeInv'
  BY <1>1, StartType, ImagesOK DEF Update, Abort
<1>2. ASSUME NEW c \in Clients, ClientStep(c) PROVE TypeInv'
  BY <1>2, ReceiveType, TimeoutType, FinishType DEF ClientStep
<1>3. ASSUME NEW c \in Clients, Commands(c) PROVE TypeInv'
  BY <1>3, BeginType, EndType, AbortType, LoseType DEF Commands
<1>4. ASSUME NEW p \in chunks, HandleChunk(p) PROVE TypeInv'
  BY <1>4, ChunkHandled
<1>5. CASE GoStale  BY <1>5, StaleType
<1>6. CASE PowerCut \/ HandleReboot  BY <1>6, RestartType DEF PowerCut, HandleReboot
<1>7. CASE Bootloader \/ ConfirmApp \/ CrashEarly  BY <1>7, BootTypes
<1>8. CASE UNCHANGED vars
  BY <1>8, ClientTypes DEF vars, TypeInv, OtaTypeOK, SocketOpen, ClientType, ChunkType
<1> QED BY <1>1, <1>2, <1>3, <1>4, <1>5, <1>6, <1>7, <1>8, Zenon DEF Next

THEOREM TypeInvariance == Spec => []TypeInv
BY TypeInit, TypeNext, PTL DEF Spec

\* Whatever the network does, what is written stays within the slot and the
\* image announced, and every variable keeps its type.
THEOREM OtaTypeCorrect == Spec => []OtaTypeOK
<1>1. TypeInv => OtaTypeOK  BY DEF TypeInv
<1> QED BY <1>1, TypeInvariance, PTL

-----------------------------------------------------------------------------
(* The slots.  A slot is good when its image is complete, sound and        *)
(* confirmed.  The app runs from a good slot, or from one still to be      *)
(* confirmed, and then esp_ota_begin refuses: a good slot is never the     *)
(* one that is written.                                                    *)

Good(s) == slotState[s] = "VALID" /\ \E i \in Images \ Broken : flash[s] = Whole(i)

RunsSafe ==
    /\ phase = "app" => Good(running) \/ slotState[running] = "PENDING"
    /\ session.open => Good(running)
    /\ phase = "booting" => Complete(running)

SlotInv == NeverBricked /\ RunsSafe /\ WrittenInPlace

LEMMA GoodSlot == NeverBricked <=> \E s \in Slots : Good(s)
BY DEF NeverBricked, Good

LEMMA SlotInit == Init => SlotInv
<1> SUFFICES ASSUME Init PROVE SlotInv
  OBVIOUS
<1>1. 0 \in Slots /\ Good(0)
  BY ImagesOK DEF Init, Good, Slots
<1>2. NeverBricked  BY <1>1, GoodSlot
<1>3. RunsSafe  BY <1>1, ClosedType DEF Init, RunsSafe
<1>4. WrittenInPlace
  <2>1. \A s \in Slots : flash[s] = Whole(Factory) \/ flash[s] = <<>>
    BY DEF Init
  <2>2. Len(Whole(Factory)) = Pieces[Factory]  BY ImagesOK, WholeType
  <2>3. \A k \in 1..Pieces[Factory] : Whole(Factory)[k][2] = k - 1
    BY DEF Whole
  <2>4. Len(<<>>) = 0  OBVIOUS
  <2> QED BY <2>1, <2>2, <2>3, <2>4 DEF WrittenInPlace
<1> QED BY <1>2, <1>3, <1>4 DEF SlotInv

\* A step of the app that writes the other slot only, with a good one running.
LEMMA AppStep ==
    ASSUME TypeInv, SlotInv, phase = "app",
           UNCHANGED <<running, phase>>,
           flash'[running] = flash[running], slotState'[running] = slotState[running],
           \/ Good(running)
           \/ UNCHANGED <<flash, slotState>>,
           session'.open => session.open \/ slotState[running] # "PENDING"
    PROVE  NeverBricked' /\ RunsSafe'
<1>1. running \in Slots  BY TargetSlot DEF TypeInv
<1>2. Good(running) => Good(running)'  BY DEF Good
<1>3. NeverBricked'
  <2>1. CASE Good(running)  BY <2>1, <1>1, <1>2, GoodSlot DEF NeverBricked, Good
  <2>2. CASE ~Good(running)  BY <2>2 DEF SlotInv, NeverBricked
  <2> QED BY <2>1, <2>2
<1>4. RunsSafe'
  BY <1>2 DEF SlotInv, RunsSafe
<1> QED BY <1>3, <1>4

LEMMA BeginSlots ==
    ASSUME TypeInv, SlotInv, NEW c \in Clients, HandleBegin(c)
    PROVE  SlotInv'
<1>1. /\ phase = "app" /\ UNCHANGED <<running, phase, slotState>>
      /\ \/ UNCHANGED flash
         \/ /\ flash' = [flash EXCEPT ![Target] = <<>>]
            /\ slotState[running] # "PENDING"
      /\ session'.open => session.open \/ slotState[running] # "PENDING"
  BY ClosedType DEF HandleBegin, Arrives
<1>2. flash'[running] = flash[running]
  BY <1>1, TargetSlot DEF TypeInv, OtaTypeOK
<1>3. NeverBricked' /\ RunsSafe'
  BY <1>1, <1>2, AppStep DEF SlotInv, RunsSafe
<1>4. WrittenInPlace'
  <2>1. \A s \in Slots : flash'[s] = flash[s] \/ flash'[s] = <<>>
    BY <1>1, TargetSlot DEF TypeInv, OtaTypeOK
  <2>2. Len(<<>>) = 0  OBVIOUS
  <2> QED BY <2>1, <2>2 DEF SlotInv, WrittenInPlace
<1> QED BY <1>3, <1>4 DEF SlotInv

LEMMA ChunkSlots ==
    ASSUME TypeInv, SlotInv, NEW p \in chunks, HandleChunk(p)
    PROVE  SlotInv'
<1>1. /\ p \in ChunkType /\ phase = "app" /\ UNCHANGED <<running, phase, slotState>>
      /\ \/ UNCHANGED <<session, flash>>
         \/ UNCHANGED flash /\ session' = Closed
         \/ /\ session.open /\ p.off = Written /\ p.off < Pieces[session.image]
            /\ flash' = [flash EXCEPT ![Target] = Append(@, <<p.image, p.off>>)]
            /\ session' = [session EXCEPT !.stale = FALSE]
  BY ChunkEffect
<1>2. flash'[running] = flash[running]
  BY <1>1, TargetSlot DEF TypeInv, OtaTypeOK
<1>3. session'.open => session.open
  BY <1>1, ClosedType DEF TypeInv, OtaTypeOK
<1>4. NeverBricked' /\ RunsSafe'
  BY <1>1, <1>2, <1>3, AppStep DEF SlotInv, RunsSafe
<1>5. WrittenInPlace'
  <2>1. CASE UNCHANGED flash  BY <2>1 DEF SlotInv, WrittenInPlace
  <2>2. CASE /\ session.open /\ p.off = Written /\ p.off < Pieces[session.image]
             /\ flash' = [flash EXCEPT ![Target] = Append(@, <<p.image, p.off>>)]
    <3>1. /\ \A s \in Slots : s # Target => flash'[s] = flash[s]
          /\ flash'[Target] = Append(flash[Target], <<p.image, p.off>>)
          /\ Len(flash'[Target]) = Written + 1
      BY <1>1, <2>2, ExtendedFlash
    <3>2. flash[Target] \in Seq(Images \X (0..SlotSize)) /\ Written = Len(flash[Target])
      BY <2>2, TargetSlot, WrittenType DEF TypeInv, OtaTypeOK
    <3>3. \A k \in 1..(Written + 1) :
            flash'[Target][k] = IF k = Written + 1 THEN <<p.image, p.off>>
                                ELSE flash[Target][k]
      BY <3>1, <3>2
    <3>4. \A k \in 1..(Written + 1) : flash'[Target][k][2] = k - 1
      <4> SUFFICES ASSUME NEW k \in 1..(Written + 1)
                   PROVE  flash'[Target][k][2] = k - 1
        OBVIOUS
      <4>1. CASE k = Written + 1
        <5>1. flash'[Target][k] = <<p.image, p.off>>  BY <4>1, <3>3
        <5>2. Written \in Nat  BY <3>2
        <5> QED BY <4>1, <5>1, <5>2, <2>2
      <4>2. CASE k # Written + 1
        <5>1. k \in 1..Len(flash[Target])  BY <4>2, <3>2
        <5>2. flash'[Target][k] = flash[Target][k]  BY <4>2, <3>3
        <5> QED BY <5>1, <5>2, TargetSlot DEF SlotInv, WrittenInPlace, TypeInv
      <4> QED BY <4>1, <4>2
    <3> QED BY <3>1, <3>4 DEF SlotInv, WrittenInPlace
  <2> QED BY <1>1, <2>1, <2>2
<1> QED BY <1>4, <1>5 DEF SlotInv

LEMMA EndSlots ==
    ASSUME TypeInv, SlotInv, NEW c \in Clients, HandleEnd(c)
    PROVE  SlotInv'
<1>1. /\ phase = "app" /\ UNCHANGED <<running, phase, flash>> /\ ~session'.open
      /\ \/ session.open /\ slotState' = [slotState EXCEPT ![Target] = "NEW"]
         \/ UNCHANGED slotState
  BY ClosedType DEF HandleEnd
<1>2. slotState'[running] = slotState[running]
  BY <1>1, TargetSlot DEF TypeInv, OtaTypeOK
<1>3. NeverBricked' /\ RunsSafe'
  BY <1>1, <1>2, AppStep DEF SlotInv, RunsSafe
<1> QED BY <1>1, <1>3 DEF SlotInv, WrittenInPlace

LEMMA BootSlots ==
    ASSUME TypeInv, SlotInv, Bootloader \/ ConfirmApp \/ CrashEarly
    PROVE  SlotInv'
<1>1. UNCHANGED <<session, flash>> /\ ~session.open
  BY DEF Bootloader, ConfirmApp, CrashEarly, TypeInv, SessionUp
<1>2. PICK s \in Slots : Good(s)
  BY GoodSlot DEF SlotInv
<1>3. Complete(s)
  BY <1>2 DEF Good, Complete
<1>4. CASE Bootloader
  <2>1. slotState'[s] = "VALID"
    BY <1>2, <1>4 DEF Bootloader, Good
  <2>2. Good(s)'  BY <2>1, <1>1, <1>2 DEF Good
  <2>3. Complete(BootSlot)
    BY <1>2, <1>3 DEF BootSlot, Good, Other, Slots, TypeInv, OtaTypeOK
  <2>4. Complete(running)' /\ phase' = "booting"
    BY <2>3, <1>1, <1>4 DEF Bootloader, Complete
  <2>5. NeverBricked'  BY <2>2 DEF NeverBricked, Good
  <2> QED BY <2>4, <2>5, <1>1 DEF SlotInv, RunsSafe, WrittenInPlace
<1>5. CASE ConfirmApp
  <2>1. running \in Slots /\ UNCHANGED running /\ phase = "booting" /\ ~RunsBroken
        /\ \/ slotState' = [slotState EXCEPT ![running] = "VALID"]
           \/ slotState[running] = "PENDING" /\ UNCHANGED slotState
    BY <1>5 DEF ConfirmApp, TypeInv, OtaTypeOK
  <2>2. Good(s)'
    BY <2>1, <1>1, <1>2 DEF Good, TypeInv, OtaTypeOK
  <2>3. Good(running)' \/ slotState'[running'] = "PENDING"
    <3>1. \E i \in Images \ Broken : flash[running] = Whole(i)
      BY <2>1 DEF SlotInv, RunsSafe, Complete, RunsBroken
    <3> QED BY <2>1, <3>1, <1>1 DEF Good, TypeInv, OtaTypeOK
  <2>4. NeverBricked'  BY <2>2 DEF NeverBricked, Good
  <2>5. phase' = "app"  BY <1>5 DEF ConfirmApp
  <2> QED BY <2>3, <2>4, <2>5, <1>1 DEF SlotInv, RunsSafe, WrittenInPlace
<1>6. CASE CrashEarly
  <2>1. UNCHANGED <<slotState, running>> /\ phase' = "reset"
    BY <1>6 DEF CrashEarly
  <2> QED BY <2>1, <1>1 DEF SlotInv, NeverBricked, RunsSafe, WrittenInPlace
<1> QED BY <1>4, <1>5, <1>6

\* Steps that leave the slots alone.
LEMMA StillSlots ==
    ASSUME SlotInv, UNCHANGED <<flash, slotState, running>>,
           session'.open => session.open,
           phase' \in {phase, "cut", "reset"}
    PROVE  SlotInv'
BY DEF SlotInv, NeverBricked, RunsSafe, WrittenInPlace, Good, Complete

LEMMA SlotNext == TypeInv /\ SlotInv /\ [Next]_vars => SlotInv'
<1> SUFFICES ASSUME TypeInv, SlotInv, [Next]_vars PROVE SlotInv'
  OBVIOUS
<1>1. CASE UNCHANGED deviceVars
  BY <1>1, StillSlots DEF deviceVars
<1>2. ASSUME NEW c \in Clients, Update(c) \/ Abort(c) \/ ClientStep(c) \/ LoseCommand(c)
      PROVE  SlotInv'
  <2>1. UNCHANGED deviceVars
    BY <1>2 DEF Update, Abort, Start, ClientStep, Receive, Timeout, Finish, LoseCommand
  <2> QED BY <1>1, <2>1
<1>3. ASSUME NEW c \in Clients, Commands(c) PROVE SlotInv'
  <2>1. CASE HandleAbort(c)
    <3>1. UNCHANGED <<flash, slotState, running, phase>> /\ ~session'.open
      BY <2>1, ClosedType DEF HandleAbort, Arrives
    <3> QED BY <3>1, StillSlots
  <2> QED BY <1>2, <1>3, <2>1, BeginSlots, EndSlots DEF Commands
<1>4. ASSUME NEW p \in chunks, HandleChunk(p) PROVE SlotInv'
  BY <1>4, ChunkSlots
<1>5. CASE GoStale \/ PowerCut \/ HandleReboot
  <2>1. UNCHANGED <<flash, slotState, running>> /\ phase' \in {phase, "cut", "reset"}
        /\ (session'.open => session.open)
    BY <1>5, ClosedType DEF GoStale, PowerCut, HandleReboot, Restart
  <2> QED BY <2>1, StillSlots
<1>6. CASE Bootloader \/ ConfirmApp \/ CrashEarly  BY <1>6, BootSlots
<1>7. CASE UNCHANGED vars  BY <1>1, <1>7 DEF vars
<1> QED BY <1>2, <1>3, <1>4, <1>5, <1>6, <1>7, Zenon DEF Next

THEOREM SlotInvariance == Spec => []SlotInv
BY SlotInit, SlotNext, TypeInvariance, PTL DEF Spec

\* A chunk sent twice, late or out of order is never written out of its place.
THEOREM EveryPieceInPlace == Spec => []WrittenInPlace
<1>1. SlotInv => WrittenInPlace  BY DEF SlotInv
<1> QED BY <1>1, SlotInvariance, PTL

\* Whatever is pushed, and wherever the power goes away, a confirmed, complete
\* image is left to boot.
THEOREM AlwaysBootable == Spec => []NeverBricked
<1>1. SlotInv => NeverBricked  BY DEF SlotInv
<1> QED BY <1>1, SlotInvariance, PTL

-----------------------------------------------------------------------------
(* The session and its client.  A client's commands are in the order of    *)
(* its sockets, one BEGIN per socket, and a session is opened by the BEGIN *)
(* of its owner's socket: before that BEGIN is consumed, nothing about the *)
(* operation is in the network, and after it no other BEGIN of that socket *)
(* can open a session.                                                     *)

CmdsOrdered(c) ==
    \A k \in 1..Len(cmds[c]) :
      /\ cmds[c][k].sock <= client[c].sock
      /\ cmds[c][k].type = "BEGIN" => \A j \in 1..(k - 1) : cmds[c][j].sock < cmds[c][k].sock

OwnerFirst(c) ==
    \A s \in 1..MaxSockets :
      session.owner = <<c, s>>
        => /\ s <= client[c].sock
           /\ \A k \in 1..Len(cmds[c]) : cmds[c][k].type = "BEGIN" => s < cmds[c][k].sock

BeginPending(c) ==
    \A k \in 1..Len(cmds[c]) :
      cmds[c][k].type = "BEGIN" /\ cmds[c][k].sock = client[c].sock /\ client[c].pc \notin AtRest
        => /\ cmds[c][k].image = client[c].image /\ client[c].pc = "begin"
           /\ inbox[c] = <<>>
           /\ \A p \in chunks : p.from # Me(c)

Owns(c) == session.open /\ session.owner = Me(c) /\ client[c].pc \notin AtRest

Agrees(c) ==
    Owns(c) => /\ session.image = client[c].image
               /\ client[c].pc \in {"chunk", "finish"} => client[c].off <= Written
               /\ \A k \in 1..Len(inbox[c]) :
                    inbox[c][k].type = "CHUNK" => inbox[c][k].written <= Written

ChunksSent(c) == \A p \in chunks, s \in 1..MaxSockets : p.from = <<c, s>> => s <= client[c].sock

Link(c) ==
    CmdsOrdered(c) /\ OwnerFirst(c) /\ BeginPending(c) /\ Agrees(c) /\ ChunksSent(c)

LinkInv == \A c \in Clients : Link(c)

LEMMA LinkInit == Init => LinkInv
<1> SUFFICES ASSUME Init, NEW c \in Clients PROVE Link(c)
  BY DEF LinkInv
<1>1. cmds[c] = <<>> /\ chunks = {} /\ session = Closed
  BY DEF Init
<1>2. Len(cmds[c]) = 0  BY <1>1
<1>3. session.owner = <<>> /\ ~session.open  BY <1>1 DEF Closed
<1> QED BY <1>1, <1>2, <1>3
        DEF Link, CmdsOrdered, OwnerFirst, BeginPending, Agrees, ChunksSent, Owns

\* What a client does concerns no other client.
LEMMA OtherClient ==
    ASSUME TypeInv, LinkInv, NEW c \in Clients, NEW d \in Clients, d # c,
           UNCHANGED deviceVars,
           client'[d] = client[d], inbox'[d] = inbox[d], cmds'[d] = cmds[d],
           \A p \in chunks' : p \in chunks \/ p.from[1] = c
    PROVE  Link(d)'
<1>1. Link(d)  BY DEF LinkInv
<1>2. Written' = Written /\ Me(d)' = Me(d) /\ Me(d)[1] = d
  BY DEF deviceVars, Written, Target, Me
<1>3. CmdsOrdered(d)'  BY <1>1 DEF Link, CmdsOrdered
<1>4. OwnerFirst(d)'  BY <1>1 DEF Link, OwnerFirst, deviceVars
<1>5. \A p \in chunks' : p.from[1] = d => p \in chunks
  OBVIOUS
<1>6. BeginPending(d)'  BY <1>1, <1>2, <1>5 DEF Link, BeginPending
<1>7. Agrees(d)'  BY <1>1, <1>2 DEF Link, Agrees, Owns, deviceVars
<1>8. \A s : <<d, s>>[1] = d  OBVIOUS
<1>9. ChunksSent(d)'  BY <1>1, <1>5, <1>8 DEF Link, ChunksSent
<1> QED BY <1>3, <1>4, <1>6, <1>7, <1>9 DEF Link

LEMMA LeaveLink ==
    ASSUME TypeInv, LinkInv, NEW c \in Clients, NEW pc \in AtRest,
           Leave(c, pc), UNCHANGED deviceVars
    PROVE  LinkInv'
<1>1. Link(c)  BY DEF LinkInv
<1>2. /\ client' = [client EXCEPT ![c] = Op(pc, Factory, 0, 0, client[c].sock)]
      /\ inbox' = [inbox EXCEPT ![c] = <<>>] /\ UNCHANGED <<cmds, chunks>>
  BY DEF Leave, TypeInv, OtaTypeOK
<1>3. client'[c].pc \in AtRest /\ client'[c].sock = client[c].sock
  BY <1>2 DEF TypeInv, OtaTypeOK, Op
<1>4. Link(c)'
  BY <1>1, <1>2, <1>3
     DEF Link, CmdsOrdered, OwnerFirst, BeginPending, Agrees, ChunksSent, Owns, deviceVars
<1>5. ASSUME NEW d \in Clients, d # c PROVE Link(d)'
  <2>1. client'[d] = client[d] /\ inbox'[d] = inbox[d]
    BY <1>2, <1>5 DEF TypeInv, OtaTypeOK
  <2> QED BY <2>1, <1>2, <1>5, OtherClient
<1> QED BY <1>4, <1>5 DEF LinkInv

\* A command is appended behind the others.
LEMMA Appended ==
    ASSUME TypeInv, NEW c \in Clients, NEW r \in Requests,
           cmds' = [cmds EXCEPT ![c] = Append(@, r)]
    PROVE  /\ Len(cmds'[c]) = Len(cmds[c]) + 1 /\ Len(cmds[c]) \in Nat
           /\ cmds'[c][Len(cmds[c]) + 1] = r
           /\ \A k \in 1..Len(cmds[c]) : cmds'[c][k] = cmds[c][k] /\ cmds[c][k] \in Requests
           /\ \A d \in Clients : d # c => cmds'[d] = cmds[d]
<1>1. cmds[c] \in Seq(Requests)  BY DEF TypeInv, OtaTypeOK
<1>2. cmds'[c] = Append(cmds[c], r)  BY DEF TypeInv, OtaTypeOK
<1>3. \A d \in Clients : d # c => cmds'[d] = cmds[d]  BY DEF TypeInv, OtaTypeOK
<1>4. \A k \in 1..Len(cmds[c]) : cmds[c][k] \in Requests
  BY <1>1, ElementOfSeq
<1> QED BY <1>1, <1>2, <1>3, <1>4

LEMMA StartLink ==
    ASSUME TypeInv, LinkInv, NEW c \in Clients, NEW i \in Images, NEW pc, NEW type,
           \/ pc = "begin" /\ type = "BEGIN"
           \/ pc = "abort" /\ type = "ABORT",
           Start(c, i, pc, type)
    PROVE  LinkInv'
<1> DEFINE sock == client[c].sock + 1
           r == [type |-> type, sock |-> sock, image |-> i]
           n == Len(cmds[c])
<1>1. /\ client' = [client EXCEPT ![c] = Op(pc, i, 0, 0, sock)]
      /\ inbox' = [inbox EXCEPT ![c] = <<>>]
      /\ Send(c, type) /\ UNCHANGED <<deviceVars, chunks>>
  BY DEF Start, TypeInv, OtaTypeOK
<1>2. client'[c] = Op(pc, i, 0, 0, sock) /\ inbox'[c] = <<>>
  BY <1>1 DEF TypeInv, OtaTypeOK
<1>3. /\ client'[c].pc = pc /\ client'[c].sock = sock /\ client'[c].image = i
      /\ pc \notin {"chunk", "finish"}
  BY <1>2 DEF Op
<1>4. sock \in 1..MaxSockets /\ client[c].sock \in Nat
  BY OpFields, ImagesOK DEF Start
<1>5. r \in Requests  BY <1>4 DEF Requests
<1>6. cmds' = [cmds EXCEPT ![c] = Append(@, r)]
  BY <1>1, <1>3 DEF Send
<1>7. /\ Len(cmds'[c]) = n + 1 /\ n \in Nat /\ cmds'[c][n + 1] = r
      /\ \A k \in 1..n : cmds'[c][k] = cmds[c][k] /\ cmds[c][k] \in Requests
      /\ \A d \in Clients : d # c => cmds'[d] = cmds[d]
  BY <1>5, <1>6, Appended, Zenon
<1> HIDE DEF r
<1>8. \A k \in 1..n : cmds[c][k].sock \in Nat /\ cmds[c][k].sock < sock
  <2> SUFFICES ASSUME NEW k \in 1..n
               PROVE  cmds[c][k].sock \in Nat /\ cmds[c][k].sock < sock
    OBVIOUS
  <2>1. cmds[c][k].sock \in 1..MaxSockets  BY <1>7 DEF Requests
  <2>2. cmds[c][k].sock <= client[c].sock  BY DEF LinkInv, Link, CmdsOrdered
  <2> QED BY <2>1, <2>2, <1>4
<1>9. r.type = type /\ r.sock = sock /\ r.image = i  BY DEF r
<1>10. \A k \in 1..(n + 1) : k \in 1..n \/ k = n + 1  BY <1>7
<1>11. CmdsOrdered(c)'
  <2> SUFFICES ASSUME NEW k \in 1..(n + 1)
               PROVE  /\ cmds'[c][k].sock <= sock
                      /\ cmds'[c][k].type = "BEGIN"
                           => \A j \in 1..(k - 1) : cmds'[c][j].sock < cmds'[c][k].sock
    BY <1>3, <1>7 DEF CmdsOrdered
  <2>1. CASE k \in 1..n
    <3>1. \A j \in 1..(k - 1) : j \in 1..n  BY <2>1, <1>7
    <3>2. cmds'[c][k] = cmds[c][k] /\ \A j \in 1..(k - 1) : cmds'[c][j] = cmds[c][j]
      BY <2>1, <3>1, <1>7
    <3>3. cmds[c][k].type = "BEGIN" => \A j \in 1..(k - 1) : cmds[c][j].sock < cmds[c][k].sock
      BY <2>1 DEF LinkInv, Link, CmdsOrdered
    <3>4. cmds[c][k].sock <= sock  BY <2>1, <1>4, <1>8
    <3> QED BY <3>2, <3>3, <3>4
  <2>2. CASE k = n + 1
    <3>1. \A j \in 1..(k - 1) : j \in 1..n  BY <2>2, <1>7
    <3> QED BY <2>2, <3>1, <1>4, <1>7, <1>8, <1>9
  <2> QED BY <2>1, <2>2, <1>10
<1>12. OwnerFirst(c)'
  <2> SUFFICES ASSUME NEW s \in 1..MaxSockets, session.owner = <<c, s>>
               PROVE  /\ s <= sock
                      /\ \A k \in 1..(n + 1) : cmds'[c][k].type = "BEGIN" => s < cmds'[c][k].sock
    BY <1>1, <1>3, <1>7 DEF OwnerFirst, deviceVars
  <2>1. s <= client[c].sock
        /\ \A k \in 1..n : cmds[c][k].type = "BEGIN" => s < cmds[c][k].sock
    BY DEF LinkInv, Link, OwnerFirst
  <2>2. s < sock  BY <2>1, <1>4
  <2>3. ASSUME NEW k \in 1..(n + 1), cmds'[c][k].type = "BEGIN" PROVE s < cmds'[c][k].sock
    <3>1. CASE k \in 1..n  BY <2>1, <2>3, <3>1, <1>7
    <3>2. CASE k = n + 1  BY <2>2, <3>2, <1>7, <1>9
    <3> QED BY <3>1, <3>2, <1>10
  <2> QED BY <2>2, <2>3, <1>4
<1>13. ChunksSent(c)'
  BY <1>1, <1>3, <1>4 DEF LinkInv, Link, ChunksSent
<1>14. BeginPending(c)'
  <2>1. Me(c)' = <<c, sock>>  BY <1>3 DEF Me
  <2>2. \A p \in chunks : p.from # <<c, sock>>
    BY <1>4 DEF LinkInv, Link, ChunksSent
  <2>3. \A k \in 1..(n + 1) :
          cmds'[c][k].type = "BEGIN" /\ cmds'[c][k].sock = sock
            => cmds'[c][k].image = i /\ pc = "begin"
    BY <1>4, <1>7, <1>8, <1>9, <1>10
  <2> QED BY <2>1, <2>2, <2>3, <1>1, <1>2, <1>3, <1>7 DEF BeginPending
<1>15. ~Owns(c)'
  <2>1. session.owner # <<c, sock>>
    BY <1>4 DEF LinkInv, Link, OwnerFirst
  <2> QED BY <2>1, <1>1, <1>3 DEF Owns, Me, deviceVars
<1>16. Link(c)'
  BY <1>11, <1>12, <1>13, <1>14, <1>15 DEF Link, Agrees
<1>17. ASSUME NEW d \in Clients, d # c PROVE Link(d)'
  <2>1. client'[d] = client[d] /\ inbox'[d] = inbox[d] /\ cmds'[d] = cmds[d]
    BY <1>1, <1>7, <1>17 DEF TypeInv, OtaTypeOK
  <2> QED BY <2>1, <1>1, <1>17, OtherClient
<1> QED BY <1>16, <1>17 DEF LinkInv

\* A client moves on within its session, having heard that `off' is written.
LEMMA MoveLink ==
    ASSUME TypeInv, LinkInv, NEW c \in Clients, NEW pc \in {"chunk", "finish"},
           NEW off \in 0..SlotSize, NEW tries,
           client[c].pc \notin AtRest,
           client[c].pc # "begin" \/ inbox[c] # <<>>,
           Owns(c) => off <= Written,
           client' = [client EXCEPT ![c] = Op(pc, client[c].image, off, tries, client[c].sock)],
           inbox' \in [Clients -> Seq(Answers)],
           \A d \in Clients : d # c => inbox'[d] = inbox[d],
           \A a \in {inbox'[c][k] : k \in 1..Len(inbox'[c])} :
             \E k \in 1..Len(inbox[c]) : a = inbox[c][k],
           \A p \in chunks' : p \in chunks \/ p.from = Me(c),
           UNCHANGED <<deviceVars, cmds>>
    PROVE  LinkInv'
<1>1. /\ client'[c].pc = pc /\ client'[c].sock = client[c].sock
      /\ client'[c].image = client[c].image /\ client'[c].off = off
      /\ \A d \in Clients : d # c => client'[d] = client[d]
  BY DEF TypeInv, OtaTypeOK, Op
<1>2. Link(c)  BY DEF LinkInv
<1>3. Me(c)' = Me(c) /\ Me(c) = <<c, client[c].sock>> /\ Me(c)[1] = c
  BY <1>1 DEF Me
<1>4. \A k \in 1..Len(cmds[c]) :
        ~(cmds[c][k].type = "BEGIN" /\ cmds[c][k].sock = client[c].sock)
  BY <1>2 DEF Link, BeginPending
<1>5. CmdsOrdered(c)' /\ OwnerFirst(c)' /\ BeginPending(c)'
  BY <1>1, <1>2, <1>4 DEF Link, CmdsOrdered, OwnerFirst, BeginPending, deviceVars
<1>6. ChunksSent(c)'
  <2> SUFFICES ASSUME NEW p \in chunks', NEW s \in 1..MaxSockets, p.from = <<c, s>>
               PROVE  s <= client[c].sock
    BY <1>1 DEF ChunksSent
  <2>1. CASE p \in chunks  BY <2>1, <1>2 DEF Link, ChunksSent
  <2>2. CASE p.from = Me(c)
    <3>1. s = client[c].sock  BY <2>2, <1>3
    <3> QED BY <3>1, OpFields
  <2> QED BY <2>1, <2>2
<1>7. Agrees(c)'
  <2>1. Owns(c)' => Owns(c)
    BY <1>3 DEF Owns, deviceVars
  <2>2. Written' = Written /\ session' = session
    BY DEF deviceVars, Written, Target
  <2>3. Owns(c) => \A k \in 1..Len(inbox'[c]) :
                     inbox'[c][k].type = "CHUNK" => inbox'[c][k].written <= Written
    BY <1>2 DEF Link, Agrees
  <2>4. Owns(c) => session.image = client[c].image
    BY <1>2 DEF Link, Agrees
  <2> QED BY <2>1, <2>2, <2>3, <2>4, <1>1 DEF Agrees
<1>8. ASSUME NEW d \in Clients, d # c PROVE Link(d)'
  BY <1>1, <1>3, <1>8, OtherClient
<1> QED BY <1>5, <1>6, <1>7, <1>8 DEF Link, LinkInv

LEMMA ReceiveLink ==
    ASSUME TypeInv, LinkInv, NEW c \in Clients, Receive(c)
    PROVE  LinkInv'
<1> DEFINE answer == Head(inbox[c])
<1>1. /\ client[c].pc \in Waiting /\ client[c].pc \notin AtRest /\ inbox[c] # <<>>
      /\ UNCHANGED deviceVars
  BY DEF Receive, Waiting, AtRest
<1>2. /\ inbox[c] \in Seq(Answers) /\ answer \in Answers /\ Tail(inbox[c]) \in Seq(Answers)
      /\ 1 \in 1..Len(inbox[c]) /\ answer = inbox[c][1]
      /\ Len(Tail(inbox[c])) = Len(inbox[c]) - 1
      /\ \A k \in 1..Len(Tail(inbox[c])) :
           k + 1 \in 1..Len(inbox[c]) /\ Tail(inbox[c])[k] = inbox[c][k + 1]
  BY <1>1 DEF TypeInv, OtaTypeOK
<1>3. CASE \E pc \in {"failed", "applied"} : Leave(c, pc)
  BY <1>1, <1>3, LeaveLink DEF AtRest
<1>4. CASE ~ \E pc \in {"failed", "applied"} : Leave(c, pc)
  <2>1. /\ \/ client[c].pc = "begin" /\ SendChunk(c, 0, 1)
           \/ client[c].pc = "chunk" /\ ChunkAccepted(c, answer) /\ answer.type = "CHUNK"
        /\ inbox' = [inbox EXCEPT ![c] = Tail(@)]
        /\ UNCHANGED cmds
    BY <1>4 DEF Receive, Expects
  <2>2. /\ inbox' \in [Clients -> Seq(Answers)]
        /\ inbox'[c] = Tail(inbox[c])
        /\ \A d \in Clients : d # c => inbox'[d] = inbox[d]
    BY <2>1, <1>2 DEF TypeInv, OtaTypeOK
  <2>3. \A a \in {inbox'[c][k] : k \in 1..Len(inbox'[c])} :
          \E k \in 1..Len(inbox[c]) : a = inbox[c][k]
    BY <1>2, <2>2
  <2>4. answer.written \in 0..SlotSize /\ 0 \in 0..SlotSize /\ 0 <= Written
    BY <1>2, ImagesOK, WrittenType DEF Answers, TypeInv
  <2>5. client[c].pc = "chunk" /\ answer.type = "CHUNK" /\ Owns(c) => answer.written <= Written
    BY <1>2 DEF LinkInv, Link, Agrees
  <2>6. ASSUME NEW off \in 0..SlotSize, SendChunk(c, off, 1)
        PROVE  /\ client' = [client EXCEPT ![c] =
                               Op("chunk", client[c].image, off, 1, client[c].sock)]
               /\ \A p \in chunks' : p \in chunks \/ p.from = Me(c)
    BY <2>6 DEF SendChunk, TypeInv, OtaTypeOK
  <2>7. CASE client[c].pc = "begin" /\ SendChunk(c, 0, 1)
    BY <2>1, <2>2, <2>3, <2>4, <2>6, <2>7, <1>1, MoveLink
  <2>8. CASE client[c].pc = "chunk" /\ SendChunk(c, answer.written, 1) /\ answer.type = "CHUNK"
    BY <2>1, <2>2, <2>3, <2>4, <2>5, <2>6, <2>8, <1>1, MoveLink
  <2>9. CASE /\ client[c].pc = "chunk" /\ answer.type = "CHUNK" /\ UNCHANGED chunks
             /\ client' = [client EXCEPT ![c] =
                             Op("finish", client[c].image, answer.written, 0, client[c].sock)]
    BY <2>1, <2>2, <2>3, <2>4, <2>5, <2>9, <1>1, MoveLink
  <2> QED BY <2>1, <2>7, <2>8, <2>9 DEF ChunkAccepted, NextOffset, TypeInv, OtaTypeOK
<1> QED BY <1>3, <1>4

LEMMA TimeoutLink ==
    ASSUME TypeInv, LinkInv, NEW c \in Clients, Timeout(c)
    PROVE  LinkInv'
<1>1. UNCHANGED deviceVars  BY DEF Timeout
<1>2. CASE Leave(c, "failed")
  BY <1>1, <1>2, LeaveLink DEF AtRest
<1>3. CASE ~Leave(c, "failed")
  <2>1. /\ client[c].pc = "chunk" /\ UNCHANGED <<inbox, cmds>>
        /\ SendChunk(c, client[c].off, client[c].tries + 1)
    BY <1>3 DEF Timeout
  <2>2. /\ client' = [client EXCEPT ![c] = Op("chunk", client[c].image, client[c].off,
                                              client[c].tries + 1, client[c].sock)]
        /\ \A p \in chunks' : p \in chunks \/ p.from = Me(c)
    BY <2>1 DEF SendChunk, TypeInv, OtaTypeOK
  <2>3. client[c].pc \notin AtRest /\ client[c].off \in 0..SlotSize
        /\ (Owns(c) => client[c].off <= Written)
    BY <2>1, OpFields DEF LinkInv, Link, Agrees, AtRest
  <2>4. \A a \in {inbox'[c][k] : k \in 1..Len(inbox'[c])} :
          \E k \in 1..Len(inbox[c]) : a = inbox[c][k]
    BY <2>1
  <2>5. inbox' \in [Clients -> Seq(Answers)]
    BY <2>1 DEF TypeInv, OtaTypeOK
  <2> QED BY <1>1, <2>1, <2>2, <2>3, <2>4, <2>5, MoveLink
<1> QED BY <1>2, <1>3

LEMMA FinishLink ==
    ASSUME TypeInv, LinkInv, NEW c \in Clients, Finish(c)
    PROVE  LinkInv'
<1>1. UNCHANGED deviceVars  BY DEF Finish
<1>2. CASE Leave(c, "failed")
  BY <1>1, <1>2, LeaveLink DEF AtRest
<1>3. CASE ~Leave(c, "failed")
  <2> DEFINE r == [type |-> "END", sock |-> client[c].sock, image |-> client[c].image]
             n == Len(cmds[c])
  <2>1. /\ client[c].pc = "finish" /\ Send(c, "END") /\ UNCHANGED <<inbox, chunks>>
        /\ client' = [client EXCEPT ![c] = Op("end", client[c].image, client[c].off,
                                              client[c].tries, client[c].sock)]
    BY <1>3 DEF Finish, TypeInv, OtaTypeOK
  <2>2. /\ client'[c].pc = "end" /\ client'[c].sock = client[c].sock
        /\ client'[c].image = client[c].image
        /\ \A d \in Clients : d # c => client'[d] = client[d]
    BY <2>1 DEF TypeInv, OtaTypeOK, Op
  <2>3. client[c].pc \notin AtRest /\ client[c].sock \in 1..MaxSockets
    BY <2>1, OpFields DEF AtRest
  <2>4. r \in Requests  BY <2>3, OpFields DEF Requests
  <2>5. cmds' = [cmds EXCEPT ![c] = Append(@, r)]
    BY <2>1, <2>2 DEF Send
  <2>6. /\ Len(cmds'[c]) = n + 1 /\ n \in Nat /\ cmds'[c][n + 1] = r
        /\ \A k \in 1..n : cmds'[c][k] = cmds[c][k] /\ cmds[c][k] \in Requests
        /\ \A d \in Clients : d # c => cmds'[d] = cmds[d]
    BY <2>4, <2>5, Appended, Zenon
  <2>7. r.type = "END" /\ r.sock = client[c].sock  OBVIOUS
  <2> HIDE DEF r
  <2>8. Link(c)  BY DEF LinkInv
  <2>9. \A k \in 1..(n + 1) :
          /\ cmds'[c][k].sock <= client[c].sock
          /\ cmds'[c][k].type = "BEGIN" => k \in 1..n /\ cmds'[c][k] = cmds[c][k]
    BY <2>3, <2>6, <2>7, <2>8 DEF Link, CmdsOrdered
  <2>10. CmdsOrdered(c)'
    <3> SUFFICES ASSUME NEW k \in 1..(n + 1), cmds'[c][k].type = "BEGIN",
                        NEW j \in 1..(k - 1)
                 PROVE  cmds'[c][j].sock < cmds'[c][k].sock
      BY <2>2, <2>6, <2>9 DEF CmdsOrdered
    <3>1. k \in 1..n /\ cmds'[c][k] = cmds[c][k]  BY <2>9
    <3>2. cmds'[c][j] = cmds[c][j]  BY <3>1, <2>6
    <3> QED BY <3>1, <3>2, <2>8 DEF Link, CmdsOrdered
  <2>11. OwnerFirst(c)'
    BY <1>1, <2>2, <2>6, <2>8, <2>9 DEF Link, OwnerFirst, deviceVars
  <2>12. BeginPending(c)'
    BY <2>1, <2>2, <2>3, <2>6, <2>8, <2>9 DEF Link, BeginPending
  <2>13. ChunksSent(c)' /\ Agrees(c)'
    BY <1>1, <2>1, <2>2, <2>3, <2>8
       DEF Link, ChunksSent, Agrees, Owns, Me, deviceVars, Written, Target
  <2>14. ASSUME NEW d \in Clients, d # c PROVE Link(d)'
    BY <1>1, <2>1, <2>2, <2>6, <2>14, OtherClient
  <2> QED BY <2>10, <2>11, <2>12, <2>13, <2>14 DEF Link, LinkInv
<1> QED BY <1>2, <1>3

\* An answer goes to one socket, and reaches it only while that is open.
LEMMA AnswerReaches ==
    ASSUME TypeInv, NEW to \in Sockets, NEW type \in {"BEGIN", "CHUNK", "END", "ABORT"},
           NEW ok \in BOOLEAN, NEW w \in 0..SlotSize, Answer(to, type, ok, w),
           NEW d \in Clients
    PROVE  \/ inbox'[d] = inbox[d]
           \/ /\ Me(d) = to /\ client[d].pc \notin AtRest
              /\ inbox'[d] = Append(inbox[d], [type |-> type, ok |-> ok, written |-> w])
<1>1. to = <<to[1], to[2]>> /\ to[1] \in Clients  BY DEF Sockets
<1>2. CASE UNCHANGED inbox  BY <1>2
<1>3. CASE ~UNCHANGED inbox
  <2>1. /\ client[to[1]].sock = to[2] /\ client[to[1]].pc \notin AtRest
        /\ inbox' = [inbox EXCEPT ![to[1]] =
                       Append(@, [type |-> type, ok |-> ok, written |-> w])]
    BY <1>3 DEF Answer
  <2> QED BY <1>1, <2>1 DEF TypeInv, OtaTypeOK, Me
<1> QED BY <1>2, <1>3

\* The first of a client's commands is consumed.
LEMMA Shifted ==
    ASSUME TypeInv, LinkInv, NEW c \in Clients, cmds[c] # <<>>,
           cmds' = [cmds EXCEPT ![c] = Tail(@)],
           NEW d \in Clients, client'[d] = client[d]
    PROVE  /\ \A k \in 1..Len(cmds'[d]) :
                /\ cmds'[d][k].type = "BEGIN" /\ d = c
                     => Head(cmds[c]).sock < cmds'[d][k].sock
                /\ \E l \in 1..Len(cmds[d]) : cmds'[d][k] = cmds[d][l]
           /\ CmdsOrdered(d)'
<1>1. cmds[c] \in Seq(Requests) /\ CmdsOrdered(d)
  BY DEF TypeInv, OtaTypeOK, LinkInv, Link
<1>2. CASE d # c
  <2>1. cmds'[d] = cmds[d]  BY <1>2 DEF TypeInv, OtaTypeOK
  <2> QED BY <2>1, <1>1, <1>2 DEF CmdsOrdered
<1>3. CASE d = c
  <2>1. cmds'[c] = Tail(cmds[c])  BY DEF TypeInv, OtaTypeOK
  <2>2. /\ Len(cmds[c]) \in Nat /\ Len(cmds'[c]) = Len(cmds[c]) - 1
        /\ Head(cmds[c]) = cmds[c][1]
        /\ \A k \in 1..Len(cmds'[c]) : k + 1 \in 2..Len(cmds[c]) /\ cmds'[c][k] = cmds[c][k + 1]
    <3> DEFINE q == cmds[c]
    <3>1. q \in Seq(Requests) /\ q # <<>>  BY <1>1
    <3> HIDE DEF q
    <3>2. /\ Len(q) \in Nat /\ Len(Tail(q)) = Len(q) - 1 /\ Head(q) = q[1]
      BY <3>1
    <3>3. \A k \in 1..Len(Tail(q)) : Tail(q)[k] = q[k + 1]
      BY <3>1
    <3>4. \A k \in 1..Len(Tail(q)) : k + 1 \in 2..Len(q)
      BY <3>2
    <3>5. q = cmds[c] /\ Tail(q) = cmds'[c]  BY <2>1 DEF q
    <3> QED BY <3>2, <3>3, <3>4, <3>5
  <2>3. \A k \in 1..Len(cmds'[c]) : k + 1 \in 1..Len(cmds[c]) /\ 1 \in 1..k
    BY <2>2
  <2>4. \A k \in 1..Len(cmds'[c]) :
          cmds'[c][k].type = "BEGIN" => Head(cmds[c]).sock < cmds'[c][k].sock
    <3> SUFFICES ASSUME NEW k \in 1..Len(cmds'[c]), cmds'[c][k].type = "BEGIN"
                 PROVE  cmds[c][1].sock < cmds[c][k + 1].sock
      BY <2>2
    <3>1. k + 1 \in 1..Len(cmds[c]) /\ 1 \in 1..((k + 1) - 1)  BY <2>2
    <3> QED BY <3>1, <2>2, <1>1, <1>3 DEF CmdsOrdered
  <2>5. CmdsOrdered(c)'
    <3> SUFFICES ASSUME NEW k \in 1..Len(cmds'[c])
                 PROVE  /\ cmds'[c][k].sock <= client[c].sock
                        /\ cmds'[c][k].type = "BEGIN"
                             => \A j \in 1..(k - 1) : cmds'[c][j].sock < cmds'[c][k].sock
      BY <1>3 DEF CmdsOrdered
    <3>1. k + 1 \in 1..Len(cmds[c]) /\ cmds'[c][k] = cmds[c][k + 1]  BY <2>2, <2>3
    <3>2. ASSUME NEW j \in 1..(k - 1)
          PROVE  cmds'[c][j] = cmds[c][j + 1] /\ j + 1 \in 1..((k + 1) - 1)
      BY <2>2
    <3> QED BY <3>1, <3>2, <1>1, <1>3 DEF CmdsOrdered
  <2> QED BY <2>2, <2>3, <2>4, <2>5, <1>3
<1> QED BY <1>2, <1>3

\* A command is consumed, and answered or lost.
LEMMA CommandLink ==
    ASSUME TypeInv, LinkInv, NEW c \in Clients, cmds[c] # <<>>,
           cmds' = [cmds EXCEPT ![c] = Tail(@)], UNCHANGED <<client, chunks>>,
           NEW type \in {"BEGIN", "END", "ABORT"}, NEW ok \in BOOLEAN,
           UNCHANGED inbox \/ Answer(From(c), type, ok, 0),
           NEW d \in Clients
    PROVE  /\ CmdsOrdered(d)' /\ BeginPending(d)' /\ ChunksSent(d)'
           /\ session'.owner \in {session.owner, <<>>} => OwnerFirst(d)'
           /\ session' = session /\ Written' = Written => Agrees(d)'
<1>1. Link(d)  BY DEF LinkInv
<1>2. /\ \A k \in 1..Len(cmds'[d]) :
           /\ cmds'[d][k].type = "BEGIN" /\ d = c => Head(cmds[c]).sock < cmds'[d][k].sock
           /\ \E l \in 1..Len(cmds[d]) : cmds'[d][k] = cmds[d][l]
      /\ CmdsOrdered(d)'
  BY Shifted
<1>3. From(c) \in Sockets /\ Head(cmds[c]).sock \in Nat
      /\ From(c) = <<c, Head(cmds[c]).sock>>
  <2>1. Head(cmds[c]) \in Requests /\ From(c) \in Sockets
    BY ArrivesType
  <2>2. Head(cmds[c]).sock \in Nat  BY <2>1, ImagesOK DEF Requests
  <2> QED BY <2>1, <2>2 DEF From
<1>4. \/ inbox'[d] = inbox[d]
      \/ /\ d = c /\ client[c].sock = Head(cmds[c]).sock
         /\ inbox'[d] = Append(inbox[d], [type |-> type, ok |-> ok, written |-> 0])
  <2>1. CASE UNCHANGED inbox  BY <2>1
  <2>2. CASE Answer(From(c), type, ok, 0)
    <3>1. 0 \in 0..SlotSize  BY ImagesOK
    <3>2. \/ inbox'[d] = inbox[d]
          \/ /\ Me(d) = From(c)
             /\ inbox'[d] = Append(inbox[d], [type |-> type, ok |-> ok, written |-> 0])
      BY <2>2, <3>1, <1>3, AnswerReaches
    <3> QED BY <3>2, <1>3 DEF Me
  <2> QED BY <2>1, <2>2
<1>5. BeginPending(d)'
  <2>1. Me(d)' = Me(d)  BY DEF Me
  <2> SUFFICES ASSUME NEW k \in 1..Len(cmds'[d]), cmds'[d][k].type = "BEGIN",
                      cmds'[d][k].sock = client[d].sock, client[d].pc \notin AtRest
               PROVE  /\ cmds'[d][k].image = client[d].image /\ client[d].pc = "begin"
                      /\ inbox'[d] = <<>>
                      /\ \A p \in chunks : p.from # Me(d)
    BY <2>1 DEF BeginPending
  <2>2. PICK l \in 1..Len(cmds[d]) : cmds'[d][k] = cmds[d][l]  BY <1>2
  <2>3. inbox'[d] = inbox[d]
    <3>1. d = c => Head(cmds[c]).sock < cmds'[d][k].sock  BY <1>2
    <3>2. d = c => Head(cmds[c]).sock # client[c].sock  BY <3>1, <1>3
    <3> QED BY <3>2, <1>4
  <2> QED BY <2>2, <2>3, <1>1 DEF Link, BeginPending
<1>6. ChunksSent(d)'  BY <1>1 DEF Link, ChunksSent
<1>7. session'.owner \in {session.owner, <<>>} => OwnerFirst(d)'
  <2>1. \A s : <<d, s>> # <<>>  OBVIOUS
  <2> QED BY <2>1, <1>1, <1>2 DEF Link, OwnerFirst
<1>8. session' = session /\ Written' = Written => Agrees(d)'
  <2> SUFFICES ASSUME session' = session, Written' = Written, Owns(d)
               PROVE  \A k \in 1..Len(inbox'[d]) :
                        inbox'[d][k].type = "CHUNK" => inbox'[d][k].written <= Written
    BY <1>1 DEF Link, Agrees, Owns, Me
  <2>1. \A k \in 1..Len(inbox[d]) : inbox[d][k].type = "CHUNK" => inbox[d][k].written <= Written
    BY <1>1 DEF Link, Agrees
  <2>2. CASE inbox'[d] = inbox[d]  BY <2>1, <2>2
  <2>3. CASE inbox'[d] # inbox[d]
    <3> DEFINE a == [type |-> type, ok |-> ok, written |-> 0]
    <3>1. inbox'[d] = Append(inbox[d], a) /\ inbox[d] \in Seq(Answers)
      BY <2>3, <1>4 DEF TypeInv, OtaTypeOK
    <3>2. a.type # "CHUNK"  OBVIOUS
    <3> HIDE DEF a
    <3>3. \A k \in 1..Len(inbox'[d]) :
            inbox'[d][k] = a \/ (k \in 1..Len(inbox[d]) /\ inbox'[d][k] = inbox[d][k])
      BY <3>1
    <3> QED BY <3>2, <3>3, <2>1
  <2> QED BY <2>2, <2>3
<1> QED BY <1>2, <1>5, <1>6, <1>7, <1>8

\* The session closes, or stays as it was.
LEMMA ClosedLink ==
    ASSUME ~session'.open, NEW d
    PROVE  Agrees(d)'
BY DEF Agrees, Owns

LEMMA BeginLink ==
    ASSUME TypeInv, LinkInv, NEW c \in Clients, HandleBegin(c)
    PROVE  LinkInv'
<1> DEFINE r == Head(cmds[c])
<1>1. /\ cmds[c] # <<>> /\ r.type = "BEGIN" /\ cmds' = [cmds EXCEPT ![c] = Tail(@)]
      /\ UNCHANGED <<running, client, chunks>>
  BY DEF HandleBegin, Arrives
<1>2. PICK ok \in BOOLEAN : Answer(From(c), "BEGIN", ok, 0)
  BY DEF HandleBegin
<1>3. \A d \in Clients :
        /\ CmdsOrdered(d)' /\ BeginPending(d)' /\ ChunksSent(d)'
        /\ session'.owner \in {session.owner, <<>>} => OwnerFirst(d)'
        /\ session' = session /\ Written' = Written => Agrees(d)'
  BY <1>1, <1>2, CommandLink
<1>4. CASE UNCHANGED <<session, flash>>
  <2>1. Written' = Written  BY <1>1, <1>4 DEF Written, Target
  <2> QED BY <2>1, <1>3, <1>4 DEF LinkInv, Link
<1>5. CASE session' = Closed
  <2>1. session'.owner = <<>> /\ ~session'.open  BY <1>5 DEF Closed
  <2> QED BY <2>1, <1>3, ClosedLink DEF LinkInv, Link
<1>6. CASE session' = [open |-> TRUE, image |-> r.image, stale |-> FALSE, owner |-> From(c)]
  <2>1. session'.owner = <<c, r.sock>> /\ session'.image = r.image
    BY <1>6 DEF From
  <2>2. r \in Requests /\ r = cmds[c][1] /\ 1 \in 1..Len(cmds[c])
    BY <1>1, ArrivesType DEF TypeInv, OtaTypeOK
  <2>3. ASSUME NEW d \in Clients PROVE OwnerFirst(d)'
    <3> SUFFICES ASSUME NEW s \in 1..MaxSockets, <<c, r.sock>> = <<d, s>>
                 PROVE  /\ s <= client[d].sock
                        /\ \A k \in 1..Len(cmds'[d]) :
                             cmds'[d][k].type = "BEGIN" => s < cmds'[d][k].sock
      BY <1>1, <2>1 DEF OwnerFirst
    <3>1. d = c /\ s = r.sock  OBVIOUS
    <3>2. r.sock <= client[c].sock  BY <2>2 DEF LinkInv, Link, CmdsOrdered
    <3>3. \A k \in 1..Len(cmds'[c]) : cmds'[c][k].type = "BEGIN" => r.sock < cmds'[c][k].sock
      BY <1>1, Shifted
    <3> QED BY <3>1, <3>2, <3>3
  <2>4. ASSUME NEW d \in Clients, Owns(d)' PROVE Agrees(d)'
    <3>1. d = c /\ r.sock = client[c].sock /\ client[c].pc \notin AtRest
      BY <2>4, <1>1, <2>1 DEF Owns, Me
    <3>2. r.image = client[c].image /\ client[c].pc = "begin" /\ inbox[c] = <<>>
      BY <3>1, <1>1, <2>2 DEF LinkInv, Link, BeginPending
    <3> DEFINE a == [type |-> "BEGIN", ok |-> ok, written |-> 0]
    <3>3. inbox'[c] = <<>> \/ inbox'[c] = Append(<<>>, a)
      <4>1. cmds[c] # <<>> /\ cmds' = [cmds EXCEPT ![c] = Tail(@)]  BY <1>1
      <4>2. From(c) \in Sockets  BY <4>1, ArrivesType
      <4>3. 0 \in 0..SlotSize  BY ImagesOK
      <4> QED BY <4>2, <4>3, <3>2, <1>2, AnswerReaches
    <3>4. a.type = "BEGIN"  OBVIOUS
    <3> HIDE DEF a
    <3>5. \A k \in 1..Len(inbox'[c]) : inbox'[c][k] = a
      BY <3>3
    <3> QED BY <1>1, <2>1, <3>1, <3>2, <3>4, <3>5 DEF Agrees
  <2>5. ASSUME NEW d \in Clients PROVE Agrees(d)'
    BY <2>4 DEF Agrees
  <2> QED BY <1>3, <2>3, <2>5 DEF LinkInv, Link
<1> QED BY <1>4, <1>5, <1>6 DEF HandleBegin

LEMMA EndLink ==
    ASSUME TypeInv, LinkInv, NEW c \in Clients, HandleEnd(c) \/ HandleAbort(c)
    PROVE  LinkInv'
<1>1. /\ cmds[c] # <<>> /\ cmds' = [cmds EXCEPT ![c] = Tail(@)] /\ session' = Closed
      /\ UNCHANGED <<client, chunks>>
      /\ \E type \in {"BEGIN", "END", "ABORT"}, ok \in BOOLEAN : Answer(From(c), type, ok, 0)
  BY DEF HandleEnd, HandleAbort, Arrives
<1>2. session'.owner = <<>> /\ ~session'.open  BY <1>1 DEF Closed
<1>3. \A d \in Clients :
        CmdsOrdered(d)' /\ BeginPending(d)' /\ ChunksSent(d)' /\ OwnerFirst(d)'
  BY <1>1, <1>2, CommandLink
<1> QED BY <1>2, <1>3, ClosedLink DEF LinkInv, Link

LEMMA LoseLink ==
    ASSUME TypeInv, LinkInv, NEW c \in Clients, LoseCommand(c)
    PROVE  LinkInv'
<1>1. /\ cmds[c] # <<>> /\ cmds' = [cmds EXCEPT ![c] = Tail(@)]
      /\ UNCHANGED <<client, chunks, inbox, deviceVars>>
  BY DEF LoseCommand
<1>2. "END" \in {"BEGIN", "END", "ABORT"} /\ TRUE \in BOOLEAN
  OBVIOUS
<1>3. session' = session /\ Written' = Written
  BY <1>1 DEF deviceVars, Written, Target
<1>4. \A d \in Clients : Link(d)'
  BY <1>1, <1>2, <1>3, CommandLink DEF Link
<1> QED BY <1>4 DEF LinkInv

\* While the session goes on, it has written at least w, and no less than before.
Follows(w) ==
    session'.open => /\ session.open /\ w <= Written' /\ Written <= Written'
                     /\ session'.owner = session.owner
                     /\ session'.image = session.image

\* What a chunk is answered is never more than what is then written.
LEMMA ChunkAnswer ==
    ASSUME TypeInv, NEW p \in chunks, HandleChunk(p)
    PROVE  /\ Written' \in 0..SlotSize
           /\ \E ok \in BOOLEAN, w \in 0..SlotSize :
                Answer(p.from, "CHUNK", ok, w) /\ Follows(w)
<1>1. UNCHANGED Target  BY DEF HandleChunk, Target
<1>2. 0 \in 0..SlotSize /\ Written \in 0..SlotSize
  BY ImagesOK, WrittenType DEF TypeInv
<1>3. CASE RepeatChunk(p) \/ RefuseChunk(p)
  <2>1. Written' = Written  BY <1>1, <1>3 DEF RepeatChunk, RefuseChunk, Written
  <2>2. \E ok \in BOOLEAN : Answer(p.from, "CHUNK", ok, Written)
    BY <1>3 DEF RepeatChunk, RefuseChunk
  <2>3. UNCHANGED session  BY <1>3 DEF RepeatChunk, RefuseChunk
  <2>4. Follows(Written)  BY <1>2, <2>1, <2>3, ImagesOK DEF Follows
  <2> QED BY <1>2, <2>1, <2>2, <2>4
<1>4. CASE session.open /\ Extends(p) /\ WriteChunk(p)
  <2>1. CASE session' = Closed
    <3>1. ~session'.open  BY <2>1, ClosedType
    <3>2. Written' = 0 /\ Follows(0) /\ Follows(Written + 1)
      BY <3>1 DEF Written, Follows
    <3>3. \E w \in {0, Written + 1}, ok \in BOOLEAN : Answer(p.from, "CHUNK", ok, w)
      BY <1>4 DEF WriteChunk
    <3>4. Written + 1 \in 0..SlotSize
      BY <1>2, <1>4, ImagesOK DEF Extends, TypeInv, OtaTypeOK, SessionFits
    <3> QED BY <1>2, <3>2, <3>3, <3>4
  <2>2. CASE session' # Closed
    <3>1. /\ flash' = [flash EXCEPT ![Target] = Append(@, <<p.image, p.off>>)]
          /\ session' = [session EXCEPT !.stale = FALSE]
          /\ Answer(p.from, "CHUNK", TRUE, Written + 1)
      BY <1>4, <2>2 DEF WriteChunk
    <3>2. p \in ChunkType /\ p.off = Written /\ p.off < Pieces[session.image]
      BY <1>4 DEF Extends, TypeInv, OtaTypeOK, ChunkType
    <3>3. Len(flash'[Target]) = Written + 1 /\ Written + 1 <= SlotSize
      BY <1>4, <3>1, <3>2, ExtendedFlash
    <3>4. session'.open /\ session'.owner = session.owner /\ session'.image = session.image
      BY <1>4, <3>1 DEF TypeInv, OtaTypeOK
    <3>5. Written' = Written + 1
      BY <1>1, <3>3, <3>4 DEF Written
    <3>6. Written + 1 \in 0..SlotSize /\ Written <= Written + 1
      BY <1>2, <3>3, ImagesOK
    <3>7. Follows(Written + 1)
      BY <1>2, <1>4, <3>4, <3>5, ImagesOK DEF Follows
    <3> QED BY <3>1, <3>5, <3>6, <3>7
  <2> QED BY <2>1, <2>2
<1> QED BY <1>3, <1>4 DEF HandleChunk

LEMMA ChunkLink ==
    ASSUME TypeInv, LinkInv, NEW p \in chunks, HandleChunk(p)
    PROVE  LinkInv'
<1>1. p \in ChunkType /\ UNCHANGED <<client, cmds, chunks>>
  BY ChunkEffect
<1>2. PICK ok \in BOOLEAN, w \in 0..SlotSize : Answer(p.from, "CHUNK", ok, w) /\ Follows(w)
  BY ChunkAnswer
<1> DEFINE a == [type |-> "CHUNK", ok |-> ok, written |-> w]
<1>3. p.from \in Sockets  BY <1>1 DEF ChunkType
<1>4. \A d \in Clients : \/ inbox'[d] = inbox[d]
                         \/ Me(d) = p.from /\ inbox'[d] = Append(inbox[d], a)
  BY <1>2, <1>3, AnswerReaches
<1>5. a.written = w  OBVIOUS
<1> HIDE DEF a
<1>6. Written \in Nat /\ Written' \in Nat
  <2>1. Written' \in 0..SlotSize  BY ChunkAnswer
  <2> QED BY <2>1, WrittenType, ImagesOK DEF TypeInv
<1>7. ASSUME NEW d \in Clients PROVE Link(d)'
  <2>1. Link(d) /\ Me(d)' = Me(d)  BY <1>1 DEF LinkInv, Me
  <2>2. CmdsOrdered(d)' /\ ChunksSent(d)'
    BY <1>1, <2>1 DEF Link, CmdsOrdered, ChunksSent
  <2>3. BeginPending(d)'
    BY <1>1, <1>4, <2>1 DEF Link, BeginPending
  <2>4. OwnerFirst(d)'
    <3>1. session'.owner = session.owner \/ session' = Closed
      BY ChunkEffect DEF TypeInv, OtaTypeOK
    <3>2. Closed.owner = <<>> /\ \A s : <<d, s>> # <<>>  BY DEF Closed
    <3> QED BY <1>1, <2>1, <3>1, <3>2 DEF Link, OwnerFirst
  <2>5. Agrees(d)'
    <3> SUFFICES ASSUME Owns(d)'
                 PROVE  /\ session'.image = client[d].image
                        /\ client[d].pc \in {"chunk", "finish"} => client[d].off <= Written'
                        /\ \A k \in 1..Len(inbox'[d]) :
                             inbox'[d][k].type = "CHUNK" => inbox'[d][k].written <= Written'
      BY <1>1 DEF Agrees
    <3>1. session'.open /\ Owns(d)
      BY <1>1, <1>2, <2>1 DEF Owns, Follows
    <3>2. session'.image = client[d].image
      BY <1>2, <2>1, <3>1 DEF Link, Agrees, Follows
    <3>3. client[d].pc \in {"chunk", "finish"} => client[d].off <= Written'
      <4>1. client[d].off \in Nat  BY OpFields, ImagesOK
      <4> QED BY <4>1, <1>2, <1>6, <2>1, <3>1 DEF Link, Agrees, Follows
    <3>4. ASSUME NEW k \in 1..Len(inbox'[d]), inbox'[d][k].type = "CHUNK"
          PROVE  inbox'[d][k].written <= Written'
      <4>1. inbox[d] \in Seq(Answers)  BY DEF TypeInv, OtaTypeOK
      <4>2. CASE inbox'[d][k] = a  BY <4>2, <1>2, <1>5, <3>1 DEF Follows
      <4>3. CASE k \in 1..Len(inbox[d]) /\ inbox'[d][k] = inbox[d][k]
        <5>1. inbox[d][k] \in Answers  BY <4>1, <4>3, ElementOfSeq
        <5>2. inbox[d][k].written \in Nat  BY <5>1, ImagesOK DEF Answers
        <5>3. inbox[d][k].written <= Written
          BY <3>4, <4>3, <2>1, <3>1 DEF Link, Agrees
        <5> QED BY <5>2, <5>3, <4>3, <1>2, <1>6, <3>1 DEF Follows
      <4>4. inbox'[d][k] = a \/ (k \in 1..Len(inbox[d]) /\ inbox'[d][k] = inbox[d][k])
        BY <4>1, <1>4
      <4> QED BY <4>2, <4>3, <4>4
    <3> QED BY <3>2, <3>3, <3>4
  <2> QED BY <2>2, <2>3, <2>4, <2>5 DEF Link
<1> QED BY <1>7 DEF LinkInv

LEMMA RestartLink ==
    ASSUME TypeInv, LinkInv, NEW cause, Restart(cause)
    PROVE  LinkInv'
<1>1. /\ session' = Closed /\ UNCHANGED <<client, inbox, chunks>>
      /\ \A c \in Clients : cmds'[c] = <<>>
  BY DEF Restart
<1>2. ~session'.open /\ session'.owner = <<>>  BY <1>1 DEF Closed
<1>3. ASSUME NEW c \in Clients PROVE Link(c)'
  <2>1. Len(cmds'[c]) = 0 /\ \A s : <<c, s>> # <<>>  BY <1>1
  <2>2. ChunksSent(c)'  BY <1>1 DEF LinkInv, Link, ChunksSent
  <2> QED BY <1>2, <2>1, <2>2, ClosedLink
          DEF Link, CmdsOrdered, OwnerFirst, BeginPending
<1> QED BY <1>3 DEF LinkInv

\* Time and the boot sequence leave clients, commands and chunks alone.
LEMMA StillLink ==
    ASSUME LinkInv, UNCHANGED <<client, inbox, cmds, chunks>>,
           session'.owner = session.owner, session'.image = session.image,
           session'.open => session.open /\ Written' = Written
    PROVE  LinkInv'
<1> SUFFICES ASSUME NEW c \in Clients PROVE Link(c)'
  BY DEF LinkInv
<1>1. Link(c) /\ Me(c)' = Me(c)  BY DEF LinkInv, Me
<1>2. CmdsOrdered(c)' /\ OwnerFirst(c)' /\ BeginPending(c)' /\ ChunksSent(c)'
  BY <1>1 DEF Link, CmdsOrdered, OwnerFirst, BeginPending, ChunksSent
<1>3. Agrees(c)'  BY <1>1 DEF Link, Agrees, Owns
<1> QED BY <1>2, <1>3 DEF Link

LEMMA LinkNext == TypeInv /\ LinkInv /\ [Next]_vars => LinkInv'
<1> SUFFICES ASSUME TypeInv, LinkInv, [Next]_vars PROVE LinkInv'
  OBVIOUS
<1>1. ASSUME NEW c \in Clients, Update(c) \/ Abort(c) PROVE LinkInv'
  <2>1. CASE Update(c)
    <3>1. PICK i \in Images : Start(c, i, "begin", "BEGIN")  BY <2>1 DEF Update
    <3> QED BY <3>1, StartLink
  <2>2. CASE Abort(c)
    <3>1. Start(c, Factory, "abort", "ABORT") /\ Factory \in Images
      BY <2>2, ImagesOK DEF Abort
    <3> QED BY <3>1, StartLink
  <2> QED BY <1>1, <2>1, <2>2
<1>2. ASSUME NEW c \in Clients, ClientStep(c) PROVE LinkInv'
  BY <1>2, ReceiveLink, TimeoutLink, FinishLink DEF ClientStep
<1>3. ASSUME NEW c \in Clients, Commands(c) PROVE LinkInv'
  BY <1>3, BeginLink, EndLink, LoseLink DEF Commands
<1>4. ASSUME NEW p \in chunks, HandleChunk(p) PROVE LinkInv'
  BY <1>4, ChunkLink
<1>5. CASE GoStale
  <2>1. /\ UNCHANGED <<client, inbox, cmds, chunks, flash, running>>
        /\ session' = [session EXCEPT !.stale = TRUE] /\ session.open
    BY <1>5 DEF GoStale
  <2>2. session'.owner = session.owner /\ session'.image = session.image /\ session'.open
    BY <2>1 DEF TypeInv, OtaTypeOK
  <2>3. Written' = Written  BY <2>1, <2>2 DEF Written, Target
  <2> QED BY <2>1, <2>2, <2>3, StillLink
<1>6. CASE PowerCut \/ HandleReboot
  BY <1>6, RestartLink DEF PowerCut, HandleReboot
<1>7. CASE Bootloader \/ ConfirmApp \/ CrashEarly
  <2>1. UNCHANGED <<session, client, inbox, cmds, chunks>> /\ phase # "app"
    BY <1>7 DEF Bootloader, ConfirmApp, CrashEarly
  <2>2. ~session'.open  BY <2>1 DEF TypeInv, SessionUp
  <2> QED BY <2>1, <2>2, StillLink
<1>8. CASE UNCHANGED vars
  <2>1. UNCHANGED <<session, client, inbox, cmds, chunks>> /\ Written' = Written
    BY <1>8 DEF vars, deviceVars, Written, Target
  <2> QED BY <2>1, StillLink
<1> QED BY <1>1, <1>2, <1>3, <1>4, <1>5, <1>6, <1>7, <1>8, Zenon DEF Next

THEOREM LinkInvariance == Spec => []LinkInv
BY LinkInit, LinkNext, TypeInvariance, PTL DEF Spec

\* Within its own session a client is never ahead of the device.
THEOREM ClientNeverSkips == Spec => []NeverSkips
<1>1. LinkInv => NeverSkips
  BY DEF LinkInv, Link, Agrees, Owns, NeverSkips, AtRest
<1> QED BY <1>1, LinkInvariance, PTL

-----------------------------------------------------------------------------
(* What a step may never do. *)

LEMMA RefreshStep ==
    ASSUME TypeInv, LinkInv, [Next]_vars,
           session.open, session.stale, session'.open, ~session'.stale
    PROVE  session'.owner # session.owner \/ Written' > Written
<1>1. session' # session  OBVIOUS
<1>2. ~Closed.open  BY ClosedType
<1>3. ASSUME NEW c \in Clients, HandleBegin(c) PROVE session'.owner # session.owner
  <2>1. /\ cmds[c] # <<>> /\ Head(cmds[c]).type = "BEGIN" /\ cmds' = [cmds EXCEPT ![c] = Tail(@)]
        /\ session' = [open |-> TRUE, image |-> Head(cmds[c]).image, stale |-> FALSE,
                       owner |-> From(c)]
    BY <1>1, <1>2, <1>3 DEF HandleBegin, Arrives
  <2>2. session'.owner = <<c, Head(cmds[c]).sock>>  BY <2>1 DEF From
  <2>3. Head(cmds[c]) \in Requests  BY <2>1, ArrivesType
  <2>4. /\ cmds[c] \in Seq(Requests) /\ Head(cmds[c]) = cmds[c][1] /\ 1 \in 1..Len(cmds[c])
        /\ Head(cmds[c]).sock \in 1..MaxSockets
    <3>1. cmds[c] \in Seq(Requests)  BY DEF TypeInv, OtaTypeOK
    <3>2. Head(cmds[c]) = cmds[c][1] /\ 1 \in 1..Len(cmds[c])  BY <2>1, <3>1
    <3> QED BY <2>3, <3>1, <3>2 DEF Requests
  <2>5. SUFFICES ASSUME session.owner = <<c, Head(cmds[c]).sock>> PROVE FALSE
    BY <2>2
  <2>6. Head(cmds[c]).sock < Head(cmds[c]).sock
    BY <2>1, <2>4, <2>5 DEF LinkInv, Link, OwnerFirst
  <2> QED BY <2>4, <2>6
<1>4. ASSUME NEW p \in chunks, HandleChunk(p) PROVE Written' > Written
  <2>1. /\ session.open /\ p.off = Written /\ p.off < Pieces[session.image]
        /\ flash' = [flash EXCEPT ![Target] = Append(@, <<p.image, p.off>>)]
        /\ p \in ChunkType /\ UNCHANGED running
    BY <1>1, <1>2, <1>4, ChunkEffect
  <2>2. Len(flash'[Target]) = Written + 1  BY <2>1, ExtendedFlash
  <2>3. Written' = Written + 1  BY <2>1, <2>2 DEF Written, Target
  <2>4. Written \in Nat  BY WrittenType, ImagesOK DEF TypeInv
  <2> QED BY <2>3, <2>4
<1>5. ASSUME NEW c \in Clients, Update(c) \/ Abort(c) \/ ClientStep(c) \/ LoseCommand(c)
      PROVE  FALSE
  BY <1>1, <1>5 DEF Update, Abort, Start, ClientStep, Receive, Timeout, Finish, LoseCommand,
                    deviceVars
<1>6. ASSUME NEW c \in Clients, HandleEnd(c) \/ HandleAbort(c) PROVE FALSE
  BY <1>2, <1>6 DEF HandleEnd, HandleAbort
<1>7. CASE GoStale  BY <1>7 DEF GoStale
<1>8. CASE PowerCut \/ HandleReboot
  BY <1>2, <1>8 DEF PowerCut, HandleReboot, Restart
<1>9. CASE Bootloader \/ ConfirmApp \/ CrashEarly \/ UNCHANGED vars
  BY <1>1, <1>9 DEF Bootloader, ConfirmApp, CrashEarly, vars, deviceVars
<1> QED BY <1>3, <1>4, <1>5, <1>6, <1>7, <1>8, <1>9, Zenon DEF Next, Commands

\* A session past its idle time is only kept alive by a chunk that extends
\* the image.
THEOREM OnlyProgressKeepsAlive == Spec => OnlyProgressRefreshes
<1>1. TypeInv /\ LinkInv /\ [Next]_vars
        => (session.open /\ session.stale /\ session'.open /\ ~session'.stale
              => session'.owner # session.owner \/ Written' > Written)
  BY RefreshStep, Zenon
<1> QED BY <1>1, TypeInvariance, LinkInvariance, PTL DEF Spec, OnlyProgressRefreshes

EndOk == [type |-> "END", ok |-> TRUE, written |-> 0]

LEMMA ToldMeans ==
    /\ OtaTypeOK => \A c \in Clients :
                      ToldApplied(c) <=> \E k \in 1..Len(inbox[c]) : inbox[c][k] = EndOk
    /\ OtaTypeOK' => \A c \in Clients :
                       ToldApplied(c)' <=> \E k \in 1..Len(inbox'[c]) : inbox'[c][k] = EndOk
<1>1. \A q \in Seq(Answers) : EndOk \in Range(q) <=> \E k \in 1..Len(q) : q[k] = EndOk
  BY DEF Range
<1> QED BY <1>1 DEF OtaTypeOK, ToldApplied, EndOk

\* Only an OTA_END answered OK tells a client that it was applied.
LEMMA ToldByEnd ==
    ASSUME TypeInv, NEW to \in Sockets, NEW type \in {"BEGIN", "CHUNK", "END", "ABORT"},
           NEW ok \in BOOLEAN, NEW w \in 0..SlotSize, Answer(to, type, ok, w), OtaTypeOK',
           NEW c \in Clients, ~ToldApplied(c), ToldApplied(c)'
    PROVE  type = "END" /\ ok /\ to = Me(c) /\ client[c].pc \notin AtRest
<1> DEFINE a == [type |-> type, ok |-> ok, written |-> w]
<1>1. PICK k \in 1..Len(inbox'[c]) : inbox'[c][k] = EndOk
  BY ToldMeans
<1>2. \A j \in 1..Len(inbox[c]) : inbox[c][j] # EndOk
  BY ToldMeans DEF TypeInv
<1>3. a.type = type /\ a.ok = ok /\ EndOk.type = "END" /\ EndOk.ok = TRUE
  BY DEF EndOk
<1>4. inbox'[c] # inbox[c]  BY <1>1, <1>2
<1>5. Me(c) = to /\ client[c].pc \notin AtRest /\ inbox'[c] = Append(inbox[c], a)
  BY <1>4, AnswerReaches
<1> HIDE DEF a
<1>6. inbox[c] \in Seq(Answers)  BY DEF TypeInv, OtaTypeOK
<1>7. inbox'[c][k] = a \/ (k \in 1..Len(inbox[c]) /\ inbox'[c][k] = inbox[c][k])
  BY <1>5, <1>6
<1>8. a = EndOk  BY <1>1, <1>2, <1>7
<1> QED BY <1>3, <1>5, <1>8

\* Answers taken from a socket tell nothing new.
LEMMA ToldNothing ==
    ASSUME TypeInv, OtaTypeOK', NEW c \in Clients, ToldApplied(c)',
           \A k \in 1..Len(inbox'[c]) : \E j \in 1..Len(inbox[c]) : inbox'[c][k] = inbox[c][j]
    PROVE  ToldApplied(c)
BY ToldMeans DEF TypeInv

LEMMA EndStep ==
    ASSUME TypeInv, LinkInv, OtaTypeOK', NEW d \in Clients, HandleEnd(d),
           NEW c \in Clients, session.owner = Me(c), ~ToldApplied(c), ToldApplied(c)'
    PROVE  Staged(c)'
<1>1. /\ cmds[d] # <<>> /\ cmds' = [cmds EXCEPT ![d] = Tail(@)]
      /\ UNCHANGED <<flash, running, client>>
  BY DEF HandleEnd
<1>2. From(d) \in Sockets  BY <1>1, ArrivesType
<1>3. 0 \in 0..SlotSize /\ "END" \in {"BEGIN", "CHUNK", "END", "ABORT"}  BY ImagesOK
<1>4. ~Answer(From(d), "END", FALSE, 0)
  BY <1>2, <1>3, ToldByEnd
<1>5. /\ session.open /\ HashMatches /\ boot' = Target
      /\ Answer(From(d), "END", TRUE, 0)
  BY <1>4 DEF HandleEnd
<1>6. client[c].pc \notin AtRest  BY <1>2, <1>3, <1>5, ToldByEnd
<1>7. session.image = client[c].image
  BY <1>5, <1>6 DEF LinkInv, Link, Agrees, Owns
<1>8. Target # running  BY TargetSlot DEF TypeInv
<1>9. flash'[boot'] = Whole(client'[c].image) /\ boot' # running'
  BY <1>1, <1>5, <1>7, <1>8 DEF HashMatches
<1> QED BY <1>9 DEF Staged

LEMMA ToldStep ==
    ASSUME TypeInv, LinkInv, OtaTypeOK', [Next]_vars,
           NEW c \in Clients, session.owner = Me(c), ~ToldApplied(c), ToldApplied(c)'
    PROVE  Staged(c)'
<1>1. inbox'[c] # inbox[c]  BY ToldNothing
<1>2. 0 \in 0..SlotSize  BY ImagesOK
<1>3. ASSUME NEW d \in Clients, HandleBegin(d) PROVE FALSE
  <2>1. cmds[d] # <<>> /\ cmds' = [cmds EXCEPT ![d] = Tail(@)]
        /\ \E ok \in BOOLEAN : Answer(From(d), "BEGIN", ok, 0)
    BY <1>3 DEF HandleBegin, Arrives
  <2>2. From(d) \in Sockets  BY <2>1, ArrivesType
  <2> QED BY <2>1, <2>2, <1>2, ToldByEnd
<1>4. ASSUME NEW d \in Clients, HandleAbort(d) PROVE FALSE
  <2>1. cmds[d] # <<>> /\ cmds' = [cmds EXCEPT ![d] = Tail(@)]
        /\ Answer(From(d), "ABORT", TRUE, 0)
    BY <1>4 DEF HandleAbort, Arrives
  <2>2. From(d) \in Sockets  BY <2>1, ArrivesType
  <2> QED BY <2>1, <2>2, <1>2, ToldByEnd
<1>5. ASSUME NEW p \in chunks, HandleChunk(p) PROVE FALSE
  <2>1. p.from \in Sockets  BY DEF TypeInv, OtaTypeOK
  <2>2. PICK ok \in BOOLEAN, w \in 0..SlotSize : Answer(p.from, "CHUNK", ok, w)
    BY <1>5, ChunkAnswer
  <2> QED BY <2>1, <2>2, ToldByEnd
<1>6. ASSUME NEW d \in Clients, Update(d) \/ Abort(d) PROVE FALSE
  <2>1. inbox' = [inbox EXCEPT ![d] = <<>>]
    BY <1>6 DEF Update, Abort, Start
  <2>2. inbox'[c] = <<>>  BY <2>1, <1>1 DEF TypeInv, OtaTypeOK
  <2> QED BY <2>2, ToldNothing
<1>7. ASSUME NEW d \in Clients, ClientStep(d) PROVE FALSE
  <2>1. \/ UNCHANGED inbox
        \/ inbox' = [inbox EXCEPT ![d] = <<>>]
        \/ inbox[d] # <<>> /\ inbox' = [inbox EXCEPT ![d] = Tail(@)]
    BY <1>7 DEF ClientStep, Receive, Timeout, Finish, Leave
  <2>2. inbox'[c] = <<>> \/ (inbox[c] # <<>> /\ inbox'[c] = Tail(inbox[c]))
    BY <2>1, <1>1 DEF TypeInv, OtaTypeOK
  <2>3. CASE inbox'[c] = <<>>  BY <2>3, ToldNothing
  <2>4. CASE inbox[c] # <<>> /\ inbox'[c] = Tail(inbox[c])
    <3>1. inbox[c] \in Seq(Answers)  BY DEF TypeInv, OtaTypeOK
    <3>2. \A k \in 1..Len(inbox'[c]) :
            k + 1 \in 1..Len(inbox[c]) /\ inbox'[c][k] = inbox[c][k + 1]
      BY <3>1, <2>4
    <3> QED BY <3>2, ToldNothing
  <2> QED BY <2>2, <2>3, <2>4
<1>8. ASSUME NEW d \in Clients, LoseCommand(d) PROVE FALSE
  BY <1>1, <1>8 DEF LoseCommand
<1>9. CASE GoStale \/ PowerCut \/ HandleReboot \/ Bootloader \/ ConfirmApp \/ CrashEarly
  BY <1>1, <1>9 DEF GoStale, PowerCut, HandleReboot, Restart, Bootloader, ConfirmApp, CrashEarly
<1>10. CASE UNCHANGED vars  BY <1>1, <1>10 DEF vars
<1> QED BY <1>3, <1>4, <1>5, <1>6, <1>7, <1>8, <1>9, <1>10, EndStep, Zenon DEF Next, Commands

\* A client whose own OTA_END is answered OK has its own image, complete,
\* selected for the next boot.
THEOREM AppliedIsStaged == Spec => AppliedMeansStaged
<1>1. TypeInv' => OtaTypeOK'  BY DEF TypeInv
<1>2. TypeInv /\ LinkInv /\ TypeInv' /\ [Next]_vars
        => \A c \in Clients :
             session.owner = Me(c) /\ ~ToldApplied(c) /\ ToldApplied(c)' => Staged(c)'
  BY <1>1, ToldStep, Zenon
<1> QED BY <1>2, TypeInvariance, LinkInvariance, PTL DEF Spec, AppliedMeansStaged
=============================================================================
