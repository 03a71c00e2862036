-------------------------------- MODULE Ota --------------------------------
(***************************************************************************)
(* Firmware update over the admin channel: client.py's ota_update and      *)
(* ota_abort, the session the admin task keeps in s_ota, the two app slots *)
(* it writes and switches, and the boot sequence that confirms a new image *)
(* or rolls it back.                                                       *)
(*                                                                         *)
(* BEGIN, END and ABORT carry a nonce: the device acts on each at most     *)
(* once, and one client's commands arrive in the order sent, a CHALLENGE   *)
(* round trip apart.  OTA_CHUNK carries none: a chunk once sent may be     *)
(* delivered late, in any order, again, or never.  A client opens a socket *)
(* per operation, so an answer to an earlier operation is never read.      *)
(***************************************************************************)
EXTENDS Integers, SequencesExt

CONSTANTS
    Clients,      \* hosts that hold the admin secret
    Images,       \* firmware images they may push
    Factory,      \* the image flashed at production
    Broken,       \* images that crash before app_main confirms them
    Pieces,       \* chunks each image is sent in
    SlotSize,     \* chunks an app slot holds
    MaxTries,     \* max_retries_per_chunk
    MaxSockets,   \* bound: operations a client starts
    MaxInbox,     \* bound: answers waiting in a socket
    MaxRestarts   \* bound: power cuts and requested reboots

ASSUME OtaAssumption ==
    /\ Broken \subseteq Images /\ Factory \in Images \ Broken
    /\ Pieces \in [Images -> Nat \ {0}]
    /\ SlotSize \in Nat /\ Pieces[Factory] <= SlotSize
    /\ {MaxTries, MaxSockets, MaxInbox} \subseteq Nat \ {0}
    /\ MaxRestarts \in Nat

Slots    == {0, 1}                                 \* ota_0, ota_1
Other(s) == 1 - s
Whole(i) == [k \in 1..Pieces[i] |-> <<i, k - 1>>]  \* image i, chunk by chunk

VARIABLES
    session,   \* s_ota: open, announced image, over 30 s idle; and, for the
               \* properties only, the operation that opened it
    flash,     \* what each slot holds, in chunks
    boot,      \* slot otadata selects
    slotState, \* otadata's state of each slot
    running,   \* slot the device runs from
    phase,     \* "cut" or "reset" (about to boot), "booting", "app" (confirmed)
    restarts,  \* power cuts and reboots so far
    client,    \* each client's operation
    inbox,     \* answers waiting in the socket of that operation
    cmds,      \* BEGIN, END and ABORT on their way, per client
    chunks     \* OTA_CHUNK packets the network may deliver

deviceVars == <<session, flash, boot, slotState, running, phase, restarts>>
vars == <<deviceVars, client, inbox, cmds, chunks>>

\* Mutant: the slot that is not to boot next, instead of not running.
TargetUnbooted == Other(boot)

Target == Other(running)       \* esp_ota_get_next_update_partition(NULL)
Written == IF session.open THEN Len(flash[Target]) ELSE 0
Closed  == [open |-> FALSE, image |-> Factory, stale |-> FALSE, owner |-> <<>>]

\* An operation of a client: where it is, the image it pushes, the offset it
\* is at, how often it sent that chunk, and its socket.
Op(pc, i, off, tries, sock) ==
    [pc |-> pc, image |-> i, off |-> off, tries |-> tries, sock |-> sock]

AtRest == {"idle", "applied", "failed"}
Waiting == {"begin", "chunk", "end", "abort"}

Init ==
    /\ session = Closed
    /\ flash = [s \in Slots |-> IF s = 0 THEN Whole(Factory) ELSE <<>>]
    /\ boot = 0
    /\ slotState = [s \in Slots |-> IF s = 0 THEN "VALID" ELSE "EMPTY"]
    /\ running = 0
    /\ phase = "app"
    /\ restarts = 0
    /\ client = [c \in Clients |-> Op("idle", Factory, 0, 0, 0)]
    /\ inbox = [c \in Clients |-> <<>>]
    /\ cmds = [c \in Clients |-> <<>>]
    /\ chunks = {}

-----------------------------------------------------------------------------
(* The client. *)

Me(c) == <<c, client[c].sock>>

Send(c, type) ==
    cmds' = [cmds EXCEPT ![c] =
               Append(@, [type |-> type, sock |-> client'[c].sock,
                          image |-> client'[c].image])]

\* The operation returns, or raises: its socket is closed.
Leave(c, pc) ==
    /\ client' = [client EXCEPT ![c] = Op(pc, Factory, 0, 0, @.sock)]
    /\ inbox' = [inbox EXCEPT ![c] = <<>>]
    /\ UNCHANGED <<cmds, chunks>>

\* Send the chunk at the client's offset: the first time, or again.
SendChunk(c, off, tries) ==
    /\ client' = [client EXCEPT ![c] = Op("chunk", @.image, off, tries, @.sock)]
    /\ chunks' = chunks \cup {[from |-> Me(c), image |-> client[c].image, off |-> off]}

\* A new operation on a new socket, its CHALLENGE answered.
Start(c, i, pc, type) ==
    /\ client[c].pc \in AtRest /\ client[c].sock < MaxSockets
    /\ client' = [client EXCEPT ![c] = Op(pc, i, 0, 0, @.sock + 1)]
    /\ Send(c, type)
    /\ inbox' = [inbox EXCEPT ![c] = <<>>]
    /\ UNCHANGED <<deviceVars, chunks>>

Update(c) == \E i \in Images : Start(c, i, "begin", "BEGIN")
Abort(c)  == Start(c, Factory, "abort", "ABORT")

\* The next packet in the socket, whichever it is.
Expects(pc) == CASE pc = "begin" -> "BEGIN" [] pc = "chunk" -> "CHUNK"
                 [] pc = "end" -> "END" [] OTHER -> "ABORT"

\* Mutant: every answer taken for the chunk just sent.
NextOffsetCounted(c, answer) == client[c].off + 1

\* The next offset is what the device says it has written.
NextOffset(c, answer) == answer.written

ChunkAccepted(c, answer) ==
    IF NextOffset(c, answer) < Pieces[client[c].image]
    THEN SendChunk(c, NextOffset(c, answer), 1)
    ELSE /\ client' = [client EXCEPT ![c] =
                         Op("finish", @.image, NextOffset(c, answer), 0, @.sock)]
         /\ UNCHANGED chunks

Receive(c) ==
    /\ client[c].pc \in Waiting /\ inbox[c] # <<>>
    /\ LET answer == Head(inbox[c]) IN
       IF answer.type # Expects(client[c].pc) \/ ~answer.ok
       THEN Leave(c, "failed")
       ELSE \/ client[c].pc \in {"end", "abort"} /\ Leave(c, "applied")
            \/ /\ \/ client[c].pc = "begin" /\ SendChunk(c, 0, 1)
                  \/ client[c].pc = "chunk" /\ ChunkAccepted(c, answer)
               /\ inbox' = [inbox EXCEPT ![c] = Tail(@)]
               /\ UNCHANGED cmds
    /\ UNCHANGED deviceVars

\* recvfrom times out: a chunk is sent again, anything else fails.
Timeout(c) ==
    /\ client[c].pc \in Waiting /\ inbox[c] = <<>>
    /\ IF client[c].pc = "chunk" /\ client[c].tries < MaxTries
       THEN SendChunk(c, client[c].off, client[c].tries + 1) /\ UNCHANGED <<inbox, cmds>>
       ELSE Leave(c, "failed")
    /\ UNCHANGED deviceVars

\* All chunks confirmed: CHALLENGE again, then OTA_END.  A late answer still
\* in the socket is taken for the CHALLENGE's.
Finish(c) ==
    /\ client[c].pc = "finish"
    /\ IF inbox[c] # <<>>
       THEN Leave(c, "failed")
       ELSE /\ client' = [client EXCEPT ![c] = Op("end", @.image, @.off, @.tries, @.sock)]
            /\ Send(c, "END")
            /\ UNCHANGED <<inbox, chunks>>
    /\ UNCHANGED deviceVars

ClientStep(c) == Receive(c) \/ Timeout(c) \/ Finish(c)

-----------------------------------------------------------------------------
(* The admin task. *)

\* An answer reaches the socket it is for, if that is still open, or is lost.
Answer(to, type, ok, written) ==
    \/ UNCHANGED inbox
    \/ /\ client[to[1]].sock = to[2] /\ client[to[1]].pc \notin AtRest
       /\ Len(inbox[to[1]]) < MaxInbox
       /\ inbox' = [inbox EXCEPT ![to[1]] =
                      Append(@, [type |-> type, ok |-> ok, written |-> written])]

\* One datagram of c's commands is consumed.
Arrives(c, type) ==
    /\ phase = "app"
    /\ cmds[c] # <<>> /\ Head(cmds[c]).type = type
    /\ cmds' = [cmds EXCEPT ![c] = Tail(@)]
    /\ UNCHANGED <<boot, running, phase, restarts, client, chunks>>

From(c) == <<c, Head(cmds[c]).sock>>

\* Whether esp_ota_begin may succeed on the image announced.
Fits(i) == Pieces[i] <= SlotSize

\* OTA_BEGIN.  A live session is BUSY; a stale one is discarded before
\* anything else is looked at.  esp_ota_begin refuses while the running image
\* is unconfirmed, may fail, and erases the slot when it succeeds.
HandleBegin(c) ==
    /\ Arrives(c, "BEGIN")
    /\ LET i == Head(cmds[c]).image IN
       \/ /\ session.open /\ ~session.stale
          /\ Answer(From(c), "BEGIN", FALSE, 0)
          /\ UNCHANGED <<session, flash>>
       \/ /\ session.open => session.stale
          /\ Answer(From(c), "BEGIN", FALSE, 0)       \* does not fit, or failed
          /\ session' = Closed
          /\ flash' \in {flash, [flash EXCEPT ![Target] = <<>>]}
          /\ flash' # flash => Fits(i) /\ slotState[running] # "PENDING"
       \/ /\ session.open => session.stale
          /\ Fits(i) /\ slotState[running] # "PENDING"
          /\ Answer(From(c), "BEGIN", TRUE, 0)
          /\ session' = [open |-> TRUE, image |-> i, stale |-> FALSE, owner |-> From(c)]
          /\ flash' = [flash EXCEPT ![Target] = <<>>]
    /\ UNCHANGED slotState

\* Mutants: a repeated chunk counts as activity; it is confirmed as far as it
\* says itself.
RepeatChunkRefreshes(p) ==
    /\ Answer(p.from, "CHUNK", TRUE, Written)
    /\ session' = [session EXCEPT !.stale = FALSE]
    /\ UNCHANGED flash
RepeatChunkEchoes(p) ==
    Answer(p.from, "CHUNK", TRUE, p.off) /\ UNCHANGED <<session, flash>>

\* What is already written is confirmed again.
RepeatChunk(p) ==
    Answer(p.from, "CHUNK", TRUE, Written) /\ UNCHANGED <<session, flash>>

RefuseChunk(p) ==
    Answer(p.from, "CHUNK", FALSE, Written) /\ UNCHANGED <<session, flash>>

\* A failing write ends the session.
WriteChunk(p) ==
    \/ /\ flash' = [flash EXCEPT ![Target] = Append(@, <<p.image, p.off>>)]
       /\ session' = [session EXCEPT !.stale = FALSE]
       /\ Answer(p.from, "CHUNK", TRUE, Written + 1)
    \/ /\ session' = Closed
       /\ UNCHANGED flash
       /\ Answer(p.from, "CHUNK", FALSE, 0)

\* Mutants: a repeated chunk extends the image too; the bound is the slot's.
ExtendsAgain(p)      == p.off <= Written /\ p.off < Pieces[session.image]
ExtendsWithinSlot(p) == p.off = Written /\ p.off < SlotSize

\* The chunk is the next of the announced image.
Extends(p) == p.off = Written /\ p.off < Pieces[session.image]

\* OTA_CHUNK.
HandleChunk(p) ==
    /\ phase = "app" /\ p \in chunks
    /\ \/ session.open /\ p.off < Written /\ RepeatChunk(p)
       \/ session.open /\ Extends(p) /\ WriteChunk(p)
       \/ (session.open => p.off >= Written /\ ~Extends(p)) /\ RefuseChunk(p)
    /\ UNCHANGED <<boot, slotState, running, phase, restarts, client, cmds, chunks>>

\* Mutant: the length alone decides.
HashIgnored == TRUE

\* The SHA-256 of what arrived is the announced one.
HashMatches == flash[Target] = Whole(session.image)

\* OTA_END.  Whatever happens, the session is over; the image becomes the next
\* to boot only when it is complete, its hash matches, and neither
\* esp_ota_end nor esp_ota_set_boot_partition fails.
HandleEnd(c) ==
    /\ phase = "app" /\ cmds[c] # <<>> /\ Head(cmds[c]).type = "END"
    /\ cmds' = [cmds EXCEPT ![c] = Tail(@)]
    /\ session' = Closed
    /\ \/ /\ session.open /\ Written = Pieces[session.image] /\ HashMatches
          /\ boot' = Target
          /\ slotState' = [slotState EXCEPT ![Target] = "NEW"]
          /\ Answer(From(c), "END", TRUE, 0)
       \/ /\ Answer(From(c), "END", FALSE, 0)
          /\ UNCHANGED <<boot, slotState>>
    /\ UNCHANGED <<flash, running, phase, restarts, client, chunks>>

HandleAbort(c) ==
    /\ Arrives(c, "ABORT")
    /\ session' = Closed
    /\ Answer(From(c), "ABORT", TRUE, 0)
    /\ UNCHANGED <<flash, slotState>>

\* 30 s have passed since the last chunk written.
GoStale ==
    /\ session.open /\ ~session.stale
    /\ session' = [session EXCEPT !.stale = TRUE]
    /\ UNCHANGED <<flash, boot, slotState, running, phase, restarts, client, inbox, cmds, chunks>>

\* A command is lost, or its nonce expires on the way.
LoseCommand(c) ==
    /\ cmds[c] # <<>>
    /\ cmds' = [cmds EXCEPT ![c] = Tail(@)]
    /\ UNCHANGED <<deviceVars, client, inbox, chunks>>

-----------------------------------------------------------------------------
(* Restarts.  The bootloader's choice is ESP-IDF's, with rollback enabled. *)

\* The session and every nonce issued are gone.
Restart(cause) ==
    /\ restarts < MaxRestarts
    /\ restarts' = restarts + 1
    /\ phase' = cause
    /\ session' = Closed
    /\ cmds' = [c \in Clients |-> <<>>]
    /\ UNCHANGED <<flash, boot, slotState, running, client, inbox, chunks>>

\* PoE goes away and comes back; a client asks for the new image with REBOOT.
PowerCut     == phase # "cut" /\ Restart("cut")
HandleReboot == phase = "app" /\ Restart("reset")

Complete(s) == \E i \in Images : flash[s] = Whole(i)

\* A slot whose image was started once and never confirmed is not booted again.
BootSlot ==
    IF Complete(boot) /\ slotState[boot] \in {"NEW", "VALID"} THEN boot ELSE Other(boot)

Bootloader ==
    /\ phase \in {"cut", "reset"}
    /\ phase' = "booting"
    /\ running' = BootSlot
    /\ boot' = BootSlot
    /\ slotState' = [s \in Slots |->
                       CASE s = BootSlot /\ slotState[s] = "NEW" -> "PENDING"
                         [] s # BootSlot /\ slotState[s] = "PENDING" -> "ABORTED"
                         [] OTHER -> slotState[s]]
    /\ UNCHANGED <<session, flash, restarts, client, inbox, cmds, chunks>>

RunsBroken == \E i \in Broken : flash[running] = Whole(i)

\* Mutant: every boot marks the image valid, and aborts when that fails.
ConfirmAppOrAbort ==
    /\ phase = "booting" /\ ~RunsBroken
    /\ \/ phase' = "app" /\ slotState' = [slotState EXCEPT ![running] = "VALID"]
       \/ phase' = "reset" /\ UNCHANGED slotState
    /\ UNCHANGED <<session, flash, boot, running, restarts, client, inbox, cmds, chunks>>

\* confirm_app_if_pending_verify, then the rest of app_main.  Marking the image
\* valid may fail: the device runs on, unconfirmed.
ConfirmApp ==
    /\ phase = "booting" /\ ~RunsBroken
    /\ phase' = "app"
    /\ \/ slotState' = [slotState EXCEPT ![running] = "VALID"]
       \/ slotState[running] = "PENDING" /\ UNCHANGED slotState
    /\ UNCHANGED <<session, flash, boot, running, restarts, client, inbox, cmds, chunks>>

CrashEarly ==
    /\ phase = "booting" /\ RunsBroken
    /\ phase' = "reset"
    /\ UNCHANGED <<session, flash, boot, slotState, running, restarts, client, inbox, cmds, chunks>>

-----------------------------------------------------------------------------

Commands(c) == HandleBegin(c) \/ HandleEnd(c) \/ HandleAbort(c) \/ LoseCommand(c)

Next ==
    \/ \E c \in Clients : Update(c) \/ Abort(c) \/ ClientStep(c) \/ Commands(c)
    \/ \E p \in chunks : HandleChunk(p)
    \/ GoStale \/ PowerCut \/ HandleReboot \/ Bootloader \/ ConfirmApp \/ CrashEarly

\* The chunk a client waits to have confirmed arrives, and so does its answer.
Awaits(c) ==
    /\ client[c].pc = "chunk"
    /\ HandleChunk([from |-> Me(c), image |-> client[c].image, off |-> client[c].off])
    /\ inbox' # inbox

\* A client's code runs and its socket times out; a device with power boots;
\* and a chunk sent over and over is not lost every time.
Fairness ==
    /\ \A c \in Clients :
         /\ WF_vars(ClientStep(c))
         /\ SF_vars(Awaits(c))
    /\ WF_vars(Bootloader) /\ WF_vars(ConfirmApp) /\ WF_vars(CrashEarly)

Spec == Init /\ [][Next]_vars /\ Fairness

-----------------------------------------------------------------------------
(* Properties. *)

Pc == AtRest \cup Waiting \cup {"finish"}
Sockets == Clients \X (1..MaxSockets)

Answers  == [type : {"BEGIN", "CHUNK", "END", "ABORT"}, ok : BOOLEAN, written : 0..SlotSize]
Requests == [type : {"BEGIN", "END", "ABORT"}, sock : 1..MaxSockets, image : Images]

\* Types of the device's and the clients' state; what is written never
\* exceeds the slot, nor the image announced in OTA_BEGIN (the bounds checks
\* of handle_ota_begin and handle_ota_chunk).
OtaTypeOK ==
    /\ session \in [open : BOOLEAN, image : Images, stale : BOOLEAN,
                    owner : Sockets \cup {<<>>}]
    /\ flash \in [Slots -> Seq(Images \X (0..SlotSize))]
    /\ \A s \in Slots : Len(flash[s]) <= SlotSize
    /\ session.open => Written <= Pieces[session.image]
    /\ boot \in Slots /\ running \in Slots
    /\ slotState \in [Slots -> {"EMPTY", "NEW", "PENDING", "VALID", "ABORTED"}]
    /\ phase \in {"cut", "reset", "booting", "app"} /\ restarts \in 0..MaxRestarts
    /\ client \in [Clients -> [pc : Pc, image : Images, off : 0..SlotSize,
                               tries : 0..MaxTries, sock : 0..MaxSockets]]
    /\ inbox \in [Clients -> Seq(Answers)]
    /\ \A c \in Clients : Len(inbox[c]) <= MaxInbox
    /\ cmds \in [Clients -> Seq(Requests)]
    /\ chunks \subseteq [from : Sockets, image : Images, off : 0..SlotSize]

\* A chunk sent again, late or twice is never written twice, nor out of its
\* place: every piece in a slot sits at the offset it was sent for.
WrittenInPlace ==
    \A s \in Slots : \A k \in 1..Len(flash[s]) : flash[s][k][2] = k - 1

\* A client never gets ahead of the device within its own session, whatever
\* answers were lost, repeated or late: it resumes at what the device reports.
NeverSkips ==
    \A c \in Clients :
      client[c].pc \in {"chunk", "finish"} /\ session.open /\ session.owner = Me(c)
        => client[c].off <= Written

\* At every moment, an interrupted, mixed, broken or repeated update and any
\* power cut included, one slot holds a complete image that has run and been
\* confirmed.
NeverBricked ==
    \E s \in Slots : slotState[s] = "VALID" /\ \E i \in Images \ Broken : flash[s] = Whole(i)

\* Only data that extends the image keeps a session alive: chunks repeated or
\* refused never hold the update channel beyond the idle time-out.
OnlyProgressRefreshes ==
    [][session.open /\ session.stale /\ session'.open /\ ~session'.stale
         => session'.owner # session.owner \/ Written' > Written]_vars

\* c is told that its OTA_END was applied, and c's image is what boots next.
ToldApplied(c) == [type |-> "END", ok |-> TRUE, written |-> 0] \in Range(inbox[c])
Staged(c) == boot # running /\ flash[boot] = Whole(client[c].image)

\* An OTA_END answered OK to the client whose session it closes: that client's
\* own image, complete, is what the next boot selects.
AppliedMeansStaged ==
    [][\A c \in Clients :
         session.owner = Me(c) /\ ~ToldApplied(c) /\ ToldApplied(c)' => Staged(c)']_vars

\* An operation always ends: chunks are retried a bounded number of times.
OperationEnds == \A c \in Clients : client[c].pc \notin AtRest ~> client[c].pc \in AtRest

\* Whatever was staged, a device left with power comes back to the application.
ComesBack == phase # "app" ~> phase = "app"
=============================================================================
