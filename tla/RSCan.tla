-------------------------------- MODULE RSCan --------------------------------
(***************************************************************************)
(* The V850 RSCAN controller (v850/rscan.rs) behind the memory polling     *)
(* wrapper (polling/memory.rs).                                            *)
(*                                                                         *)
(* The wrapper shares one controller, under a std::sync::Mutex, between    *)
(* the host and every clone of the emulated machine; the memory that holds *)
(* the registers belongs to each machine.  A load from a register first    *)
(* calls handle_input, which stores the register's value into that memory. *)
(* A panic in a handler kills its caller and poisons the mutex, after      *)
(* which nobody gets at the controller again.                              *)
(*                                                                         *)
(* The firmware is external: one of a set of loops over a fixed sequence   *)
(* of register accesses, each of which assembles one frame a round.        *)
(***************************************************************************)
EXTENDS Integers, SequencesExt

CONSTANTS
  Machine,       \* clones of the emulated machine
  StdId, ExtId,  \* CAN identifiers of 11 and of 29 bits
  BadId,         \* identifiers of more than 29 bits
  Word,          \* contents of one data register
  Traffic,       \* the frames that arrive
  Settings,      \* how controller, firmware and host may be set up
  CounterMax,    \* the largest msg_counter: 255, one u8
  MaxFrames      \* bound: frames in existence in any setting

\* Registers whose handler does the same whatever the controller's state.
Inert == {"C0STS", "C0ERFL", "TMSTS0", "TMDF00"}
Register ==
  {"RFSTS0", "RFID0", "RFPTR0", "RFDF00", "RFDF10", "RFPCTR0", "TMC0"} \cup Inert

\* A frame has two words of data; with fewer than eight bytes it is Short.
Short == "short"
Frame == [id : StdId \cup ExtId, lo : Word, hi : Word \cup {Short}]

\* frames come from a socket, or from the host; the register accesses of a
\* round of the firmware; the machines that execute it; what the host does
\* besides enqueueing frames; a bound on the frames in existence.
Setting ==
  [ select_vcan_mode : BOOLEAN, loop : Seq(Register), running : SUBSET Machine,
    host : SUBSET {"enqueues bad identifiers", "removes"}, frames : 0 .. MaxFrames ]

ASSUME RSCanAssumption ==
  /\ Traffic \subseteq Frame
  /\ Settings \subseteq Setting
  /\ \A s \in Settings : s.loop # <<>>
  /\ CounterMax \in Nat /\ MaxFrames \in Nat

\* The word handle_input stores for an extended identifier: one bit, not 31,
\* and nothing of the identifier.
ExtMark == "0x8000000"

\* enqueue_can_msg always builds eight bytes.
QueuedFrame == {f \in Traffic : f.hi # Short}

Unset == "unset"

VARIABLES
  setting,     \* how controller, firmware and host are set up; fixed
  data_queue,  \* frames the host enqueued
  socket,      \* frames waiting at the CAN socket
  rfsts0,      \* rfsts0[m]: RFEMP and RFMC in the memory of machine m
  at,          \* at[m]: the access of the round machine m is about to do
  got,         \* got[m]: the frame machine m is assembling
  received,    \* the frames the machines have assembled
  poisoned     \* a handler panicked with the mutex held

controller == <<data_queue, socket, poisoned>>
firmware == <<at, got, received>>
vars == <<setting, data_queue, socket, rfsts0, at, got, received, poisoned>>

select_vcan_mode == setting.select_vcan_mode
loop == setting.loop
HostMay(act) == act \in setting.host

Assembled == [id : StdId \cup {ExtMark, Unset}, lo : Word \cup {Unset},
              hi : Word \cup {Unset}]

NothingYet == [id |-> Unset, lo |-> Unset, hi |-> Unset]

TypeOK ==
  /\ setting \in Settings
  /\ data_queue \in Seq(QueuedFrame)
  /\ socket \in Seq(Traffic)
  /\ rfsts0 \in [Machine -> [empty : BOOLEAN, unread : 0 .. CounterMax]]
  /\ at \in [Machine -> 1 .. Len(loop)]
  /\ got \in [Machine -> Assembled]
  /\ received \in Seq(Assembled)
  /\ poisoned \in BOOLEAN

\* init() marks the receive FIFO empty, then clears the register again while
\* it means to clear the global status.
Init ==
  /\ setting \in Settings
  /\ data_queue = <<>>
  /\ socket = <<>>
  /\ rfsts0 = [m \in Machine |-> [empty |-> FALSE, unread |-> 0]]
  /\ at = [m \in Machine |-> 1]
  /\ got = [m \in Machine |-> NothingYet]
  /\ received = <<>>
  /\ poisoned = FALSE

Panic ==
  /\ poisoned' = TRUE
  /\ UNCHANGED <<data_queue, socket, rfsts0, firmware>>

-----------------------------------------------------------------------------
(* The firmware's round.                                                   *)

\* The firmware goes on with what it now has; a round ends with the frame.
Advance(m, now) ==
  IF at[m] < Len(loop)
  THEN /\ at' = [at EXCEPT ![m] = @ + 1]
       /\ got' = [got EXCEPT ![m] = now]
       /\ UNCHANGED received
  ELSE /\ at' = [at EXCEPT ![m] = 1]
       /\ got' = [got EXCEPT ![m] = NothingYet]
       /\ received' = Append(received, now)

\* The poll found no message.
Again(m) ==
  /\ at' = [at EXCEPT ![m] = 1]
  /\ UNCHANGED <<got, received>>

Accesses(m, reg) == ~poisoned /\ loop[at[m]] = reg

-----------------------------------------------------------------------------
(* handle_input *)

\* A count of at most none sets RFEMP; a count above limit panics.
Poll(m, limit, none) ==
  LET unread == Len(data_queue)
  IN /\ Accesses(m, "RFSTS0")
     /\ IF unread > limit THEN Panic
        ELSE /\ rfsts0' = [rfsts0 EXCEPT ![m] =
                             [empty |-> unread <= none, unread |-> unread]]
             /\ IF unread <= none THEN Again(m) ELSE Advance(m, got[m])
             /\ UNCHANGED controller

\* Mutants of ReadRFSTS0: the last message is missed, an empty queue is not
\* noticed.
ReadRFSTS0MissesLast(m) == Poll(m, CounterMax, 1)
ReadRFSTS0NeverEmpty(m) == Poll(m, CounterMax, -1)

\* RFSTS0 counts data_queue, in vcan mode as well.
ReadRFSTS0(m) == Poll(m, CounterMax, 0)

\* RFPTR0 describes the front of data_queue, in vcan mode as well.
ReadRFPTR0(m) ==
  /\ Accesses(m, "RFPTR0")
  /\ IF data_queue = <<>> THEN Panic
     ELSE Advance(m, got[m]) /\ UNCHANGED <<controller, rfsts0>>

\* The frame a read of RFID0 or of a data register is answered from: the next
\* one at the socket, which is consumed, or the front of data_queue.
Source == IF select_vcan_mode THEN socket ELSE data_queue

Consume ==
  /\ socket' = IF select_vcan_mode THEN Tail(socket) ELSE socket
  /\ UNCHANGED <<data_queue, poisoned, rfsts0>>

\* Mutant of IdWord: an extended identifier is stored as it is.
IdWordUnmarked(f) == f.id

IdWord(f) == IF f.id \in ExtId THEN ExtMark ELSE f.id

\* Nothing to read: the queue is empty, or the socket timed out.
ReadRFID0(m) ==
  /\ Accesses(m, "RFID0")
  /\ IF Source = <<>> THEN Panic
     ELSE Advance(m, [got[m] EXCEPT !.id = IdWord(Head(Source))]) /\ Consume

Fetch(m, f) ==
  \/ /\ Accesses(m, "RFDF00")
     /\ Advance(m, [got[m] EXCEPT !.lo = f.lo])
  \/ /\ Accesses(m, "RFDF10")
     /\ Advance(m, [got[m] EXCEPT !.hi = f.hi])

\* Mutant of ReadRFDF: the newest frame is read instead of the oldest.
ReadRFDFNewest(m) ==
  /\ Accesses(m, "RFDF00") \/ Accesses(m, "RFDF10")
  /\ IF Source = <<>> \/ Last(Source).hi = Short THEN Panic
     ELSE Fetch(m, Last(Source)) /\ Consume

\* A read of either data register fetches a frame and stores both words of
\* it; fewer than eight bytes end the read_u64 of the data.
ReadRFDF(m) ==
  /\ Accesses(m, "RFDF00") \/ Accesses(m, "RFDF10")
  /\ IF Source = <<>> \/ Head(Source).hi = Short THEN Panic
     ELSE Fetch(m, Head(Source)) /\ Consume

\* What is stored does not depend on the controller, or nothing is.
AccessInert(m) ==
  /\ \E reg \in Inert : Accesses(m, reg)
  /\ Advance(m, got[m])
  /\ UNCHANGED <<controller, rfsts0>>

-----------------------------------------------------------------------------
(* handle_output *)

\* A store without the transmit request does nothing.  With it, identifier,
\* length and data are read from memory first; the data as eight bytes of a
\* view of four, which panics before anything is sent or the request cleared.
WriteTMC0(m) ==
  /\ Accesses(m, "TMC0")
  /\ \/ Panic
     \/ Advance(m, got[m]) /\ UNCHANGED <<controller, rfsts0>>

\* Whatever is written, the front of data_queue goes.
WriteRFPCTR0(m) ==
  /\ Accesses(m, "RFPCTR0")
  /\ IF data_queue = <<>> THEN Panic
     ELSE /\ data_queue' = Tail(data_queue)
          /\ Advance(m, got[m])
          /\ UNCHANGED <<socket, poisoned, rfsts0>>

-----------------------------------------------------------------------------
(* The host, under the same mutex. *)

Frames == Len(data_queue) + Len(socket) + Len(received)

\* Mutant of Enqueue: the mode is not asked.
EnqueueInAnyMode(f) ==
  /\ ~poisoned
  /\ Frames < setting.frames
  /\ data_queue' = Append(data_queue, f)
  /\ UNCHANGED <<socket, poisoned, rfsts0, firmware>>

\* enqueue_can_msg; in vcan mode it returns an error.
Enqueue(f) ==
  /\ ~select_vcan_mode /\ ~poisoned
  /\ Frames < setting.frames
  /\ data_queue' = Append(data_queue, f)
  /\ UNCHANGED <<socket, poisoned, rfsts0, firmware>>

\* The frame cannot be built and the result is unwrapped.
EnqueueBadId(id) ==
  /\ HostMay("enqueues bad identifiers")
  /\ ~select_vcan_mode /\ ~poisoned
  /\ Panic

HostDequeue ==
  /\ HostMay("removes") /\ ~poisoned
  /\ data_queue # <<>>
  /\ data_queue' = Tail(data_queue)
  /\ UNCHANGED <<socket, poisoned, rfsts0, firmware>>

HostClear ==
  /\ HostMay("removes") /\ ~poisoned
  /\ data_queue' = <<>>
  /\ UNCHANGED <<socket, poisoned, rfsts0, firmware>>

\* A frame on the bus, queued by the socket.
Arrive(f) ==
  /\ select_vcan_mode
  /\ Frames < setting.frames
  /\ socket' = Append(socket, f)
  /\ UNCHANGED <<data_queue, poisoned, rfsts0, firmware>>

Access(m) ==
  \/ ReadRFSTS0(m)
  \/ ReadRFPTR0(m)
  \/ ReadRFID0(m)
  \/ ReadRFDF(m)
  \/ WriteRFPCTR0(m)
  \/ AccessInert(m)
  \/ WriteTMC0(m)

Next ==
  /\ UNCHANGED setting
  /\ \/ \E m \in setting.running : Access(m)
     \/ \E f \in QueuedFrame : Enqueue(f)
     \/ \E id \in BadId : EnqueueBadId(id)
     \/ HostDequeue
     \/ HostClear
     \/ \E f \in Traffic : Arrive(f)

Spec == Init /\ [][Next]_vars

\* The emulator goes on executing the firmware's loop.
FairSpec ==
  Spec /\ \A m \in Machine :
            WF_vars(m \in setting.running /\ Access(m) /\ UNCHANGED setting)
-----------------------------------------------------------------------------
\* A round that polls first, acknowledges last and only then, and in between
\* reads the identifier and both data words, in any order and as often as it
\* likes.
ReceivesOne(p) ==
  /\ p[1] = "RFSTS0" /\ p[Len(p)] = "RFPCTR0"
  /\ \A i \in 1 .. Len(p) - 1 : p[i] # "RFPCTR0"
  /\ \A reg \in {"RFID0", "RFDF00", "RFDF10"} : \E i \in 1 .. Len(p) - 1 : p[i] = reg

\* Queued mode, one machine that receives, and a host that only enqueues.
OneReader ==
  /\ ~select_vcan_mode /\ setting.host = {}
  /\ \A m, n \in setting.running : m = n
  /\ ReceivesOne(loop)

(* To its one reader queued mode is a mailbox: the frame assembled from    *)
(* the reads of a round, in whatever order it makes them, is the one the   *)
(* round removes, whatever the host enqueues in between.  All a firmware   *)
(* ever sees of an extended identifier is the mark.  In any other setting  *)
(* the mailbox is out of use.                                              *)
Seen(f) == [f EXCEPT !.id = IdWord(f)]

SeenAll(q) == [i \in 1 .. Len(q) |-> Seen(q[i])]

Box == INSTANCE Mailbox WITH
         Frame <- {Seen(f) : f \in QueuedFrame},
         pending <- IF OneReader THEN SeenAll(data_queue) ELSE <<>>,
         delivered <- IF OneReader THEN received ELSE <<>>

BoxSpec == Box!Spec

(* With one reader that does not transmit the controller panics for one    *)
(* reason only: the host is more than CounterMax frames ahead of it.       *)
PanicsOnlyWhenFull ==
  OneReader /\ (\A i \in 1 .. Len(loop) : loop[i] # "TMC0") =>
    (poisoned => Len(data_queue) > CounterMax)

(* With one reader every frame enqueued is delivered, unless the host does *)
(* get too far ahead: the poll never overlooks the last one.  Needs a      *)
(* machine that runs.                                                      *)
EveryFrameDelivered ==
  \A n \in 1 .. MaxFrames :
    OneReader /\ setting.running # {} /\ Frames >= n ~> Len(received) >= n \/ poisoned

(* In vcan mode the poll counts a queue nobody can fill: however many      *)
(* frames wait at the socket, a firmware that polls first is never told of *)
(* one.  It stays at the poll, so it reads none and assembles none.        *)
PollingIsDeaf ==
  select_vcan_mode /\ loop[1] = "RFSTS0" =>
    at = [m \in Machine |-> 1] /\ received = <<>>

(* "If code is reading RFID then the code is preparing to read can data,   *)
(* so we populate ID and Data" (line 409): identifier and data words of a  *)
(* round are those of one frame.                                           *)
WholeFrames == \A i \in 1 .. Len(received) : received[i] \in Traffic
=============================================================================
