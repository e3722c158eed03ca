---------------------------- MODULE Attachments ----------------------------
(***************************************************************************)
(* One attachment on its way to one recipient (commands.rs                 *)
(* send_attachment, net.rs, core/attachment.rs, core/transport.rs).        *)
(*                                                                         *)
(* The sender first tries a stream of its own.  Its header is written as a *)
(* Packet and read as a bare AttachmentMeta, which never parses: the       *)
(* receiver drops the stream, and what follows its header is out of reach. *)
(* The sender then delivers header and chunks as packets (see Delivery).   *)
(*                                                                         *)
(* The receiver's handlers share a map with the attachment's reassembler,  *)
(* which collects chunks in a file NAME.part.  Every reassembler opens     *)
(* NAME.part anew and so empties it.  The finished file is encrypted to    *)
(* NAME, NAME.part is deleted, and a message is recorded in the vault.     *)
(***************************************************************************)
EXTENDS Session, FiniteSets

CONSTANTS
  NumChunks,  \* chunk_count of the file
  Handlers    \* the tasks that handle packets: direct connections, poll loop

AllEvents == SessionEvents \union
  { "breaks",  \* a stream cannot be opened, or its connection breaks
    "source",  \* the sender's file cannot be read, or its copy not written
    "disk",    \* a file of the receiver cannot be created or written
    "again" }  \* a packet is handled twice

ASSUME ConstantsAssumption ==
  /\ NumChunks \in Nat \ {0}
  /\ "map" \notin Handlers
  /\ \A chunks \in SUBSET (0..NumChunks - 1) : chunks # Absent
  /\ Events \subseteq AllEvents

VARIABLES
  sender,  \* what the command and its task are doing, the next frame or packet
  conn,    \* the stream, as far as the receiver has come
  wire,    \* packet -> copies on their way; one that is lost stays there
  map,     \* the chunks of the reassembler in the map, Absent if there is none
  hand,    \* handler -> what it does between two accesses to the map
  part,    \* the chunks in NAME.part, Absent if the file does not exist
  linked,  \* the owners of reassemblers whose open file is NAME.part
  rest,    \* the chunks in NAME, Absent if the file does not exist
  twice    \* history: the packets that are handled twice

vars == <<svars, sender, conn, wire, map, hand, part, linked, rest, seen, twice>>
files == <<part, linked, rest>>
receiver == <<svars, map, hand, files>>

Chunks == 0..NumChunks - 1
Header == NumChunks
Packets == Chunks \union {Header}
Owners == {"map"} \union Handlers

TypeOK ==
  /\ SessionTypeOK
  /\ sender \in [pc : {"idle", "copy", "dial", "write", "finish", "park", "done",
                       "failed"}, next : 0..NumChunks]
  /\ conn \in {"none", "open", "header", "dropped", "broken"}
  /\ wire \in [Packets -> 0..2]
  /\ map \in (SUBSET Chunks) \union {Absent}
  /\ hand \in [Handlers -> {"idle", "make", "insert", "final", "record"}]
  /\ part \in (SUBSET Chunks) \union {Absent}
  /\ linked \subseteq Owners
  /\ rest \in (SUBSET Chunks) \union {Absent}
  /\ seen \subseteq {"shared", "disk", "gaveup", "overrun", "crash"}
  /\ twice \subseteq Packets

Init ==
  /\ SessionInit
  /\ sender = [pc |-> "idle", next |-> 0]
  /\ conn = "none"
  /\ wire = [i \in Packets |-> 0]
  /\ map = Absent
  /\ hand = [h \in Handlers |-> "idle"]
  /\ part = Absent
  /\ linked = {}
  /\ rest = Absent
  /\ seen = {}
  /\ twice = {}

Note(what) == seen' = seen \union what

-----------------------------------------------------------------------------
(* The sender. *)

\* The message is stored and saved before anything else.
SendAttachment ==
  /\ sender.pc = "idle"
  /\ \/ sender' = [sender EXCEPT !.pc = "copy"]
     \/ "save" \in Events /\ sender' = [sender EXCEPT !.pc = "failed"]
  /\ UNCHANGED <<receiver, conn, wire, seen, twice>>

\* An own copy, encrypted at rest; the delivery task starts after it.
KeepCopy ==
  /\ sender.pc = "copy"
  /\ \/ sender' = [sender EXCEPT !.pc = "dial"]
     \/ "source" \in Events /\ sender' = [sender EXCEPT !.pc = "failed"]
  /\ UNCHANGED <<receiver, conn, wire, seen, twice>>

FallBack == sender' = [pc |-> "park", next |-> 0]

OpenStream ==
  /\ sender.pc = "dial"
  /\ \/ /\ serving
        /\ conn' = "open"
        /\ sender' = [pc |-> "write", next |-> 0]
     \/ /\ "breaks" \in Events \/ ~ serving
        /\ FallBack
        /\ UNCHANGED conn
  /\ UNCHANGED <<receiver, wire, seen, twice>>

\* The header, then the chunks; what the receiver has dropped may still be
\* written until its end of the connection is heard of.
WriteFrame ==
  /\ sender.pc = "write"
  /\ conn # "broken"
  /\ conn' = IF conn = "open" THEN "header" ELSE conn
  /\ sender' = IF sender.next = NumChunks THEN [sender EXCEPT !.pc = "finish"]
               ELSE [sender EXCEPT !.next = @ + 1]
  /\ UNCHANGED <<receiver, wire, seen, twice>>

\* read_to_end takes any end of the stream for the acknowledgement.  A receiver
\* that drops the stream ends it before it closes the connection: the sender
\* sees this or, in StreamFails, that.
FinishStream ==
  /\ sender.pc = "finish"
  /\ conn = "dropped"
  /\ sender' = [sender EXCEPT !.pc = "done"]
  /\ Note({"gaveup"})
  /\ UNCHANGED <<receiver, conn, wire, twice>>

\* The connection breaks or is closed, or the file cannot be read.
StreamFails ==
  /\ sender.pc \in {"write", "finish"}
  /\ \/ "breaks" \in Events /\ conn' = "broken"
     \/ /\ "source" \in Events
        /\ sender.pc = "write" /\ sender.next > 0
        /\ conn' = "broken"
     \/ conn \in {"dropped", "broken"} /\ UNCHANGED conn
  /\ FallBack
  /\ UNCHANGED <<receiver, wire, seen, twice>>

\* net::deliver, one packet after the other, the header first: directly, in the
\* mailbox, or both.  A file that can no longer be read ends the task.
ParkNext ==
  LET packet == IF sender.next = 0 THEN Header ELSE sender.next - 1
  IN
  /\ sender.pc = "park"
  /\ \/ /\ \/ wire' = [wire EXCEPT ![packet] = 1] /\ UNCHANGED twice
           \/ /\ "again" \in Events
              /\ wire' = [wire EXCEPT ![packet] = 2]
              /\ twice' = twice \union {packet}
        /\ sender' = IF sender.next = NumChunks
                       THEN [sender EXCEPT !.pc = "done"]
                       ELSE [sender EXCEPT !.next = @ + 1]
     \/ /\ "source" \in Events
        /\ sender.next > 0
        /\ sender' = [sender EXCEPT !.pc = "failed"]
        /\ UNCHANGED <<wire, twice>>
  /\ UNCHANGED <<receiver, conn, seen>>

\* handle_file_connection reads the header, cannot parse it and returns.
StreamHeader ==
  /\ conn = "header"
  /\ conn' = "dropped"
  /\ UNCHANGED <<receiver, sender, wire, seen, twice>>

-----------------------------------------------------------------------------
(* NAME.part and NAME. *)

\* Reassembler::new: the file is created, or emptied under those that have it
\* open, who then share it.
OpenPart(o) ==
  /\ part' = {}
  /\ linked' = IF part = Absent THEN {o} ELSE linked \union {o}
  /\ UNCHANGED rest

\* (Mutant: the chunk is written one place further.)
NextPlace(i) == i + 1

Place(i) == i

\* add_chunk: what is written to a file that was deleted is gone.
WriteChunk(o, i) ==
  /\ part' = IF o \in linked THEN part \union {Place(i)} ELSE part
  /\ UNCHANGED rest

\* (Mutants: one chunk fewer is enough; one more is needed.)
AllButOne(got) == Cardinality(got) >= NumChunks - 1
OneMore(got) == Cardinality(got) > NumChunks

Complete(got) == Cardinality(got) = NumChunks

\* (Mutant: NAME.part is left.)
EncryptOnly ==
  /\ rest' = part
  /\ linked' = {}
  /\ UNCHANGED part

\* finalize opens NAME.part by its name.
EncryptToRest ==
  /\ rest' = part
  /\ part' = Absent
  /\ linked' = {}

\* It stops halfway, with NAME begun anew and NAME.part left behind.
EncryptFails(h) ==
  /\ \E n \in 0..NumChunks : rest' = {i \in part : i < n}
  /\ linked' = linked \ {h}
  /\ UNCHANGED part

-----------------------------------------------------------------------------
(* Packets at the receiver. *)

Take(i) ==
  /\ serving
  /\ wire[i] > 0
  /\ wire' = [wire EXCEPT ![i] = @ - 1]

\* A header is ignored while its attachment is in the map.
HeaderArrives(h) ==
  /\ hand[h] = "idle"
  /\ Take(Header)
  /\ hand' = IF map = Absent THEN [hand EXCEPT ![h] = "make"] ELSE hand
  /\ UNCHANGED <<svars, sender, conn, map, files, seen, twice>>

\* make_reassembler needs the open vault.
MakeReassembler(h) ==
  /\ hand[h] = "make"
  /\ \/ /\ Locked \/ "disk" \in Events
        /\ hand' = [hand EXCEPT ![h] = "idle"]
        /\ Note({"gaveup"})
        /\ UNCHANGED files
     \/ /\ ~ Locked
        /\ hand' = [hand EXCEPT ![h] = "insert"]
        /\ OpenPart(h)
        /\ Note(IF part # Absent /\ linked # {} THEN {"shared"} ELSE {})
  /\ UNCHANGED <<svars, sender, conn, wire, map, twice>>

\* One that is in the map already is replaced.
InsertReassembler(h) ==
  /\ hand[h] = "insert"
  /\ hand' = [hand EXCEPT ![h] = "idle"]
  /\ map' = {}
  /\ linked' = (linked \ {h, "map"})
                 \union (IF h \in linked THEN {"map"} ELSE {})
  /\ UNCHANGED <<svars, sender, conn, wire, part, rest, seen, twice>>

\* A chunk without a header is dropped, and so is one that cannot be written.
ChunkDropped(h, i) ==
  /\ hand[h] = "idle"
  /\ Take(i)
  /\ \/ map = Absent
     \/ /\ map # Absent
        /\ i \notin map
        /\ "disk" \in Events
  /\ Note({"gaveup"})
  /\ UNCHANGED <<svars, sender, conn, map, hand, files, twice>>

\* The chunk that completes the attachment takes the reassembler out of the map.
ChunkArrives(h, i) ==
  /\ hand[h] = "idle"
  /\ Take(i)
  /\ map # Absent
  /\ IF i \in map THEN UNCHANGED <<part, rest>> ELSE WriteChunk("map", i)
  /\ IF Complete(map \union {i})
       THEN /\ map' = Absent
            /\ hand' = [hand EXCEPT ![h] = "final"]
            /\ linked' = (linked \ {"map"}) \union
                 (IF "map" \in linked THEN {h} ELSE {})
       ELSE /\ map' = map \union {i}
            /\ UNCHANGED <<hand, linked>>
  /\ UNCHANGED <<svars, sender, conn, seen, twice>>

\* Another handler that finalizes may have deleted NAME.part.
PacketsFinalize(h) ==
  /\ hand[h] = "final"
  /\ \/ /\ part = Absent
        /\ hand' = [hand EXCEPT ![h] = "idle"]
        /\ UNCHANGED <<files, seen>>
     \/ /\ part # Absent
        /\ hand' = [hand EXCEPT ![h] = "record"]
        /\ EncryptToRest
        /\ UNCHANGED seen
     \/ /\ part # Absent
        /\ "disk" \in Events
        /\ hand' = [hand EXCEPT ![h] = "idle"]
        /\ EncryptFails(h)
        /\ Note({"disk", "gaveup"})
  /\ UNCHANGED <<svars, sender, conn, wire, map, twice>>

\* The message is recorded and saved, whatever is recorded already.
PacketsRecord(h) ==
  /\ hand[h] = "record"
  /\ hand' = [hand EXCEPT ![h] = "idle"]
  /\ IF Locked
       THEN /\ Note({"gaveup"})
            /\ UNCHANGED svars
       ELSE /\ mem < MaxRecords  \* the bound
            /\ SaveVault(mem + 1)
  /\ UNCHANGED <<sender, conn, wire, map, files, twice>>

-----------------------------------------------------------------------------
\* Reassemblers and tasks end with the process; NAME.part stays.
Crash ==
  /\ "crash" \in Events
  /\ EndProcess
  /\ conn' = IF conn \in {"open", "header"} THEN "broken" ELSE conn
  /\ map' = Absent
  /\ hand' = [h \in Handlers |-> "idle"]
  /\ linked' = {}
  /\ UNCHANGED <<sender, wire, part, rest, twice>>

SessionStep ==
  /\ SessionNext
  /\ UNCHANGED <<sender, conn, wire, map, hand, files, twice>>

SenderStep ==
  \/ SendAttachment \/ KeepCopy \/ OpenStream \/ WriteFrame \/ FinishStream
  \/ StreamFails \/ ParkNext

PacketStep(h) ==
  \/ HeaderArrives(h) \/ MakeReassembler(h) \/ InsertReassembler(h)
  \/ \E i \in Chunks : ChunkDropped(h, i) \/ ChunkArrives(h, i)
  \/ PacketsFinalize(h) \/ PacketsRecord(h)

Next ==
  \/ SessionStep \/ SenderStep \/ StreamHeader \/ Crash
  \/ \E h \in Handlers : PacketStep(h)

Spec == Init /\ [][Next]_vars

-----------------------------------------------------------------------------
(* Properties. *)

Recorded == (mem # Absent /\ mem > 0) \/ (disk # Absent /\ disk > 0)

\* An attachment the vault lists is there, and whole, unless two reassemblers
\* had NAME.part open at once, or a repetition was cut short by a full disk: no
\* other mishap, order or repetition spoils it.
RecordedIsWhole ==
  Recorded => \/ rest = Chunks
              \/ "shared" \in seen
              \/ "disk" \in seen /\ twice = Packets

\* An attachment is listed twice only if the header and every chunk were handled
\* twice: single packets that are repeated, crossed or lost, with all their
\* races at the map, never make a second record.
RecordedOnce == mem \in {Absent, 0, 1} \/ twice = Packets

Holds(o) == IF o = "map" THEN map # Absent ELSE hand[o] \in {"insert", "final"}

\* The decrypted chunks lie in NAME.part only as long as a reassembler works on
\* that file, unless the process ended or the disk failed: no other path forgets
\* to remove them, not even when reassemblers share the file.
PartIsOwned ==
  part # Absent => \/ \E o \in linked : Holds(o)
                   \/ seen \intersect {"crash", "disk"} # {}

AllQuiet ==
  /\ sender.pc = "done"
  /\ \A i \in Packets : wire[i] = 0
  /\ \A h \in Handlers : hand[h] = "idle"

\* When the sender is done and everything has been handled, the attachment is
\* in the vault file, unless a step failed where the code gives up (a locked
\* vault, a failed save or write, chunks ahead of their header, the end of a
\* dropped stream taken for its acknowledgement), a crash, NAME.part shared, or
\* an unlock of an open session.
NothingForgotten ==
  AllQuiet => \/ disk # Absent /\ disk > 0
              \/ seen \intersect {"gaveup", "crash", "shared", "overrun"} # {}

\* What the vault file has stays there through locks, crashes, failed saves and
\* failed starts, unless a record was saved while an unlock that had read the
\* file before was under way.
SavedIsKept ==
  [][disk # Absent => disk' # Absent /\ (disk' >= disk \/ "overrun" \in seen)]_vars

\* net.rs, deliver_attachment: "a fast direct file stream when reachable (one
\* connection, all chunks), falling back to mailbox chunks when offline": no
\* chunk is parked for a recipient whose stream could be opened and did not
\* break.  (The code violates it.)
StreamedWhenReachable == sender.pc = "park" => conn \in {"none", "broken"}
=============================================================================
