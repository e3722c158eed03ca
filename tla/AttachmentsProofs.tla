------------------------- MODULE AttachmentsProofs -------------------------
(***************************************************************************)
(* Proofs about Attachments, for any number of chunks and handlers and any *)
(* choice of Events.                                                       *)
(***************************************************************************)
EXTENDS Attachments, FiniteSetTheorems, TLAPS

-----------------------------------------------------------------------------
(* The inductive invariant.                                                *)

\* The session: an open vault has a file, and so has one that is being read.
OpenedIsKept ==
  /\ mem # Absent => disk # Absent
  /\ login.pc = "derive" => login.read # Absent /\ disk # Absent

\* Memory is ahead of the file, and what an unlock has read is still there.
MemoryAhead ==
  "overrun" \notin seen =>
    /\ mem # Absent => mem >= disk
    /\ login.pc = "derive" => login.read = disk

SessionInv == OpenedIsKept /\ MemoryAhead

\* The vault, its file, or what an unlock has read of it lists the attachment.
Lists(v) == v # Absent /\ v > 0
AnyRecord == Lists(mem) \/ Lists(disk) \/ Lists(login.read)

Position(i) == IF i = Header THEN 0 ELSE i + 1
Unsent(i) ==
  \/ sender.pc \in {"idle", "copy", "dial", "write", "finish"}
  \/ sender.pc = "park" /\ sender.next <= Position(i)

\* Where a packet that was handled has gone: a reassembler to come, the one in
\* the map, a finished one.
Carries(o, i) ==
  IF o = "map" THEN map # Absent /\ (i = Header \/ i \in map)
  ELSE \/ hand[o] \in {"final", "record"}
       \/ i = Header /\ hand[o] \in {"make", "insert"}

Carriers(i) == {o \in Owners : Carries(o, i)}

UnsentIsNowhere(i) ==
  Unsent(i) => wire[i] = 0 /\ Carriers(i) = {} /\ i \notin twice /\ ~ AnyRecord

\* A packet that is handled once is in one place, or in one record.
HandledOnce(i) ==
  i \notin twice =>
    /\ wire[i] <= 1
    /\ \A a, b \in Carriers(i) : a = b
    /\ Carriers(i) # {} \/ AnyRecord => wire[i] = 0
    /\ AnyRecord => Carriers(i) = {}
    /\ \A v \in {mem, disk, login.read} : v \in {Absent, 0, 1}

\* None is handled more than twice.
HandledTwice(i) ==
  /\ wire[i] = 2 => Carriers(i) = {}
  /\ wire[i] = 1 => \A a, b \in Carriers(i) : a = b
  /\ \A a, b, c \in Carriers(i) : a = b \/ b = c \/ a = c

Tokens(i) == UnsentIsNowhere(i) /\ HandledOnce(i) /\ HandledTwice(i)

\* The map has no complete reassembler.
MapIncomplete == map # Absent => map # Chunks

NoPartNoLink == part = Absent => linked = {}

\* As long as no reassembler has opened the file of another, there is one.
Alone ==
  "shared" \notin seen =>
    /\ \A a, b \in linked : a = b
    /\ \A o \in Owners : Holds(o) => o \in linked
    /\ map # Absent => part = map
    /\ \A h \in Handlers :
         /\ hand[h] = "insert" => part = {}
         /\ hand[h] = "final" => part = Chunks

\* What is, or will be, recorded is whole.
WholeInRest ==
  AnyRecord \/ (\E h \in Handlers : hand[h] = "record") =>
    rest = Chunks \/ "shared" \in seen \/ ("disk" \in seen /\ twice = Packets)

\* Who has lost its file to another's finish is the last to come.
LastLosesFile ==
  seen \intersect {"crash", "disk"} = {} =>
    \A h \in Handlers : hand[h] = "insert" /\ h \notin linked =>
      /\ part = Absent /\ wire[Header] = 0 /\ ~ Unsent(Header)
      /\ \A g \in Handlers : hand[g] # "make"

FilesInv ==
  MapIncomplete /\ NoPartNoLink /\ Alone /\ WholeInRest /\ PartIsOwned /\ LastLosesFile

\* A chunk that was sent is on its way, at the receiver, or in the vault file.
Sent(i) ==
  sender.pc = "done" \/ (sender.pc = "park" /\ sender.next > Position(i))

Trouble == seen \intersect {"gaveup", "crash", "shared", "overrun"} # {}

ChunksAccounted ==
  ~ Trouble =>
    \A i \in Chunks : Sent(i) =>
      wire[i] > 0 \/ Carriers(i) # {} \/ Lists(disk)

IInv ==
  /\ TypeOK
  /\ SessionInv
  /\ \A i \in Packets : Tokens(i)
  /\ FilesInv
  /\ ChunksAccounted

-----------------------------------------------------------------------------
(* Constants and types.                                                    *)

LEMMA Constants ==
  /\ NumChunks \in Nat /\ NumChunks > 0 /\ MaxRecords \in Nat
  /\ Header \in Packets /\ Header \notin Chunks
  /\ Chunks \subseteq Packets /\ Packets \subseteq Nat
  /\ {} # Chunks
  /\ "map" \in Owners /\ Handlers \subseteq Owners
  /\ "map" \notin Handlers /\ Absent \notin Nat
<1>1. NumChunks \in Nat /\ NumChunks > 0 /\ MaxRecords \in Nat
  BY ConstantsAssumption, SessionAssumption
<1>2. 0 \in Chunks /\ Chunks \subseteq Nat /\ NumChunks \notin Chunks
  BY <1>1 DEF Chunks
<1>3. "map" \in Owners /\ Handlers \subseteq Owners
  BY DEF Owners
<1>4. Header \in Packets /\ Chunks \subseteq Packets /\ Packets \subseteq Nat
  BY <1>1, <1>2 DEF Header, Packets
<1> QED BY <1>1, <1>2, <1>3, <1>4, ConstantsAssumption, SessionAssumption DEF Header

\* A reassembler is complete when it has every chunk.
LEMMA CompleteChunks ==
  ASSUME NEW got \in SUBSET Chunks
  PROVE  got # Absent /\ (Complete(got) <=> got = Chunks)
<1>1. got # Absent
  BY ConstantsAssumption DEF Chunks
<1>2. IsFiniteSet(Chunks) /\ Cardinality(Chunks) = NumChunks
  BY FS_Interval, ConstantsAssumption DEF Chunks
<1>3. got # Chunks => Cardinality(got) # Cardinality(Chunks)
  BY <1>2, FS_Subset
<1> QED BY <1>1, <1>2, <1>3 DEF Complete

\* The fields of the state, for the arithmetic.
LEMMA Types ==
  ASSUME TypeOK
  PROVE  /\ mem \in Contents /\ disk \in Contents /\ login.read \in Contents
         /\ sender.next \in Nat /\ sender.next <= NumChunks
         /\ \A i \in Packets : wire[i] \in {0, 1, 2}
         /\ map # Absent => map \subseteq Chunks
         /\ part # Absent => part \subseteq Chunks
<1>1. \A i \in Packets : wire[i] \in 0..2
  BY DEF TypeOK
<1>2. \A n \in 0..2 : n \in {0, 1, 2}
  OBVIOUS
<1>3. sender.next \in 0..NumChunks
  BY DEF TypeOK
<1>4. mem \in Contents /\ disk \in Contents /\ login.read \in Contents
  BY DEF TypeOK, SessionTypeOK
<1>5. /\ map # Absent => map \subseteq Chunks
      /\ part # Absent => part \subseteq Chunks
  BY DEF TypeOK
<1> QED BY <1>1, <1>2, <1>3, <1>4, <1>5, Constants

-----------------------------------------------------------------------------
(* The session. *)

LEMMA SessionKept ==
  ASSUME SessionInv, UNCHANGED <<mem, disk, login>>, seen \subseteq seen'
  PROVE  SessionInv'
BY DEF SessionInv, OpenedIsKept, MemoryAhead

\* A save: the file is as before or what memory becomes.
LEMMA Saves ==
  ASSUME TypeOK, SessionInv, mem # Absent, NEW v \in {mem, mem + 1},
         v \in 0..MaxRecords, SaveVault(v)
  PROVE  /\ SessionTypeOK' /\ SessionInv'
         /\ mem' = v /\ UNCHANGED <<login, serving>>
         /\ seen \subseteq seen' /\ seen' \subseteq seen \union {"overrun", "gaveup"}
         /\ \/ disk' = v
            \/ disk' = disk /\ "gaveup" \in seen'
         /\ disk' # Absent
<1>1. /\ mem' = v /\ UNCHANGED <<login, serving>>
      /\ \/ /\ disk' = v
            /\ seen' = seen \union
                 (IF login.pc = "derive" /\ v # disk THEN {"overrun"} ELSE {})
         \/ disk' = disk /\ seen' = seen \union {"gaveup"}
  BY DEF SaveVault
<1>2. v \in Contents /\ v # Absent /\ v \in Nat /\ mem \in Nat
  BY Constants, Types DEF Contents
<1>3. SessionTypeOK'
  BY <1>1, <1>2 DEF TypeOK, SessionTypeOK
<1>4. OpenedIsKept'
  BY <1>1, <1>2 DEF SessionInv, OpenedIsKept
<1>5. MemoryAhead'
  <2> SUFFICES ASSUME "overrun" \notin seen'
               PROVE  v >= disk' /\ (login.pc = "derive" => login.read = disk')
    BY <1>1 DEF MemoryAhead
  <2>1. "overrun" \notin seen
    BY <1>1
  <2>2. mem >= disk /\ (login.pc = "derive" => login.read = disk)
    BY <2>1 DEF SessionInv, MemoryAhead
  <2>3. disk \in Nat
    BY Types, Constants DEF SessionInv, OpenedIsKept, Contents
  <2>4. CASE disk' = v
    BY <1>1, <1>2, <2>1, <2>2, <2>4
  <2>5. CASE disk' = disk
    BY <1>2, <2>2, <2>3, <2>5
  <2> QED BY <1>1, <2>4, <2>5
<1> QED BY <1>1, <1>2, <1>3, <1>4, <1>5 DEF SessionInv, OpenedIsKept

\* The steps of the session by itself put nothing into a vault that was not in
\* one before.
LEMMA SessionMoves ==
  ASSUME TypeOK, SessionInv, SessionNext
  PROVE  /\ SessionTypeOK' /\ SessionInv'
         /\ seen \subseteq seen' /\ seen' \subseteq seen \union {"overrun", "gaveup"}
         /\ {mem', disk', login'.read} \subseteq {mem, disk, login.read, Absent, 0}
         /\ "overrun" \notin seen => disk' = disk \/ disk = Absent \/ disk' >= disk
<1>1. CASE CreateAccount
  <2>1. 0 \in Contents
    BY Constants DEF Contents
  <2>2. SessionTypeOK'
    BY <1>1, <2>1 DEF CreateAccount, TypeOK, SessionTypeOK, EmptyVault, Contents,
       LoginStages
  <2>3. SessionInv'
    BY <1>1, Constants DEF CreateAccount, SessionInv, OpenedIsKept, MemoryAhead,
       EmptyVault
  <2> QED BY <1>1, <2>2, <2>3 DEF CreateAccount, EmptyVault
<1>2. CASE UnlockReads
  <2>1. SessionTypeOK'
    BY <1>2 DEF UnlockReads, TypeOK, SessionTypeOK, ReadVault, LoginStages
  <2>2. SessionInv'
    BY <1>2 DEF UnlockReads, SessionInv, OpenedIsKept, MemoryAhead, ReadVault
  <2> QED BY <1>2, <2>1, <2>2 DEF UnlockReads, ReadVault
<1>3. CASE UnlockInstalls
  <2>1. SessionTypeOK'
    BY <1>3, Types DEF UnlockInstalls, TypeOK, SessionTypeOK, LoginStages, Contents
  <2>2. SessionInv'
    BY <1>3, Types, Constants DEF UnlockInstalls, SessionInv, OpenedIsKept,
       MemoryAhead, Contents
  <2> QED BY <1>3, <2>1, <2>2 DEF UnlockInstalls
<1>4. CASE StartTransport
  <2>1. SessionTypeOK'
    BY <1>4 DEF StartTransport, TypeOK, SessionTypeOK, LoginStages, Contents, NoLogin
  <2>2. SessionInv'
    BY <1>4 DEF StartTransport, SessionInv, OpenedIsKept, MemoryAhead, NoLogin
  <2> QED BY <1>4, <2>1, <2>2 DEF StartTransport, NoLogin
<1>5. CASE Lock
  <2>1. SessionTypeOK' /\ SessionInv'
    BY <1>5 DEF Lock, TypeOK, SessionTypeOK, SessionInv, OpenedIsKept, MemoryAhead,
       Contents
  <2> QED BY <1>5, <2>1 DEF Lock
<1>6. CASE SetSettings
  <2>1. mem # Absent /\ SaveVault(mem) /\ mem \in 0..MaxRecords
    BY <1>6, Types DEF SetSettings, Locked, Contents
  <2>2. /\ SessionTypeOK' /\ SessionInv'
        /\ mem' = mem /\ UNCHANGED <<login, serving>>
        /\ seen \subseteq seen' /\ seen' \subseteq seen \union {"overrun", "gaveup"}
        /\ disk' = mem \/ disk' = disk
    BY <2>1, Saves
  <2>3. "overrun" \notin seen => mem >= disk
    BY <2>1 DEF SessionInv, MemoryAhead
  <2> QED BY <2>2, <2>3
<1> QED BY <1>1, <1>2, <1>3, <1>4, <1>5, <1>6 DEF SessionNext

-----------------------------------------------------------------------------
(* Packets: each copy is in one place.                                     *)

NoNewRecord ==
  {mem', disk', login'.read} \subseteq {mem, disk, login.read, Absent, 0}

LEMMA RecordsKept ==
  ASSUME NoNewRecord
  PROVE  /\ AnyRecord' => AnyRecord
         /\ (\A v \in {mem, disk, login.read} : v \in {Absent, 0, 1}) =>
              \A v \in {mem', disk', login'.read} : v \in {Absent, 0, 1}
BY DEF NoNewRecord, AnyRecord, Lists

\* A copy is lost, or goes from one place to another, or is taken off the wire.
Passes(i, a, b) ==
  \/ Carriers(i)' \subseteq Carriers(i)
  \/ /\ Carriers(i)' \subseteq (Carriers(i) \ {a}) \union {b}
     /\ a \in Carriers(i) \/ wire'[i] < wire[i]

LEMMA TokensMove ==
  ASSUME TypeOK, NEW i \in Packets, Tokens(i), NoNewRecord,
         wire'[i] \in {0, 1, 2}, wire'[i] <= wire[i],
         Unsent(i)' => Unsent(i), i \in twice' <=> i \in twice,
         NEW a, NEW b, Passes(i, a, b)
  PROVE  Tokens(i)'
<1>1. wire[i] \in {0, 1, 2}
  BY Types
<1>2. UnsentIsNowhere(i)'
  <2> SUFFICES ASSUME Unsent(i)'
               PROVE  wire'[i] = 0 /\ Carriers(i)' = {} /\ i \notin twice' /\ ~ AnyRecord'
    BY DEF UnsentIsNowhere
  <2>1. wire[i] = 0 /\ Carriers(i) = {} /\ i \notin twice /\ ~ AnyRecord
    BY DEF Tokens, UnsentIsNowhere
  <2> QED BY <2>1, RecordsKept DEF Passes
<1>3. HandledOnce(i)'
  <2> SUFFICES ASSUME i \notin twice'
               PROVE  /\ wire'[i] <= 1
                      /\ \A x, y \in Carriers(i)' : x = y
                      /\ Carriers(i)' # {} \/ AnyRecord' => wire'[i] = 0
                      /\ AnyRecord' => Carriers(i)' = {}
                      /\ \A v \in {mem', disk', login'.read} : v \in {Absent, 0, 1}
    BY DEF HandledOnce
  <2>1. /\ wire[i] <= 1
        /\ \A x, y \in Carriers(i) : x = y
        /\ Carriers(i) # {} \/ AnyRecord => wire[i] = 0
        /\ AnyRecord => Carriers(i) = {}
        /\ \A v \in {mem, disk, login.read} : v \in {Absent, 0, 1}
    BY DEF Tokens, HandledOnce
  <2>2. \A x, y \in Carriers(i)' : x = y
    BY <1>1, <2>1 DEF Passes
  <2>3. Carriers(i)' # {} \/ AnyRecord' => wire'[i] = 0
    BY <1>1, <2>1, RecordsKept DEF Passes
  <2>4. AnyRecord' => Carriers(i)' = {}
    BY <1>1, <2>1, RecordsKept DEF Passes
  <2> QED BY <1>1, <2>1, <2>2, <2>3, <2>4, RecordsKept
<1>4. HandledTwice(i)'
  <2>1. /\ wire[i] = 2 => Carriers(i) = {}
        /\ wire[i] = 1 => \A x, y \in Carriers(i) : x = y
        /\ \A x, y, z \in Carriers(i) : x = y \/ y = z \/ x = z
    BY DEF Tokens, HandledTwice
  <2> DEFINE C == Carriers(i)
             D == Carriers(i)'
  <2>2. \/ D \subseteq C
        \/ D \subseteq (C \ {a}) \union {b} /\ (a \in C \/ wire'[i] < wire[i])
    BY DEF Passes
  <2> HIDE DEF C, D
  <2>3. wire'[i] = 2 => D = {}
    BY <1>1, <2>1, <2>2 DEF C
  <2>4. wire'[i] = 1 => \A x, y \in D : x = y
    BY <1>1, <2>1, <2>2 DEF C
  <2>5. \A x, y, z \in D : x = y \/ y = z \/ x = z
    BY <1>1, <2>1, <2>2 DEF C
  <2> QED BY <2>3, <2>4, <2>5 DEF HandledTwice, D
<1> QED BY <1>2, <1>3, <1>4 DEF Tokens

\* A step that leaves the receiver's places alone, or empties some.
LEMMA TokensFewer ==
  ASSUME TypeOK, \A i \in Packets : Tokens(i), NoNewRecord,
         \A i \in Packets : wire'[i] \in {0, 1, 2} /\ wire'[i] <= wire[i],
         \A i \in Packets : Unsent(i)' => Unsent(i),
         twice' = twice,
         \A i \in Packets : Carriers(i)' \subseteq Carriers(i)
  PROVE  \A i \in Packets : Tokens(i)'
<1> TAKE i \in Packets
<1>1. Passes(i, 0, 0)
  BY DEF Passes
<1> QED BY <1>1, TokensMove

-----------------------------------------------------------------------------
(* Steps of others than the receiver's handlers.                           *)

LEMMA FilesKept ==
  ASSUME FilesInv, UNCHANGED <<map, hand, files>>, seen \subseteq seen', NoNewRecord,
         twice = Packets => twice' = Packets,
         wire[Header] = 0 /\ ~ Unsent(Header) =>
           wire'[Header] = 0 /\ ~ Unsent(Header)'
  PROVE  FilesInv'
<1>1. UNCHANGED <<map, hand, part, linked, rest>>
  BY DEF files
<1>2. MapIncomplete' /\ NoPartNoLink'
  BY <1>1 DEF FilesInv, MapIncomplete, NoPartNoLink
<1>3. Alone' /\ PartIsOwned'
  BY <1>1 DEF FilesInv, Alone, PartIsOwned, Holds
<1>4. WholeInRest'
  BY <1>1, RecordsKept DEF FilesInv, WholeInRest
<1>5. LastLosesFile'
  BY <1>1 DEF FilesInv, LastLosesFile
<1> QED BY <1>2, <1>3, <1>4, <1>5 DEF FilesInv

LEMMA CarriersKept ==
  ASSUME UNCHANGED <<map, hand>>, NEW i
  PROVE  Carriers(i)' = Carriers(i)
BY DEF Carriers, Carries

LEMMA Positions ==
  /\ \A i \in Packets : Position(i) \in Nat /\ Position(i) <= NumChunks
  /\ \A i, j \in Packets : Position(i) = Position(j) => i = j
  /\ Position(Header) = 0
BY Constants DEF Position, Packets, Chunks, Header

\* What the sender does before, and instead of, parking packets.
LEMMA StreamMoves ==
  ASSUME TypeOK, SendAttachment \/ KeepCopy \/ OpenStream \/ WriteFrame
                   \/ FinishStream \/ StreamFails
  PROVE  /\ UNCHANGED <<receiver, wire, twice>>
         /\ seen \subseteq seen' /\ seen' \subseteq seen \union {"gaveup"}
         /\ TypeOK'
         /\ \A i \in Packets :
              /\ Unsent(i)' <=> Unsent(i) /\ sender'.pc # "done" /\ sender'.pc # "failed"
              /\ "gaveup" \notin seen' => (Sent(i)' => Sent(i))
<1> DEFINE S == [pc : {"idle", "copy", "dial", "write", "finish", "park", "done",
                       "failed"}, next : 0..NumChunks]
<1>1. sender \in S /\ 0 \in 0..NumChunks
  BY Constants DEF TypeOK
<1>2. UNCHANGED <<receiver, wire, twice>>
      /\ seen \subseteq seen' /\ seen' \subseteq seen \union {"gaveup"}
      /\ conn' \in {"none", "open", "header", "dropped", "broken"}
  BY DEF SendAttachment, KeepCopy, OpenStream, WriteFrame, FinishStream,
     StreamFails, Note, TypeOK
<1>3. /\ sender' \in S
      /\ sender.pc \in {"idle", "copy", "dial", "write", "finish"}
      /\ \/ sender'.pc \in {"idle", "copy", "dial", "write", "finish"}
         \/ sender'.pc = "park" /\ sender'.next = 0
         \/ sender'.pc = "failed"
         \/ sender'.pc = "done" /\ "gaveup" \in seen'
  <2>1. CASE SendAttachment
    BY <1>1, <2>1 DEF SendAttachment
  <2>2. CASE KeepCopy
    BY <1>1, <2>2 DEF KeepCopy
  <2>3. CASE OpenStream
    BY <1>1, <2>3 DEF OpenStream, FallBack
  <2>4. CASE WriteFrame
    <3>1. sender.next # NumChunks => sender.next + 1 \in 0..NumChunks
      BY <1>1, Constants
    <3> QED BY <1>1, <2>4, <3>1 DEF WriteFrame
  <2>5. CASE FinishStream
    BY <1>1, <2>5 DEF FinishStream, Note
  <2>6. CASE StreamFails
    BY <1>1, <2>6 DEF StreamFails, FallBack
  <2> QED BY <2>1, <2>2, <2>3, <2>4, <2>5, <2>6
<1>4. TypeOK'
  BY <1>2, <1>3 DEF TypeOK, SessionTypeOK, receiver, svars, files
<1>5. ASSUME NEW i \in Packets
      PROVE  /\ Unsent(i)' <=>
                  Unsent(i) /\ sender'.pc # "done" /\ sender'.pc # "failed"
             /\ "gaveup" \notin seen' => (Sent(i)' => Sent(i))
  <2>1. Position(i)' = Position(i) /\ Position(i) \in Nat
    BY Positions DEF Position
  <2> QED BY <1>3, <2>1 DEF Unsent, Sent
<1> QED BY <1>2, <1>4, <1>5

\* A step without effect on what the receiver keeps.
LEMMA ElsewhereStep ==
  ASSUME IInv, TypeOK', UNCHANGED <<receiver, wire, twice>>,
         seen \subseteq seen',
         \A i \in Packets : Unsent(i)' => Unsent(i),
         ~ Unsent(Header) => ~ Unsent(Header)',
         ~ Trouble' => \A i \in Chunks : Sent(i)' => Sent(i)
  PROVE  IInv'
<1>1. UNCHANGED <<mem, disk, login, serving, map, hand, part, linked, rest>>
  BY DEF receiver, svars, files
<1>2. NoNewRecord /\ (AnyRecord' <=> AnyRecord)
  BY <1>1 DEF NoNewRecord, AnyRecord
<1>3. SessionInv'
  BY <1>1, SessionKept DEF IInv
<1>4. \A i \in Packets : Tokens(i)'
  <2>1. \A i \in Packets : wire'[i] \in {0, 1, 2} /\ wire'[i] <= wire[i]
    BY Types DEF IInv
  <2>2. \A i \in Packets : Carriers(i)' \subseteq Carriers(i)
    BY <1>1, CarriersKept
  <2> QED BY <1>2, <2>1, <2>2, TokensFewer DEF IInv
<1>5. FilesInv'
  BY <1>1, <1>2, FilesKept DEF IInv, files
<1>6. ChunksAccounted'
  BY <1>1, CarriersKept DEF IInv, ChunksAccounted, Trouble
<1> QED BY <1>3, <1>4, <1>5, <1>6 DEF IInv

LEMMA StreamStep ==
  ASSUME IInv, SendAttachment \/ KeepCopy \/ OpenStream \/ WriteFrame
                 \/ FinishStream \/ StreamFails
  PROVE  IInv'
<1>1. /\ UNCHANGED <<receiver, wire, twice>>
      /\ seen \subseteq seen' /\ TypeOK'
      /\ \A i \in Packets :
           /\ Unsent(i)' => Unsent(i)
           /\ "gaveup" \notin seen' => (Sent(i)' => Sent(i))
  BY StreamMoves DEF IInv
<1>2. ~ Unsent(Header) => ~ Unsent(Header)'
  BY StreamMoves, Constants DEF IInv
<1>3. ~ Trouble' => \A i \in Chunks : Sent(i)' => Sent(i)
  BY <1>1, Constants DEF Trouble
<1> QED BY <1>1, <1>2, <1>3, ElsewhereStep

LEMMA StreamHeaderStep ==
  ASSUME IInv, StreamHeader
  PROVE  IInv'
<1>1. TypeOK'
  BY DEF StreamHeader, IInv, TypeOK, SessionTypeOK, receiver, svars, files
<1> QED BY <1>1, ElsewhereStep DEF StreamHeader, Unsent, Position, Sent

LEMMA ParkStep ==
  ASSUME IInv, ParkNext
  PROVE  IInv'
<1> DEFINE packet == IF sender.next = 0 THEN Header ELSE sender.next - 1
<1>0. packet \in Packets /\ Position(packet) = sender.next
  BY Types, Constants DEF IInv, Position, Packets, Chunks, Header
<1>1. PICK p \in Packets :
        /\ p = packet /\ sender.pc = "park" /\ UNCHANGED <<receiver, conn, seen>>
        /\ \/ /\ \/ wire' = [wire EXCEPT ![p] = 1] /\ UNCHANGED twice
                 \/ wire' = [wire EXCEPT ![p] = 2] /\ twice' = twice \union {p}
              /\ sender' = IF sender.next = NumChunks
                             THEN [sender EXCEPT !.pc = "done"]
                             ELSE [sender EXCEPT !.next = sender.next + 1]
           \/ sender' = [sender EXCEPT !.pc = "failed"] /\ UNCHANGED <<wire, twice>>
  BY <1>0 DEF ParkNext
<1>2. p \in Packets /\ Position(p) = sender.next
  BY <1>0, <1>1
<1> HIDE DEF packet
<1>3. UNCHANGED <<mem, disk, login, serving, map, hand, part, linked, rest>>
  BY <1>1 DEF receiver, svars, files
<1>4. /\ \/ wire'[p] = 1 /\ twice' = twice
         \/ wire'[p] = 2 /\ twice' = twice \union {p}
         \/ wire' = wire /\ twice' = twice /\ sender'.pc = "failed"
      /\ \A i \in Packets : i # p => wire'[i] = wire[i]
  BY <1>1, <1>2 DEF IInv, TypeOK
<1>5. \/ sender'.pc = "park" /\ sender'.next = sender.next + 1
      \/ sender'.pc = "done" /\ sender.next = NumChunks
      \/ sender'.pc = "failed"
  BY <1>1 DEF IInv, TypeOK
<1>6. TypeOK'
  <2>1. sender.next # NumChunks => sender.next + 1 \in 0..NumChunks
    BY Types, Constants DEF IInv
  <2>2. sender' \in [pc : {"idle", "copy", "dial", "write", "finish", "park", "done",
                           "failed"}, next : 0..NumChunks]
    BY <1>1, <2>1 DEF IInv, TypeOK
  <2>3. wire' \in [Packets -> 0..2]
    <3>1. 1 \in 0..2 /\ 2 \in 0..2
      OBVIOUS
    <3> QED BY <1>1, <3>1 DEF IInv, TypeOK
  <2>4. twice' \subseteq Packets
    BY <1>2, <1>4 DEF IInv, TypeOK
  <2> QED BY <1>1, <1>3, <2>2, <2>3, <2>4 DEF IInv, TypeOK, SessionTypeOK
<1>7. NoNewRecord /\ (AnyRecord' <=> AnyRecord) /\ SessionInv'
  BY <1>1, <1>3, SessionKept DEF IInv, NoNewRecord, AnyRecord
<1>8. \A i \in Packets : Carriers(i)' = Carriers(i)
  BY <1>3, CarriersKept
<1>9. ASSUME NEW i \in Packets
      PROVE  /\ Unsent(i)' => Unsent(i) /\ i # p
             /\ ~ Unsent(i) => i # p /\ ~ Unsent(i)'
             /\ Sent(i)' => Sent(i) \/ (i = p /\ sender'.pc # "failed")
  <2>1. /\ Position(i)' = Position(i) /\ Position(i) \in Nat
        /\ Position(i) <= NumChunks /\ (Position(i) = sender.next => i = p)
    BY <1>2, Positions DEF Position
  <2>2. sender.next \in Nat /\ NumChunks \in Nat
    BY Types, Constants DEF IInv
  <2> QED BY <1>1, <1>2, <1>5, <2>1, <2>2 DEF Unsent, Sent
<1>10. \A i \in Packets : Tokens(i)'
  <2> SUFFICES ASSUME NEW i \in Packets
               PROVE  Tokens(i)'
    OBVIOUS
  <2>1. CASE i # p \/ (wire' = wire /\ twice' = twice)
    <3>1. wire'[i] = wire[i] /\ wire[i] \in {0, 1, 2} /\ (i \in twice' <=> i \in twice)
      BY <1>4, <2>1, Types DEF IInv
    <3>2. Passes(i, 0, 0)
      BY <1>8 DEF Passes
    <3>3. wire'[i] <= wire[i]
      BY <3>1
    <3> QED BY <1>7, <1>9, <3>1, <3>2, <3>3, TokensMove DEF IInv
  <2>2. CASE /\ i = p
             /\ \/ wire'[p] = 1 /\ twice' = twice
                \/ wire'[p] = 2 /\ twice' = twice \union {p}
    <3>1. Unsent(p)
      BY <1>1, <1>2, Types DEF IInv, Unsent
    <3>2. /\ wire[p] = 0 /\ Carriers(p) = {} /\ p \notin twice /\ ~ AnyRecord
          /\ \A v \in {mem, disk, login.read} : v \in {Absent, 0, 1}
      BY <1>2, <3>1 DEF IInv, Tokens, UnsentIsNowhere, HandledOnce
    <3>3. Carriers(p)' = {} /\ ~ AnyRecord' /\ ~ Unsent(p)'
      BY <1>2, <1>7, <1>8, <1>9, <3>2
    <3>4. UnsentIsNowhere(p)' /\ HandledTwice(p)'
      BY <3>3 DEF UnsentIsNowhere, HandledTwice
    <3>5. HandledOnce(p)'
      BY <1>3, <2>2, <3>2, <3>3 DEF HandledOnce
    <3> QED BY <2>2, <3>4, <3>5 DEF Tokens
  <2> QED BY <1>4, <2>1, <2>2
<1>11. FilesInv'
  <2>1. wire[Header] = 0 /\ ~ Unsent(Header) =>
          wire'[Header] = 0 /\ ~ Unsent(Header)'
    BY <1>4, <1>9, Constants
  <2>2. twice = Packets => twice' = Packets
    BY <1>2, <1>4
  <2> QED BY <1>1, <1>3, <1>7, <2>1, <2>2, FilesKept DEF IInv, files
<1>12. ChunksAccounted'
  <2> SUFFICES ASSUME ~ Trouble', NEW i \in Chunks, Sent(i)'
               PROVE  wire'[i] > 0 \/ Carriers(i)' # {} \/ Lists(disk')
    BY DEF ChunksAccounted, Lists
  <2>1. i \in Packets /\ ~ Trouble
    BY <1>1, Constants DEF Trouble
  <2>2. CASE i = p /\ sender'.pc # "failed"
    BY <1>4, <2>2
  <2>3. CASE Sent(i)
    <3>1. wire[i] > 0 \/ Carriers(i) # {} \/ Lists(disk)
      BY <2>1, <2>3 DEF IInv, ChunksAccounted
    <3>2. wire[i] > 0 => wire'[i] > 0
      BY <1>4, <2>1
    <3> QED BY <1>3, <1>8, <2>1, <3>1, <3>2
  <2> QED BY <1>9, <2>1, <2>2, <2>3
<1> QED BY <1>6, <1>7, <1>10, <1>11, <1>12 DEF IInv

LEMMA SessionStepKeeps ==
  ASSUME IInv, SessionStep
  PROVE  IInv'
<1>1. SessionNext /\ UNCHANGED <<sender, conn, wire, map, hand, files, twice>>
  BY DEF SessionStep
<1>2. /\ SessionTypeOK' /\ SessionInv' /\ NoNewRecord
      /\ seen \subseteq seen' /\ seen' \subseteq seen \union {"overrun", "gaveup"}
      /\ "overrun" \notin seen => disk' = disk \/ disk = Absent \/ disk' >= disk
      /\ disk # Absent => disk' # Absent
  <2>1. disk # Absent => disk' # Absent
    BY <1>1, Saves DEF IInv, SessionNext, CreateAccount, UnlockReads,
       UnlockInstalls, StartTransport, Lock, SetSettings, SaveVault, Locked
  <2> QED BY <1>1, <2>1, SessionMoves DEF IInv, NoNewRecord
<1>3. UNCHANGED <<part, linked, rest>>
  BY <1>1 DEF files
<1>4. TypeOK'
  BY <1>1, <1>2, <1>3 DEF IInv, TypeOK
<1>5. \A i \in Packets : Carriers(i)' = Carriers(i)
  BY <1>1, CarriersKept
<1>6. \A i \in Packets : Tokens(i)'
  <2>1. \A i \in Packets : wire'[i] \in {0, 1, 2} /\ wire'[i] <= wire[i]
    BY <1>1, Types DEF IInv
  <2>2. \A i \in Packets : Unsent(i)' => Unsent(i)
    BY <1>1 DEF Unsent, Position
  <2> QED BY <1>1, <1>2, <1>5, <2>1, <2>2, TokensFewer DEF IInv
<1>7. FilesInv'
  BY <1>1, <1>2, FilesKept DEF IInv, Unsent, Position
<1>8. ChunksAccounted'
  <2> SUFFICES ASSUME ~ Trouble', NEW i \in Chunks, Sent(i)'
               PROVE  wire'[i] > 0 \/ Carriers(i)' # {} \/ Lists(disk')
    BY DEF ChunksAccounted, Lists
  <2>1. ~ Trouble /\ "overrun" \notin seen /\ Sent(i) /\ i \in Packets
    BY <1>1, <1>2, Constants DEF Trouble, Sent, Position
  <2>2. wire[i] > 0 \/ Carriers(i) # {} \/ Lists(disk)
    BY <2>1 DEF IInv, ChunksAccounted
  <2>3. Lists(disk) => Lists(disk')
    <3>1. disk \in Contents /\ disk' \in Contents
      BY <1>2, Types DEF IInv, SessionTypeOK, Contents
    <3> QED BY <1>2, <2>1, <3>1, Constants DEF Lists, Contents
  <2> QED BY <1>1, <1>5, <2>1, <2>2, <2>3
<1> QED BY <1>2, <1>4, <1>6, <1>7, <1>8 DEF IInv

LEMMA CrashStep ==
  ASSUME IInv, Crash
  PROVE  IInv'
<1>1. /\ mem' = Absent /\ disk' = disk /\ login' = NoLogin /\ serving' = FALSE
      /\ seen' = seen \union {"crash"}
      /\ map' = Absent /\ hand' = [h \in Handlers |-> "idle"] /\ linked' = {}
      /\ conn' \in {conn, "broken"}
      /\ UNCHANGED <<sender, wire, part, rest, twice>>
  BY DEF Crash, EndProcess
<1>2. TypeOK'
  <2>1. SessionTypeOK'
    BY <1>1 DEF IInv, TypeOK, SessionTypeOK, NoLogin, LoginStages, Contents
  <2> QED BY <1>1, <2>1 DEF IInv, TypeOK
<1>3. SessionInv' /\ NoNewRecord
  BY <1>1 DEF IInv, SessionInv, OpenedIsKept, MemoryAhead, NoLogin, NoNewRecord
<1>4. \A h \in Handlers : hand'[h] = "idle"
  BY <1>1
<1>5. \A i \in Packets : Carriers(i)' = {}
  BY <1>1, <1>4 DEF Carriers, Carries, Owners
<1>6. \A i \in Packets : Tokens(i)'
  <2>1. \A i \in Packets : wire'[i] \in {0, 1, 2} /\ wire'[i] <= wire[i]
    BY <1>1, Types DEF IInv
  <2>2. \A i \in Packets : Unsent(i)' => Unsent(i)
    BY <1>1 DEF Unsent, Position
  <2> QED BY <1>1, <1>3, <1>5, <2>1, <2>2, TokensFewer DEF IInv
<1>7. MapIncomplete' /\ NoPartNoLink' /\ LastLosesFile' /\ PartIsOwned'
  BY <1>1 DEF MapIncomplete, NoPartNoLink, LastLosesFile, PartIsOwned
<1>8. Alone'
  BY <1>1, <1>4 DEF Alone, Holds, Owners
<1>9. WholeInRest'
  BY <1>1, <1>3, <1>4, RecordsKept DEF IInv, FilesInv, WholeInRest
<1>10. ChunksAccounted'
  BY <1>1 DEF ChunksAccounted, Trouble
<1> QED BY <1>2, <1>3, <1>6, <1>7, <1>8, <1>9, <1>10 DEF IInv, FilesInv

-----------------------------------------------------------------------------
(* The receiver's handlers.                                                *)

\* What most of their steps leave alone.
LEMMA Still ==
  ASSUME IInv, UNCHANGED <<svars, sender, twice>>, seen \subseteq seen'
  PROVE  /\ SessionTypeOK' /\ SessionInv' /\ NoNewRecord
         /\ AnyRecord' = AnyRecord
         /\ disk' = disk
         /\ \A i \in Packets : Unsent(i)' = Unsent(i) /\ Sent(i)' = Sent(i)
         /\ Trouble => Trouble'
<1>1. UNCHANGED <<mem, disk, login, serving>>
  BY DEF svars
<1>2. SessionTypeOK' /\ SessionInv'
  BY <1>1, SessionKept DEF IInv, TypeOK, SessionTypeOK
<1> QED BY <1>1, <1>2 DEF NoNewRecord, AnyRecord, Unsent, Sent, Position, Trouble

LEMMA Hands ==
  ASSUME TypeOK, NEW h \in Handlers, NEW pc, hand' = [hand EXCEPT ![h] = pc],
         pc \in {"idle", "make", "insert", "final", "record"}
  PROVE  /\ hand' \in [Handlers -> {"idle", "make", "insert", "final", "record"}]
         /\ \A g \in Handlers : hand'[g] = IF g = h THEN pc ELSE hand[g]
BY DEF TypeOK

LEMMA Taken ==
  ASSUME TypeOK, NEW p \in Packets, Take(p)
  PROVE  /\ wire' \in [Packets -> 0..2]
         /\ wire[p] > 0 /\ wire'[p] < wire[p]
         /\ \A i \in Packets :
              /\ wire'[i] \in {0, 1, 2} /\ wire'[i] <= wire[i]
              /\ i # p => wire'[i] = wire[i]
<1>1. wire' = [wire EXCEPT ![p] = wire[p] - 1] /\ wire[p] > 0
  BY DEF Take
<1>2. \A i \in Packets : wire[i] \in {0, 1, 2}
  BY Types
<1>3. wire[p] - 1 \in {0, 1} /\ wire[p] - 1 < wire[p]
  BY <1>1, <1>2
<1>4. wire' \in [Packets -> 0..2]
  <2>1. wire[p] - 1 \in 0..2
    BY <1>3
  <2> QED BY <1>1, <2>1 DEF TypeOK
<1>5. wire'[p] = wire[p] - 1 /\ \A i \in Packets : i # p => wire'[i] = wire[i]
  BY <1>1 DEF TypeOK
<1> QED BY <1>1, <1>2, <1>3, <1>4, <1>5

LEMMA HeaderStep ==
  ASSUME IInv, NEW h \in Handlers, HeaderArrives(h)
  PROVE  IInv'
<1>1. /\ hand[h] = "idle" /\ Take(Header)
      /\ hand' = [hand EXCEPT ![h] = "make"] \/ hand' = hand
      /\ UNCHANGED <<svars, sender, conn, map, part, linked, rest, seen, twice>>
  BY DEF HeaderArrives, files
<1>2. /\ wire' \in [Packets -> 0..2]
      /\ wire[Header] > 0 /\ wire'[Header] < wire[Header]
      /\ \A i \in Packets :
           /\ wire'[i] \in {0, 1, 2} /\ wire'[i] <= wire[i]
           /\ i # Header => wire'[i] = wire[i]
  BY <1>1, Taken, Constants DEF IInv
<1>3. /\ hand' \in [Handlers -> {"idle", "make", "insert", "final", "record"}]
      /\ \A g \in Handlers : hand'[g] = hand[g] \/ (g = h /\ hand'[g] = "make")
  BY <1>1, Hands DEF IInv, TypeOK
<1>4. /\ SessionTypeOK' /\ SessionInv' /\ NoNewRecord
      /\ AnyRecord' = AnyRecord /\ disk' = disk
      /\ \A i \in Packets : Unsent(i)' = Unsent(i) /\ Sent(i)' = Sent(i)
      /\ Trouble => Trouble'
  BY <1>1, Still
<1>5. TypeOK'
  BY <1>1, <1>2, <1>3, <1>4 DEF IInv, TypeOK
<1>6. /\ Carriers(Header)' \subseteq Carriers(Header) \union {h}
      /\ \A i \in Chunks : Carriers(i)' = Carriers(i)
  BY <1>1, <1>3, Constants DEF Carriers, Carries, Owners
<1>7. \A i \in Packets : Tokens(i)'
  <2> TAKE i \in Packets
  <2>1. CASE i = Header
    <3>1. Passes(Header, h, h)
      BY <1>2, <1>6 DEF Passes
    <3> QED BY <1>1, <1>2, <1>4, <2>1, <3>1, TokensMove DEF IInv
  <2>2. CASE i \in Chunks
    <3>1. Passes(i, h, h)
      BY <1>6, <2>2 DEF Passes
    <3> QED BY <1>1, <1>2, <1>4, <3>1, TokensMove DEF IInv
  <2> QED BY <2>1, <2>2 DEF Packets
<1>8. FilesInv'
  <2>1. MapIncomplete' /\ NoPartNoLink'
    BY <1>1 DEF IInv, FilesInv, MapIncomplete, NoPartNoLink
  <2>2. \A o \in Owners : Holds(o)' <=> Holds(o)
    BY <1>1, <1>3 DEF Holds, Owners
  <2>3. Alone'
    <3>1. \A g \in Handlers : /\ hand'[g] = "insert" => hand[g] = "insert"
                              /\ hand'[g] = "final" => hand[g] = "final"
      BY <1>3
    <3> QED BY <1>1, <2>2, <3>1 DEF IInv, FilesInv, Alone
  <2>4. PartIsOwned'
    <3>1. linked \subseteq Owners
      BY DEF IInv, TypeOK
    <3> QED BY <1>1, <2>2, <3>1 DEF IInv, FilesInv, PartIsOwned
  <2>5. WholeInRest'
    BY <1>1, <1>3, <1>4 DEF IInv, FilesInv, WholeInRest
  <2>6. LastLosesFile'
    BY <1>1, <1>2, <1>3 DEF IInv, FilesInv, LastLosesFile
  <2> QED BY <2>1, <2>3, <2>4, <2>5, <2>6 DEF FilesInv
<1>9. ChunksAccounted'
  BY <1>1, <1>2, <1>4, <1>6, Constants DEF IInv, ChunksAccounted
<1> QED BY <1>4, <1>5, <1>7, <1>8, <1>9 DEF IInv

LEMMA MakeStep ==
  ASSUME IInv, NEW h \in Handlers, MakeReassembler(h)
  PROVE  IInv'
<1>1. /\ hand[h] = "make"
      /\ \/ /\ hand' = [hand EXCEPT ![h] = "idle"]
            /\ seen' = seen \union {"gaveup"}
            /\ UNCHANGED <<part, linked, rest>>
         \/ /\ hand' = [hand EXCEPT ![h] = "insert"]
            /\ OpenPart(h)
            /\ seen' = seen \union (IF part # Absent /\ linked # {} THEN {"shared"} ELSE {})
      /\ UNCHANGED <<svars, sender, conn, wire, map, twice>>
  BY DEF MakeReassembler, files, Note
<1>2. PICK pc \in {"idle", "insert"} : hand' = [hand EXCEPT ![h] = pc]
  BY <1>1
<1>3. /\ hand' \in [Handlers -> {"idle", "make", "insert", "final", "record"}]
      /\ \A g \in Handlers : hand'[g] = IF g = h THEN pc ELSE hand[g]
  BY <1>2, Hands DEF IInv
<1>4. /\ SessionTypeOK' /\ SessionInv' /\ NoNewRecord
      /\ AnyRecord' = AnyRecord /\ disk' = disk
      /\ \A i \in Packets : Unsent(i)' = Unsent(i) /\ Sent(i)' = Sent(i)
      /\ Trouble => Trouble'
  BY <1>1, Still
<1>5. h \in Owners /\ h # "map" /\ {} # Absent /\ {} \subseteq Chunks
  BY Constants, CompleteChunks
<1>6. NoPartNoLink /\ Alone /\ PartIsOwned /\ LastLosesFile /\ WholeInRest
      /\ MapIncomplete
  BY DEF IInv, FilesInv
<1>7. \/ UNCHANGED <<part, linked, rest>> /\ pc = "idle" /\ seen' = seen \union {"gaveup"}
      \/ /\ part' = {} /\ linked' = linked \union {h} /\ rest' = rest /\ pc = "insert"
         /\ seen' = seen \union (IF part # Absent /\ linked # {} THEN {"shared"} ELSE {})
  <2>1. hand' = [hand EXCEPT ![h] = "idle"] => pc = "idle"
    BY <1>3 DEF IInv, TypeOK
  <2>2. hand' = [hand EXCEPT ![h] = "insert"] => pc = "insert"
    BY <1>3 DEF IInv, TypeOK
  <2> QED BY <1>1, <1>6, <2>1, <2>2 DEF OpenPart, NoPartNoLink
<1>8. TypeOK'
  BY <1>1, <1>3, <1>4, <1>5, <1>7 DEF IInv, TypeOK
<1>9. /\ \A i \in Packets : Carriers(i)' \subseteq Carriers(i)
      /\ \A i \in Chunks : Carriers(i)' = Carriers(i)
  BY <1>1, <1>3, Constants DEF Carriers, Carries, Owners
<1>10. \A i \in Packets : Tokens(i)'
  <2>1. \A i \in Packets : wire'[i] \in {0, 1, 2} /\ wire'[i] <= wire[i]
    BY <1>1, Types DEF IInv
  <2> QED BY <1>1, <1>4, <1>9, <2>1, TokensFewer DEF IInv
<1>11. FilesInv'
  <2>1. MapIncomplete' /\ NoPartNoLink'
    BY <1>1, <1>5, <1>6, <1>7 DEF MapIncomplete, NoPartNoLink
  <2>2. Alone'
    <3>1. CASE UNCHANGED <<part, linked, rest>>
      BY <1>1, <1>3, <1>5, <1>6, <1>7, <3>1 DEF Alone, Holds, Owners
    <3>2. CASE /\ part' = {} /\ linked' = linked \union {h} /\ pc = "insert"
               /\ seen' = seen \union (IF part # Absent /\ linked # {} THEN {"shared"} ELSE {})
      <4> SUFFICES ASSUME "shared" \notin seen'
                   PROVE  Alone!2'
        BY DEF Alone
      <4>1. "shared" \notin seen /\ linked = {}
        BY <1>6, <3>2 DEF NoPartNoLink
      <4>2. \A o \in Owners : ~ Holds(o)
        BY <1>6, <4>1 DEF Alone
      <4>3. map = Absent /\ \A g \in Handlers : hand[g] \notin {"insert", "final"}
        BY <4>2, Constants DEF Holds
      <4> QED BY <1>1, <1>3, <1>5, <3>2, <4>1, <4>3 DEF Holds, Owners
    <3> QED BY <1>7, <3>1, <3>2
  <2>3. WholeInRest'
    BY <1>1, <1>2, <1>3, <1>4, <1>6, <1>7 DEF WholeInRest
  <2>4. PartIsOwned'
    <3>1. CASE UNCHANGED <<part, linked, rest>>
      BY <1>1, <1>3, <1>5, <1>6, <1>7, <3>1 DEF PartIsOwned, Holds, IInv, TypeOK, Owners
    <3>2. CASE linked' = linked \union {h} /\ pc = "insert"
      BY <1>3, <1>5, <3>2 DEF PartIsOwned, Holds
    <3> QED BY <1>7, <3>1, <3>2
  <2>5. LastLosesFile'
    BY <1>1, <1>3, <1>4, <1>6, <1>7, Constants DEF LastLosesFile
  <2> QED BY <2>1, <2>2, <2>3, <2>4, <2>5 DEF FilesInv
<1>12. ChunksAccounted'
  BY <1>1, <1>4, <1>9, Constants DEF IInv, ChunksAccounted
<1> QED BY <1>4, <1>8, <1>10, <1>11, <1>12 DEF IInv

LEMMA InsertStep ==
  ASSUME IInv, NEW h \in Handlers, InsertReassembler(h)
  PROVE  IInv'
<1>1. /\ hand[h] = "insert" /\ hand' = [hand EXCEPT ![h] = "idle"] /\ map' = {}
      /\ linked' = (linked \ {h, "map"}) \union (IF h \in linked THEN {"map"} ELSE {})
      /\ UNCHANGED <<svars, sender, conn, wire, part, rest, seen, twice>>
  BY DEF InsertReassembler
<1>2. /\ hand' \in [Handlers -> {"idle", "make", "insert", "final", "record"}]
      /\ \A g \in Handlers : hand'[g] = IF g = h THEN "idle" ELSE hand[g]
  BY <1>1, Hands DEF IInv
<1>3. /\ SessionTypeOK' /\ SessionInv' /\ NoNewRecord
      /\ AnyRecord' = AnyRecord /\ disk' = disk
      /\ \A i \in Packets : Unsent(i)' = Unsent(i) /\ Sent(i)' = Sent(i)
      /\ Trouble => Trouble'
  BY <1>1, Still
<1>4. h \in Owners /\ h # "map" /\ {} # Absent /\ {} \subseteq Chunks /\ {} # Chunks
  BY Constants, CompleteChunks
<1>5. NoPartNoLink /\ Alone /\ PartIsOwned /\ LastLosesFile /\ WholeInRest
  BY DEF IInv, FilesInv
<1>6. linked \subseteq Owners
  BY DEF IInv, TypeOK
<1>7. TypeOK'
  <2>1. linked' \subseteq Owners
    BY <1>1, <1>6, Constants
  <2> QED BY <1>1, <1>2, <1>3, <1>4, <2>1 DEF IInv, TypeOK
<1>8. /\ h \in Carriers(Header) /\ Carriers(Header)' \subseteq (Carriers(Header) \ {h}) \union {"map"}
      /\ \A i \in Chunks : Carriers(i)' \subseteq Carriers(i)
      /\ map = Absent => \A i \in Chunks : Carriers(i)' = Carriers(i)
  BY <1>1, <1>2, <1>4, Constants DEF Carriers, Carries, Owners
<1>9. \A i \in Packets : Tokens(i)'
  <2> TAKE i \in Packets
  <2>1. wire'[i] \in {0, 1, 2} /\ wire'[i] <= wire[i]
    BY <1>1, Types DEF IInv
  <2>2. Passes(i, h, "map")
    BY <1>8 DEF Passes, Packets
  <2> QED BY <1>1, <1>3, <2>1, <2>2, TokensMove DEF IInv
<1>10. "shared" \notin seen =>
         /\ linked = {h} /\ map = Absent /\ part = {}
         /\ \A g \in Handlers : hand[g] \in {"insert", "final"} => g = h
  <2>1. Holds(h) /\ (map # Absent => Holds("map"))
        /\ \A g \in Handlers : hand[g] \in {"insert", "final"} => Holds(g)
    BY <1>1, <1>4, Constants DEF Holds
  <2> QED BY <1>1, <1>4, <1>5, <2>1, Constants DEF Alone
<1>11. FilesInv'
  <2>1. MapIncomplete' /\ NoPartNoLink'
    BY <1>1, <1>4, <1>5 DEF MapIncomplete, NoPartNoLink
  <2>2. Alone'
    <3> SUFFICES ASSUME "shared" \notin seen
                 PROVE  Alone!2'
      BY <1>1 DEF Alone
    <3>1. linked' = {"map"} /\ part' = {} /\ map' = {}
          /\ \A g \in Handlers : hand'[g] \notin {"insert", "final"}
      BY <1>1, <1>2, <1>10
    <3> QED BY <3>1 DEF Holds, Owners
  <2>3. WholeInRest'
    BY <1>1, <1>2, <1>3, <1>5 DEF WholeInRest
  <2>4. PartIsOwned'
    BY <1>1, <1>4, <1>5, Constants DEF PartIsOwned, LastLosesFile, Holds
  <2>5. LastLosesFile'
    BY <1>1, <1>2, <1>3, <1>5, Constants DEF LastLosesFile
  <2> QED BY <2>1, <2>2, <2>3, <2>4, <2>5 DEF FilesInv
<1>12. ChunksAccounted'
  BY <1>1, <1>3, <1>8, <1>10, Constants DEF IInv, ChunksAccounted, Trouble
<1> QED BY <1>3, <1>7, <1>9, <1>11, <1>12 DEF IInv

LEMMA DropStep ==
  ASSUME IInv, NEW h \in Handlers, NEW i \in Chunks, ChunkDropped(h, i)
  PROVE  IInv'
<1>1. /\ Take(i) /\ seen' = seen \union {"gaveup"}
      /\ UNCHANGED <<svars, sender, conn, map, hand, part, linked, rest, twice>>
  BY DEF ChunkDropped, Note, files
<1>2. i \in Packets
  BY Constants
<1>3. /\ wire' \in [Packets -> 0..2]
      /\ \A j \in Packets : wire'[j] \in {0, 1, 2} /\ wire'[j] <= wire[j]
      /\ wire'[Header] = wire[Header]
  BY <1>1, <1>2, Taken, Constants DEF IInv
<1>4. /\ SessionTypeOK' /\ SessionInv' /\ NoNewRecord
      /\ \A j \in Packets : Unsent(j)' = Unsent(j) /\ Sent(j)' = Sent(j)
  BY <1>1, Still
<1>5. TypeOK'
  BY <1>1, <1>3, <1>4 DEF IInv, TypeOK
<1>6. \A j \in Packets : Tokens(j)'
  <2>1. \A j \in Packets : Carriers(j)' \subseteq Carriers(j)
    BY <1>1, CarriersKept
  <2> QED BY <1>1, <1>3, <1>4, <2>1, TokensFewer DEF IInv
<1>7. FilesInv'
  BY <1>1, <1>3, <1>4, FilesKept, Constants DEF IInv, files
<1>8. ChunksAccounted'
  BY <1>1 DEF ChunksAccounted, Trouble
<1> QED BY <1>4, <1>5, <1>6, <1>7, <1>8 DEF IInv

\* A chunk that arrives and is written, if the reassembler still has a file.
LEMMA ChunkWritten ==
  ASSUME IInv, NEW h \in Handlers, NEW i \in Chunks, ChunkArrives(h, i)
  PROVE  /\ hand[h] = "idle" /\ Take(i) /\ map # Absent
         /\ map \union {i} \in SUBSET Chunks /\ map \union {i} # Absent
         /\ part' = part \/ (part # Absent /\ part' = part \union {i})
         /\ part' \in (SUBSET Chunks) \union {Absent} /\ (part' = Absent <=> part = Absent)
         /\ \/ /\ map \union {i} = Chunks
               /\ map' = Absent /\ hand' = [hand EXCEPT ![h] = "final"]
               /\ linked' = (linked \ {"map"}) \union
                    (IF "map" \in linked THEN {h} ELSE {})
            \/ /\ map \union {i} # Chunks
               /\ map' = map \union {i}
               /\ UNCHANGED <<hand, linked>>
         /\ UNCHANGED <<svars, sender, conn, rest, seen, twice>>
         /\ "shared" \notin seen =>
              /\ linked = {"map"} /\ part' = map \union {i}
              /\ \A g \in Handlers : hand[g] \notin {"insert", "final"}
<1>1. /\ hand[h] = "idle" /\ Take(i) /\ map # Absent
      /\ part' = IF i \notin map /\ "map" \in linked THEN part \union {i} ELSE part
      /\ UNCHANGED <<svars, sender, conn, rest, seen, twice>>
  BY DEF ChunkArrives, WriteChunk, Place
<1>2. map \union {i} \in SUBSET Chunks /\ map \union {i} # Absent
  BY <1>1, Types, CompleteChunks DEF IInv
<1>3. part # Absent => part \union {i} \in SUBSET Chunks
  BY Types DEF IInv
<1>4. \A got \in SUBSET Chunks : got # Absent
  BY CompleteChunks
<1>5. "map" \in linked => part # Absent
  BY DEF IInv, FilesInv, NoPartNoLink
<1>6. part \in (SUBSET Chunks) \union {Absent}
  BY DEF IInv, TypeOK
<1>7. "shared" \notin seen =>
        /\ linked = {"map"} /\ part = map
        /\ \A g \in Handlers : hand[g] \notin {"insert", "final"}
  <2> SUFFICES ASSUME "shared" \notin seen
               PROVE  /\ linked = {"map"} /\ part = map
                      /\ \A g \in Handlers : hand[g] \notin {"insert", "final"}
    OBVIOUS
  <2>1. /\ \A a, b \in linked : a = b
        /\ \A o \in Owners : Holds(o) => o \in linked
        /\ part = map
    BY <1>1 DEF IInv, FilesInv, Alone
  <2>2. "map" \in linked
    BY <1>1, <2>1, Constants DEF Holds
  <2> QED BY <2>1, <2>2, Constants DEF Holds
<1>8. \/ /\ map \union {i} = Chunks
         /\ map' = Absent /\ hand' = [hand EXCEPT ![h] = "final"]
         /\ linked' = (linked \ {"map"}) \union (IF "map" \in linked THEN {h} ELSE {})
      \/ /\ map \union {i} # Chunks
         /\ map' = map \union {i}
         /\ UNCHANGED <<hand, linked>>
  BY <1>2, CompleteChunks DEF ChunkArrives
<1>9. part' = part \/ (part # Absent /\ part' = part \union {i})
  BY <1>1, <1>5
<1>10. "shared" \notin seen => part' = map \union {i}
  BY <1>1, <1>7
<1> QED BY <1>1, <1>2, <1>3, <1>4, <1>6, <1>7, <1>8, <1>9, <1>10

LEMMA ChunkStep ==
  ASSUME IInv, NEW h \in Handlers, NEW i \in Chunks, ChunkArrives(h, i)
  PROVE  IInv'
<1>1. /\ hand[h] = "idle" /\ Take(i) /\ map # Absent
      /\ map \union {i} \in SUBSET Chunks /\ map \union {i} # Absent
      /\ part' \in (SUBSET Chunks) \union {Absent} /\ (part' = Absent <=> part = Absent)
      /\ UNCHANGED <<svars, sender, conn, rest, seen, twice>>
      /\ "shared" \notin seen =>
           /\ linked = {"map"} /\ part' = map \union {i}
           /\ \A g \in Handlers : hand[g] \notin {"insert", "final"}
  BY ChunkWritten
<1>2. h \in Owners /\ h # "map" /\ i \in Packets /\ i # Header
  BY Constants
<1>3. /\ wire' \in [Packets -> 0..2]
      /\ wire'[i] < wire[i] /\ wire'[Header] = wire[Header]
      /\ \A j \in Packets :
           /\ wire'[j] \in {0, 1, 2} /\ wire'[j] <= wire[j]
           /\ j # i => wire'[j] = wire[j]
  BY <1>1, <1>2, Taken, Constants DEF IInv
<1>4. /\ SessionTypeOK' /\ SessionInv' /\ NoNewRecord
      /\ AnyRecord' = AnyRecord /\ disk' = disk
      /\ \A j \in Packets : Unsent(j)' = Unsent(j) /\ Sent(j)' = Sent(j)
      /\ Trouble => Trouble'
  BY <1>1, Still
<1>5. NoPartNoLink /\ Alone /\ PartIsOwned /\ LastLosesFile /\ WholeInRest
  BY DEF IInv, FilesInv
<1>6. linked \subseteq Owners
  BY DEF IInv, TypeOK
<1>7. CASE /\ map \union {i} = Chunks
           /\ map' = Absent /\ hand' = [hand EXCEPT ![h] = "final"]
           /\ linked' = (linked \ {"map"}) \union (IF "map" \in linked THEN {h} ELSE {})
  <2>1. /\ hand' \in [Handlers -> {"idle", "make", "insert", "final", "record"}]
        /\ \A g \in Handlers : hand'[g] = IF g = h THEN "final" ELSE hand[g]
    BY <1>7, Hands DEF IInv
  <2>2. TypeOK'
    <3>1. linked' \subseteq Owners
      BY <1>2, <1>6, <1>7
    <3> QED BY <1>1, <1>3, <1>4, <1>7, <2>1, <3>1 DEF IInv, TypeOK
  <2>3. \A j \in Packets : /\ Carriers(j)' \subseteq (Carriers(j) \ {"map"}) \union {h}
                          /\ h \in Carriers(j)'
    BY <1>2, <1>7, <2>1, Constants DEF Carriers, Carries, Owners
  <2>4. \A j \in Packets : j # i => "map" \in Carriers(j)
    BY <1>1, <1>7, Constants DEF Carriers, Carries, Packets
  <2>5. \A j \in Packets : Tokens(j)'
    <3> TAKE j \in Packets
    <3>1. Passes(j, "map", h)
      BY <1>3, <2>3, <2>4 DEF Passes
    <3> QED BY <1>1, <1>3, <1>4, <3>1, TokensMove DEF IInv
  <2>6. MapIncomplete' /\ NoPartNoLink'
    BY <1>1, <1>5, <1>7 DEF MapIncomplete, NoPartNoLink
  <2>7. Alone'
    <3> SUFFICES ASSUME "shared" \notin seen
                 PROVE  Alone!2'
      BY <1>1 DEF Alone
    <3>1. linked' = {h} /\ part' = Chunks /\ map' = Absent
          /\ \A g \in Handlers : g # h => hand'[g] \notin {"insert", "final"}
      BY <1>1, <1>7, <2>1
    <3> QED BY <2>1, <3>1 DEF Holds, Owners
  <2>8. WholeInRest'
    BY <1>1, <1>4, <1>5, <2>1 DEF WholeInRest
  <2>9. PartIsOwned'
    <3> SUFFICES ASSUME part' # Absent, seen \intersect {"crash", "disk"} = {}
                 PROVE  \E o \in linked' : Holds(o)'
      BY <1>1 DEF PartIsOwned
    <3>1. PICK o \in linked : Holds(o)
      BY <1>1, <1>5 DEF PartIsOwned
    <3>2. CASE o = "map"
      BY <1>2, <1>7, <2>1, <3>2 DEF Holds
    <3>3. CASE o # "map"
      <4>1. o \in Handlers /\ o # h /\ hand'[o] = hand[o]
        BY <1>1, <1>6, <2>1, <3>1, <3>3 DEF Owners, Holds
      <4> QED BY <1>7, <3>1, <3>3, <4>1 DEF Holds
    <3> QED BY <3>2, <3>3
  <2>10. LastLosesFile'
    BY <1>1, <1>3, <1>4, <1>5, <1>7, <2>1, Constants DEF LastLosesFile
  <2>11. ChunksAccounted'
    BY <2>3, Constants DEF ChunksAccounted
  <2> QED BY <1>4, <2>2, <2>5, <2>6, <2>7, <2>8, <2>9, <2>10, <2>11 DEF IInv, FilesInv
<1>8. CASE /\ map \union {i} # Chunks
           /\ map' = map \union {i}
           /\ UNCHANGED <<hand, linked>>
  <2>1. TypeOK'
    BY <1>1, <1>3, <1>4, <1>8 DEF IInv, TypeOK
  <2>2. /\ \A j \in Packets : j # i => Carriers(j)' = Carriers(j)
        /\ Carriers(i)' = Carriers(i) \union {"map"}
    BY <1>1, <1>2, <1>8, Constants DEF Carriers, Carries, Packets, Owners
  <2>3. \A j \in Packets : Tokens(j)'
    <3> TAKE j \in Packets
    <3>1. Passes(j, "map", "map")
      BY <1>3, <2>2 DEF Passes
    <3> QED BY <1>1, <1>3, <1>4, <3>1, TokensMove DEF IInv
  <2>4. MapIncomplete' /\ NoPartNoLink'
    BY <1>1, <1>5, <1>8 DEF MapIncomplete, NoPartNoLink
  <2>5. \A o : Holds(o)' <=> Holds(o)
    BY <1>1, <1>8 DEF Holds
  <2>6. Alone'
    BY <1>1, <1>5, <1>8, <2>5 DEF Alone
  <2>7. WholeInRest'
    BY <1>1, <1>4, <1>5, <1>8 DEF WholeInRest
  <2>8. PartIsOwned'
    BY <1>1, <1>5, <1>8, <2>5 DEF PartIsOwned
  <2>9. LastLosesFile'
    BY <1>1, <1>3, <1>4, <1>5, <1>8, Constants DEF LastLosesFile
  <2>10. ChunksAccounted'
    <3> SUFFICES ASSUME ~ Trouble', NEW j \in Chunks, Sent(j)'
                 PROVE  wire'[j] > 0 \/ Carriers(j)' # {} \/ Lists(disk')
      BY DEF ChunksAccounted, Lists
    <3>1. ~ Trouble /\ Sent(j) /\ j \in Packets
      BY <1>4, Constants
    <3>2. CASE j = i
      BY <2>2, <3>2
    <3>3. CASE j # i
      BY <1>3, <1>4, <2>2, <3>1, <3>3 DEF IInv, ChunksAccounted
    <3> QED BY <3>2, <3>3
  <2> QED BY <1>4, <2>1, <2>3, <2>4, <2>6, <2>7, <2>8, <2>9, <2>10 DEF IInv, FilesInv
<1> QED BY <1>7, <1>8, ChunkWritten

LEMMA FinalizeStep ==
  ASSUME IInv, NEW h \in Handlers, PacketsFinalize(h)
  PROVE  IInv'
<1>1. /\ hand[h] = "final"
      /\ \/ /\ part = Absent
            /\ hand' = [hand EXCEPT ![h] = "idle"]
            /\ UNCHANGED <<part, linked, rest, seen>>
         \/ /\ part # Absent
            /\ hand' = [hand EXCEPT ![h] = "record"]
            /\ rest' = part /\ part' = Absent /\ linked' = {} /\ seen' = seen
         \/ /\ part # Absent
            /\ hand' = [hand EXCEPT ![h] = "idle"]
            /\ \E n \in 0..NumChunks : rest' = {i \in part : i < n}
            /\ part' = part /\ linked' = linked \ {h} /\ seen' = seen \union {"disk", "gaveup"}
      /\ UNCHANGED <<svars, sender, conn, wire, map, twice>>
  BY DEF PacketsFinalize, EncryptToRest, EncryptFails, files, Note
<1>2. h \in Owners /\ h # "map"
  BY Constants
<1>3. seen \subseteq seen'
  BY <1>1
<1>4. /\ SessionTypeOK' /\ SessionInv' /\ NoNewRecord
      /\ AnyRecord' = AnyRecord /\ disk' = disk
      /\ \A i \in Packets : Unsent(i)' = Unsent(i) /\ Sent(i)' = Sent(i)
      /\ Trouble => Trouble'
  BY <1>1, <1>3, Still
<1>5. NoPartNoLink /\ Alone /\ WholeInRest /\ MapIncomplete /\ LastLosesFile
  BY DEF IInv, FilesInv
<1>6. /\ linked \subseteq Owners /\ twice \subseteq Packets
      /\ part \in (SUBSET Chunks) \union {Absent}
  BY DEF IInv, TypeOK
<1>7. \A i \in Packets : h \in Carriers(i)
  BY <1>1, <1>2 DEF Carriers, Carries
<1>8. "shared" \notin seen =>
        /\ linked = {h} /\ map = Absent /\ part = Chunks /\ part # Absent
        /\ \A g \in Handlers : hand[g] \in {"insert", "final"} => g = h
  <2>1. Holds(h) /\ (map # Absent => Holds("map"))
        /\ \A g \in Handlers : hand[g] \in {"insert", "final"} => Holds(g)
    BY <1>1, <1>2, Constants DEF Holds
  <2> QED BY <1>1, <1>2, <1>5, <2>1, Constants, CompleteChunks DEF Alone
<1>9. \A i \in Packets : wire'[i] \in {0, 1, 2} /\ wire'[i] <= wire[i]
  BY <1>1, Types DEF IInv
<1>10. MapIncomplete' /\ NoPartNoLink'
  BY <1>1, <1>5 DEF MapIncomplete, NoPartNoLink
<1>11. CASE /\ hand' = [hand EXCEPT ![h] = "idle"]
            /\ \/ part = Absent /\ UNCHANGED <<part, linked, rest, seen>>
               \/ /\ part # Absent /\ part' = part /\ linked' = linked \ {h}
                  /\ \E n \in 0..NumChunks : rest' = {i \in part : i < n}
                  /\ seen' = seen \union {"disk", "gaveup"}
  <2>1. /\ hand' \in [Handlers -> {"idle", "make", "insert", "final", "record"}]
        /\ \A g \in Handlers : hand'[g] = IF g = h THEN "idle" ELSE hand[g]
    BY <1>11, Hands DEF IInv
  <2>2. TypeOK'
    <3>1. rest' \in (SUBSET Chunks) \union {Absent}
      BY <1>6, <1>11 DEF IInv, TypeOK
    <3>2. /\ part' \in (SUBSET Chunks) \union {Absent}
          /\ linked' \subseteq Owners
          /\ seen' \subseteq {"shared", "disk", "gaveup", "overrun", "crash"}
      BY <1>6, <1>11 DEF IInv, TypeOK
    <3> QED BY <1>1, <1>4, <2>1, <3>1, <3>2 DEF IInv, TypeOK
  <2>3. \A i \in Packets : Carriers(i)' \subseteq Carriers(i) \ {h}
    BY <1>1, <2>1, Constants DEF Carriers, Carries, Owners
  <2>4. \A i \in Packets : Tokens(i)'
    <3>1. \A i \in Packets : Carriers(i)' \subseteq Carriers(i)
      BY <2>3
    <3> QED BY <1>1, <1>4, <1>9, <3>1, TokensFewer DEF IInv
  <2>5. Alone'
    <3> SUFFICES ASSUME "shared" \notin seen'
                 PROVE  Alone!2'
      BY DEF Alone
    <3>1. "shared" \notin seen /\ linked' = {} /\ map' = Absent
          /\ \A g \in Handlers : hand'[g] \notin {"insert", "final"}
      BY <1>1, <1>3, <1>8, <1>11, <2>1
    <3> QED BY <3>1 DEF Holds, Owners
  <2>6. CASE part = Absent /\ UNCHANGED <<part, linked, rest, seen>>
    <3>1. "shared" \in seen'
      BY <1>8, <2>6
    <3>2. WholeInRest' /\ PartIsOwned' /\ ChunksAccounted'
      BY <2>6, <3>1 DEF WholeInRest, PartIsOwned, ChunksAccounted, Trouble
    <3>3. LastLosesFile'
      BY <1>1, <1>4, <1>5, <2>1, <2>6, Constants DEF LastLosesFile
    <3> QED BY <1>4, <1>10, <2>2, <2>4, <2>5, <3>2, <3>3 DEF IInv, FilesInv
  <2>7. CASE seen' = seen \union {"disk", "gaveup"}
    <3>1. PartIsOwned' /\ LastLosesFile' /\ ChunksAccounted'
      BY <2>7 DEF PartIsOwned, LastLosesFile, ChunksAccounted, Trouble
    <3>2. WholeInRest'
      <4> SUFFICES ASSUME AnyRecord \/ (\E g \in Handlers : hand'[g] = "record"),
                          NEW i \in Packets, i \notin twice
                   PROVE  FALSE
        BY <1>1, <1>4, <1>6, <2>7 DEF WholeInRest
      <4>1. /\ \A a, b \in Carriers(i) : a = b
            /\ AnyRecord => Carriers(i) = {}
        BY DEF IInv, Tokens, HandledOnce
      <4>2. PICK g \in Handlers : hand'[g] = "record"
        BY <1>7, <4>1
      <4>3. g # h /\ g \in Carriers(i)
        BY <2>1, <4>2, Constants DEF Carriers, Carries
      <4> QED BY <1>7, <4>1, <4>3
    <3> QED BY <1>4, <1>10, <2>2, <2>4, <2>5, <3>1, <3>2 DEF IInv, FilesInv
  <2> QED BY <1>11, <2>6, <2>7
<1>12. CASE /\ part # Absent
            /\ hand' = [hand EXCEPT ![h] = "record"]
            /\ rest' = part /\ part' = Absent /\ linked' = {} /\ seen' = seen
  <2>1. /\ hand' \in [Handlers -> {"idle", "make", "insert", "final", "record"}]
        /\ \A g \in Handlers : hand'[g] = IF g = h THEN "record" ELSE hand[g]
    BY <1>12, Hands DEF IInv
  <2>2. TypeOK'
    BY <1>1, <1>4, <1>6, <1>12, <2>1 DEF IInv, TypeOK
  <2>3. \A i \in Packets : Carriers(i)' = Carriers(i)
    BY <1>1, <2>1, Constants DEF Carriers, Carries, Owners
  <2>4. \A i \in Packets : Tokens(i)'
    BY <1>1, <1>4, <1>9, <2>3, TokensFewer DEF IInv
  <2>5. Alone'
    <3> SUFFICES ASSUME "shared" \notin seen
                 PROVE  Alone!2'
      BY <1>12 DEF Alone
    <3>1. map' = Absent /\ \A g \in Handlers : hand'[g] \notin {"insert", "final"}
      BY <1>1, <1>8, <2>1
    <3> QED BY <1>12, <3>1 DEF Holds, Owners
  <2>6. WholeInRest' /\ PartIsOwned'
    BY <1>8, <1>12 DEF WholeInRest, PartIsOwned
  <2>7. LastLosesFile'
    <3> SUFFICES ASSUME NEW g \in Handlers, hand'[g] = "insert"
                 PROVE  /\ wire'[Header] = 0 /\ ~ Unsent(Header)'
                        /\ \A x \in Handlers : hand'[x] # "make"
      BY <1>12 DEF LastLosesFile
    <3>1. /\ g \in Carriers(Header) /\ g # h
          /\ \A x \in Handlers : hand'[x] = "make" =>
               x \in Carriers(Header) /\ x # h /\ x # g
      BY <2>1, Constants DEF Carriers, Carries
    <3>2. /\ wire[Header] = 2 => Carriers(Header) = {}
          /\ wire[Header] = 1 => \A a, b \in Carriers(Header) : a = b
          /\ \A a, b, c \in Carriers(Header) : a = b \/ b = c \/ a = c
          /\ Unsent(Header) => Carriers(Header) = {}
      BY Constants DEF IInv, Tokens, HandledTwice, UnsentIsNowhere
    <3>3. wire[Header] \in {0, 1, 2} /\ h \in Carriers(Header) /\ wire' = wire
      BY <1>1, <1>7, Types, Constants DEF IInv
    <3> QED BY <1>4, <3>1, <3>2, <3>3, Constants
  <2>8. ChunksAccounted'
    BY <1>7, <2>3, Constants DEF ChunksAccounted
  <2> QED BY <1>4, <1>10, <2>2, <2>4, <2>5, <2>6, <2>7, <2>8 DEF IInv, FilesInv
<1> QED BY <1>1, <1>11, <1>12

LEMMA RecordStep ==
  ASSUME IInv, NEW h \in Handlers, PacketsRecord(h)
  PROVE  IInv'
<1>1. /\ hand[h] = "record" /\ hand' = [hand EXCEPT ![h] = "idle"]
      /\ \/ Locked /\ seen' = seen \union {"gaveup"} /\ UNCHANGED svars
         \/ mem # Absent /\ mem < MaxRecords /\ SaveVault(mem + 1)
      /\ UNCHANGED <<sender, conn, wire, map, part, linked, rest, twice>>
  BY DEF PacketsRecord, Locked, files, Note
<1>2. /\ hand' \in [Handlers -> {"idle", "make", "insert", "final", "record"}]
      /\ \A g \in Handlers : hand'[g] = IF g = h THEN "idle" ELSE hand[g]
  BY <1>1, Hands DEF IInv
<1>3. \/ /\ seen' = seen \union {"gaveup"} /\ "gaveup" \in seen'
         /\ SessionTypeOK' /\ SessionInv' /\ NoNewRecord
      \/ /\ SessionTypeOK' /\ SessionInv' /\ mem \in Nat
         /\ mem' = mem + 1 /\ login' = login
         /\ seen \subseteq seen' /\ seen' \subseteq seen \union {"overrun", "gaveup"}
         /\ \/ disk' = mem + 1
            \/ disk' = disk /\ "gaveup" \in seen'
  <2>1. CASE Locked /\ seen' = seen \union {"gaveup"} /\ UNCHANGED svars
    BY <1>1, <2>1, Still
  <2>2. CASE mem # Absent /\ mem < MaxRecords /\ SaveVault(mem + 1)
    <3>1. mem \in Nat /\ mem + 1 \in 0..MaxRecords
      <4>1. mem \in Nat
        BY <2>2, Types DEF IInv, Contents
      <4> QED BY <2>2, <4>1, Constants
    <3> QED BY <2>2, <3>1, Saves DEF IInv
  <2> QED BY <1>1, <2>1, <2>2
<1>4. seen \subseteq seen' /\ seen' \subseteq seen \union {"overrun", "gaveup"}
  BY <1>3
<1>5. TypeOK'
  BY <1>1, <1>2, <1>3, <1>4 DEF IInv, TypeOK
<1>6. \A i \in Packets : h \in Carriers(i) /\ Carriers(i)' = Carriers(i) \ {h}
  BY <1>1, <1>2, Constants DEF Carriers, Carries, Owners
<1>7. \A i \in Packets : wire'[i] \in {0, 1, 2} /\ wire'[i] = wire[i]
  BY <1>1, Types DEF IInv
<1>8. \A i \in Packets : Unsent(i)' = Unsent(i) /\ Sent(i)' = Sent(i)
  BY <1>1 DEF Unsent, Sent, Position
<1>9. \A i \in Packets : Tokens(i)'
  <2>1. CASE NoNewRecord
    <3>1. \A i \in Packets : /\ Carriers(i)' \subseteq Carriers(i)
                            /\ wire'[i] \in {0, 1, 2} /\ wire'[i] <= wire[i]
      BY <1>6, <1>7
    <3> QED BY <1>1, <1>8, <2>1, <3>1, TokensFewer DEF IInv
  <2>2. CASE /\ mem \in Nat /\ mem' = mem + 1 /\ login' = login
             /\ disk' = mem + 1 \/ disk' = disk
    <3> SUFFICES ASSUME NEW i \in Packets
                 PROVE  Tokens(i)'
      OBVIOUS
    <3>1. UnsentIsNowhere(i)'
      BY <1>6, <1>8 DEF IInv, Tokens, UnsentIsNowhere
    <3>2. HandledTwice(i)'
      BY <1>6, <1>7 DEF IInv, Tokens, HandledTwice
    <3>3. HandledOnce(i)'
      <4> SUFFICES ASSUME i \notin twice
                   PROVE  /\ wire[i] = 0 /\ Carriers(i)' = {}
                          /\ \A v \in {mem', disk', login'.read} : v \in {Absent, 0, 1}
        BY <1>1, <1>7 DEF HandledOnce
      <4>1. /\ \A a, b \in Carriers(i) : a = b
            /\ Carriers(i) # {} \/ AnyRecord => wire[i] = 0
            /\ AnyRecord => Carriers(i) = {}
            /\ \A v \in {mem, disk, login.read} : v \in {Absent, 0, 1}
        BY DEF IInv, Tokens, HandledOnce
      <4>2. mem = 0
        BY <1>6, <2>2, <4>1, Constants DEF AnyRecord, Lists
      <4>3. \A v \in {mem', disk', login'.read} : v \in {Absent, 0, 1}
        BY <2>2, <4>1, <4>2
      <4> QED BY <1>6, <4>1, <4>3
    <3> QED BY <3>1, <3>2, <3>3 DEF Tokens
  <2> QED BY <1>3, <2>1, <2>2
<1>10. FilesInv'
  <2>1. /\ MapIncomplete /\ NoPartNoLink /\ Alone /\ WholeInRest /\ PartIsOwned
        /\ LastLosesFile /\ linked \subseteq Owners
    BY DEF IInv, FilesInv, TypeOK
  <2>2. \A g \in Handlers : /\ hand'[g] = "insert" <=> hand[g] = "insert"
                            /\ hand'[g] = "final" <=> hand[g] = "final"
                            /\ hand'[g] = "make" <=> hand[g] = "make"
    BY <1>1, <1>2
  <2>3. \A o \in Owners : Holds(o)' <=> Holds(o)
    BY <1>1, <2>2 DEF Holds, Owners
  <2>4. MapIncomplete' /\ NoPartNoLink'
    BY <1>1, <2>1 DEF MapIncomplete, NoPartNoLink
  <2>5. "shared" \in seen' <=> "shared" \in seen
    BY <1>4
  <2>6. Alone'
    BY <1>1, <2>1, <2>2, <2>3, <2>5 DEF Alone
  <2>7. WholeInRest'
    BY <1>1, <1>4, <2>1 DEF WholeInRest
  <2>8. PartIsOwned'
    BY <1>1, <1>4, <2>1, <2>3 DEF PartIsOwned
  <2>9. LastLosesFile'
    BY <1>1, <1>4, <1>7, <1>8, <2>1, <2>2, Constants DEF LastLosesFile
  <2> QED BY <2>4, <2>6, <2>7, <2>8, <2>9 DEF FilesInv
<1>11. ChunksAccounted'
  <2> SUFFICES ASSUME ~ Trouble'
               PROVE  Lists(disk')
    BY DEF ChunksAccounted, Lists
  <2>1. "gaveup" \notin seen'
    BY DEF Trouble
  <2> QED BY <1>3, <2>1, Constants DEF Lists
<1> QED BY <1>3, <1>5, <1>9, <1>10, <1>11 DEF IInv

-----------------------------------------------------------------------------
(* The invariant.                                                          *)

LEMMA IInvInit == Init => IInv
<1> SUFFICES ASSUME Init
             PROVE  IInv
  OBVIOUS
<1>1. /\ mem = Absent /\ disk = Absent /\ login = [pc |-> "none", read |-> Absent]
      /\ serving = FALSE
      /\ sender = [pc |-> "idle", next |-> 0] /\ conn = "none"
      /\ wire = [i \in Packets |-> 0] /\ hand = [h \in Handlers |-> "idle"]
      /\ map = Absent /\ part = Absent /\ rest = Absent
      /\ linked = {} /\ seen = {} /\ twice = {}
  BY DEF Init, SessionInit, NoLogin
<1>2. TypeOK
  <2>1. SessionTypeOK
    BY <1>1 DEF SessionTypeOK, Contents, LoginStages
  <2>2. 0 \in 0..NumChunks /\ 0 \in 0..2
    BY Constants
  <2> QED BY <1>1, <2>1, <2>2 DEF TypeOK
<1>3. SessionInv
  BY <1>1 DEF SessionInv, OpenedIsKept, MemoryAhead
<1>4. ~ AnyRecord /\ \A h \in Handlers : hand[h] = "idle"
  BY <1>1 DEF AnyRecord, Lists
<1>5. \A i \in Packets : wire[i] = 0 /\ Carriers(i) = {}
  BY <1>1, <1>4 DEF Carriers, Carries, Owners
<1>6. \A i \in Packets : Tokens(i)
  BY <1>1, <1>4, <1>5 DEF Tokens, UnsentIsNowhere, HandledOnce, HandledTwice
<1>7. FilesInv
  BY <1>1, <1>4 DEF FilesInv, MapIncomplete, NoPartNoLink, Alone, WholeInRest,
     PartIsOwned, LastLosesFile, Holds, Owners
<1>8. ChunksAccounted
  BY <1>1 DEF ChunksAccounted, Sent
<1> QED BY <1>2, <1>3, <1>6, <1>7, <1>8 DEF IInv

LEMMA IInvStep == IInv /\ [Next]_vars => IInv'
<1> SUFFICES ASSUME IInv, [Next]_vars
             PROVE  IInv'
  OBVIOUS
<1>1. CASE SessionStep
  BY <1>1, SessionStepKeeps
<1>2. CASE SenderStep
  BY <1>2, StreamStep, ParkStep DEF SenderStep
<1>3. CASE StreamHeader
  BY <1>3, StreamHeaderStep
<1>4. CASE Crash
  BY <1>4, CrashStep
<1>5. ASSUME NEW h \in Handlers, PacketStep(h)
      PROVE  IInv'
  <2>1. CASE HeaderArrives(h)
    BY <2>1, HeaderStep
  <2>2. CASE MakeReassembler(h)
    BY <2>2, MakeStep
  <2>3. CASE InsertReassembler(h)
    BY <2>3, InsertStep
  <2>4. ASSUME NEW i \in Chunks, ChunkDropped(h, i) \/ ChunkArrives(h, i)
        PROVE  IInv'
    BY <2>4, DropStep, ChunkStep
  <2>5. CASE PacketsFinalize(h)
    BY <2>5, FinalizeStep
  <2>6. CASE PacketsRecord(h)
    BY <2>6, RecordStep
  <2> QED BY <1>5, <2>1, <2>2, <2>3, <2>4, <2>5, <2>6 DEF PacketStep
<1>6. CASE UNCHANGED vars
  <2>1. UNCHANGED <<mem, disk, login, serving, seen, sender, conn, wire, map, hand,
                    part, linked, rest, twice>>
    BY <1>6 DEF vars, svars
  <2>2. TypeOK'
    BY <2>1 DEF IInv, TypeOK, SessionTypeOK
  <2> QED BY <2>1, <2>2, ElsewhereStep DEF receiver, svars, files, Unsent, Position, Sent
<1> QED BY <1>1, <1>2, <1>3, <1>4, <1>5, <1>6 DEF Next

\* The strengthening holds throughout: of the copies of the vault, of the packets,
\* of NAME.part and its owners, and of what became of every chunk.
THEOREM IInvAlways == Spec => []IInv
BY IInvInit, IInvStep, PTL DEF Spec

-----------------------------------------------------------------------------
(* The properties.                                                         *)

\* Each variable keeps its type: at most two copies of a packet are on their
\* way, and a reassembler or a file holds chunks of this attachment only.
THEOREM TypeCorrect == Spec => []TypeOK
<1>1. IInv => TypeOK
  BY DEF IInv
<1> QED BY <1>1, IInvAlways, PTL

\* An attachment that process_incoming has listed in the vault is whole, unless
\* two reassemblers had NAME.part open at once or the disk filled up during a
\* full repetition: the file under a reassembler is its own until another opens
\* it, and a file begun anew after it was recorded needs a second copy of every
\* packet.
THEOREM WholeWhenRecorded == Spec => []RecordedIsWhole
<1>1. IInv => RecordedIsWhole
  BY DEF IInv, FilesInv, WholeInRest, AnyRecord, Lists, Recorded, RecordedIsWhole
<1> QED BY <1>1, IInvAlways, PTL

\* process_incoming lists an attachment twice only if its header and each of its
\* chunks were handled twice: a packet that is handled once is in one place at a
\* time, and the record takes it away.
THEOREM RecordedAtMostOnce == Spec => []RecordedOnce
<1>1. IInv => RecordedOnce
  <2> SUFFICES ASSUME IInv, twice # Packets
               PROVE  mem \in {Absent, 0, 1}
    BY DEF RecordedOnce
  <2>1. PICK i \in Packets : i \notin twice
    BY DEF IInv, TypeOK
  <2> QED BY <2>1 DEF IInv, Tokens, HandledOnce
<1> QED BY <1>1, IInvAlways, PTL

\* NAME.part, the decrypted chunks, is deleted with the last reassembler that
\* works on it, on every path of process_incoming but a full disk, unless the
\* process ends: who is left with a file already deleted finds no NAME.part, and
\* nobody comes after him who would create it.
THEOREM PartNeverForgotten == Spec => []PartIsOwned
<1>1. IInv => PartIsOwned
  BY DEF IInv, FilesInv
<1> QED BY <1>1, IInvAlways, PTL

\* When deliver_attachment has parked the last chunk and every packet has been
\* handled, the vault file lists the attachment, unless a step failed where the
\* code gives up, the process ended, NAME.part was shared, or an unlock undid a
\* save.
THEOREM NothingIsForgotten == Spec => []NothingForgotten
<1>1. IInv => NothingForgotten
  <2> SUFFICES ASSUME IInv, AllQuiet, ~ Trouble
               PROVE  Lists(disk)
    BY DEF NothingForgotten, Trouble, Lists
  <2>1. \A i \in Chunks : Carriers(i) # {} \/ Lists(disk)
    <3> TAKE i \in Chunks
    <3>1. i \in Packets /\ wire[i] = 0 /\ Sent(i)
      BY Constants DEF AllQuiet, Sent
    <3> QED BY <3>1 DEF IInv, ChunksAccounted
  <2>2. \A i \in Chunks : Carriers(i) # {} => map # Absent /\ i \in map
    BY Constants DEF AllQuiet, Carriers, Carries, Owners
  <2>3. ~ (map # Absent /\ \A i \in Chunks : i \in map)
    BY Types DEF IInv, FilesInv, MapIncomplete
  <2> QED BY <2>1, <2>2, <2>3, Constants
<1> QED BY <1>1, IInvAlways, PTL

\* What the vault file has, no lock, crash, failed save or failed start takes
\* away, unless a record was saved while an unlock that had read the file was
\* under way: until then memory is never behind the file.
THEOREM SavedStays == Spec => SavedIsKept
<1>1. IInv /\ [Next]_vars =>
        [disk # Absent => disk' # Absent /\ (disk' >= disk \/ "overrun" \in seen)]_vars
  <2> SUFFICES ASSUME IInv, Next, disk # Absent
               PROVE  disk' # Absent /\ (disk' >= disk \/ "overrun" \in seen)
    OBVIOUS
  <2>1. disk \in Nat
    BY Types DEF IInv, Contents
  <2>2. CASE disk' = disk
    BY <2>1, <2>2
  <2>3. CASE SessionStep
    <3>1. SessionNext
      BY <2>3 DEF SessionStep
    <3>2. "overrun" \notin seen => disk' = disk \/ disk' >= disk
      BY <3>1, SessionMoves DEF IInv
    <3>3. disk' # Absent
      BY <3>1, Saves DEF IInv, SessionNext, CreateAccount, UnlockReads, UnlockInstalls,
         StartTransport, Lock, SetSettings, SaveVault, Locked
    <3> QED BY <2>1, <3>2, <3>3
  <2>4. ASSUME NEW h \in Handlers, PacketsRecord(h)
        PROVE  disk' # Absent /\ (disk' >= disk \/ "overrun" \in seen)
    <3>1. CASE mem # Absent /\ disk' = mem + 1
      <4>1. mem \in Nat /\ ("overrun" \notin seen => mem >= disk)
        BY <3>1, Types DEF IInv, Contents, SessionInv, MemoryAhead
      <4> QED BY <2>1, <3>1, <4>1, Constants
    <3>2. disk' = disk \/ (mem # Absent /\ disk' = mem + 1)
      BY <2>4 DEF PacketsRecord, SaveVault, Locked, svars
    <3> QED BY <2>2, <3>1, <3>2
  <2>5. disk' = disk \/ SessionStep \/ \E h \in Handlers : PacketsRecord(h)
    BY DEF Next, SenderStep, SendAttachment, KeepCopy, OpenStream, WriteFrame,
       FinishStream, StreamFails, ParkNext, StreamHeader, Crash, EndProcess, PacketStep,
       HeaderArrives, MakeReassembler, InsertReassembler, ChunkDropped, ChunkArrives,
       PacketsFinalize, receiver, svars
  <2> QED BY <2>2, <2>3, <2>4, <2>5
<1> QED BY <1>1, IInvAlways, PTL DEF Spec, SavedIsKept
=============================================================================
