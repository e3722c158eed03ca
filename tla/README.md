# Verification of seqr

seqr is an end-to-end encrypted chat: a Tauri desktop app (`apps/desktop`) whose
Rust core holds an encrypted vault and talks to other clients directly over
QUIC, and a small store-and-forward service (`services/mailbox`) for peers that
are offline. This directory holds TLA+ models of its core, the TLC runs that
check them on small instances, and TLAPS proofs for all values of the constants.

Paths below are relative to `src/`; `T/` stands for
`apps/desktop/src-tauri/src/`, `M/` for `services/mailbox/src/`, and "the
design" is `docs/superpowers/specs/2026-06-26-seqr-e2e-chat-design.md`.

## 1. Inventory

| component | state | operations | hard behaviour | correct when |
|---|---|---|---|---|
| Message delivery: `T/net.rs`, `T/commands.rs` `send_message`, `T/core/transport.rs`, `T/core/mailbox.rs` | deliver tasks, accepted connections, one accept loop, poll loops | send, dial, time out, park; read, acknowledge, process; pull, handle, ack | the direct and the mailbox path race; loops outlive a lock; failed saves, pushes, pulls, acks; acknowledged before processed | every message is shown at most once, is durable when shown, and has somebody or something that still carries it |
| Vault: `T/core/vault.rs` | `VaultData` in memory and sealed on disk | the setters, `save`, `unlock` | memory is changed before the save, and a failed save leaves it changed | memory and file never disagree in a way that others can see |
| Session: `T/core/session.rs`, `unlock`, `lock`, `start_transport` | `unlocked`, `transport`, `reassembly` | unlock, lock, create account | unlock is not atomic; a failed transport start leaves the session open | one live vault per process, never an old snapshot |
| Mailbox store: `M/store.rs`, `M/lib.rs` | one file per parked message, the `SEQ` counter | push, pull, ack | handlers run in parallel without a lock; restarts; the wall clock | arrival order, nothing accepted is lost |
| Presence and freshness: `M/lib.rs` | last poll per identity | pull, presence | cached times, clock skew | online means polled within the window |
| Friends and direct keys: `T/commands.rs`, `T/core/conversation.rs`, `T/net.rs` | friends, pending requests, one rotated key per conversation | import, accept, decline, remove, rotate, receive | concurrent rotation, KeyUpdates that overtake, repeat or are dropped | both sides hold the same key, and open each other's messages |
| Groups: `T/core/group.rs`, `rebuild_group_keys`, `handle_invite` | roster, epoch, key | create, rotate, remove member, invite | equal epochs, stale rosters | members converge; a removed member stays out |
| Attachments: `T/core/attachment.rs`, `T/net.rs` | `reassembly`, `.part` files | stream, park chunks, reassemble, finalize | broken streams, chunks without header, duplicates | a stored attachment is whole, and stored once |
| Matrix backend: `T/matrix/`, `components/matrix/` | client behind a read-write lock, syncing flag, session file and store on disk, one verification slot; which screen is shown | login, register, unlock, logout, sync, chat, verify | commands of several awaits cross each other, a reload of the page or the end of the process; the lock is held over requests | what is on disk opens; a logged-in chat can be unlocked again; one sync loop per session; no command waits for ever |
| User interface: `apps/desktop/src` | the open chat's list, drafts | fetch history, append events, send | history and live events race | the list shows each stored message once |

How they interact: commands and loops share the session through one mutex
(`SessionState::with_unlocked`); the loops are not told of a lock, they notice
it. Clients talk to each other over one connection per packet, and to the
mailbox over HTTP. The core tells the UI by events. The hazards this leads to
are listed, each at its line, in `PROJECT.json`.

## 2. Modules

| module | models | how |
|---|---|---|
| `Channel` | the promise of delivery to two users | abstract: post a message under a name of its own; show a posted one at most once |
| `Delivery` | the way of a 1:1 text message | see 2.1; implements `Channel` |
| `DeliveryProofs` | | theorems about `Delivery` |
| `MailboxStore` | one directory of the mailbox service and the clients that empty it | see 2.2 |
| `MailboxStoreProofs` | | theorems about `MailboxStore` |
| `DirectKeys` | friendship and the keys of 1:1 conversations | see 2.3 |
| `DirectKeysProofs` | | theorems about `DirectKeys` |
| `GroupKeys` | roster and key of one group at every member | see 2.4 |
| `GroupKeysProofs` | | theorems about `GroupKeys` |
| `Session` | creating, unlocking and locking an account, starting the transport, saving the vault | see 2.5; no behaviour of its own, it is extended |
| `Attachments` | one attachment on its way, composed with `Session` | see 2.5 |
| `AttachmentsProofs` | | theorems about `Attachments` and, through it, `Session` |
| `MatrixSession` | the session of the Matrix backend and the screens that change it | see 2.6 |
| `MatrixProofs` | | theorems about `MatrixSession` |
| `SequenceLemmas` | | lemmas about `Append` and `RemoveAt` that two of the proofs use |
| `MCDelivery`, `MCMailboxStore`, `MCDirectKeys`, `MCGroupKeys`, `MCAttachments`, `MCMatrix` | | instances for TLC |

How they fit together: `Delivery` implements `Channel` (`ImplementsChannel`, an
instance under a refinement mapping). `DirectKeys` and `GroupKeys` take from
`Delivery` what it shows of the network, packets that overtake, repeat and get
lost, and add what the packets do to keys. `Attachments` extends `Session`, so
that a file is received, recorded and saved while accounts are locked, unlocked
twice and restarted. `MailboxStore` opens the box that `Delivery` takes for an
ordered set. `MatrixSession` stands alone: the two backends share no state.

In each module the constant `Events` names the failures that may happen, so
that a run, or a theorem, says under which of them a property holds. Operators
whose comment says "Mutant" are wrong variants of the definition after them;
no action uses them. They stand for bugs that the property at hand would find.

### 2.1 Delivery

`mem` and `disk` are the decrypted vault and the vault file, reduced to the
number of outgoing messages per friend and the list of incoming ones. `sending`
holds the deliver tasks with their stage: dialling, waiting for the
acknowledgement, parking. `receiving` holds the tasks of accepted connections:
reading, acknowledged and waiting for the close, ready to process. `poll` holds
the poll loops, `listening` says whether an accept loop runs, `box` is the
mailbox. One action stands for one stretch between two awaits or mutex
sections; a command or handler under the session mutex is one action, with its
save and what follows the save.

Choices worth knowing:

* `SetSettings` stands for every command that saves the vault without changing
  what the model keeps of it: a save writes what an earlier failed save left.
* `Unlock` is one step. While an account is locked nothing writes its vault
  file, so reading it early or late makes no difference; an unlock of an
  account that is already unlocked, and a failing transport start, are in
  module `Session`.
* Several accept loops of one process cannot be told apart, so `listening` is
  a Boolean. `HandshakeFails` then ends the last one.
* `CloseSeen` needs no cooperation of the sender: the connection may break.
  `AckArrives` needs that the acknowledgement was written and not yet given up.
* The event to the UI is part of the step that stores the message. In the code
  it follows the release of the mutex, so the order of two events may differ
  from the order in which they were stored; no property depends on it.
* Packets open: the key is the pairwise key of epoch 0. `DirectKeys` is about
  the other epochs.
* A mailbox entry has a number in arrival order; `MailboxStore` is where the
  order is questioned.

### 2.2 MailboxStore

A push is counted (`SEQ.fetch_add`), then creates its file, then fills it and
answers; a pull lists, reads file by file and answers; an ack deletes file by
file. All of these interleave. The history variable `before` records which
pushes had been answered when a push began: that is what "arrival order" means.
It forgets the pushes that were named before the clock was set back (`stale`).
In the runs the random suffix is one value: two names tie only when a restart
and a clock set back fall together, and then the second push waits. The clock
ticks, may be set back, and moves on during a restart.

### 2.3 DirectKeys

A key is its epoch and a number that identifies the random bytes; 0 is the
pairwise key. `wire` holds the packets under way for each ordered pair of
peers. What `Delivery` shows of the network appears here as events: a packet
may overtake ("overtake": one was parked, the next came directly), arrive twice
("again": the ack failed) or get lost ("lost": the receiver was locked).
`Save(p, v, then, else)` is the pattern of every command and handler: change the
vault in memory, save, and go on only if the save worked. Initially the peers
are strangers, or friends of each other (`Acquainted`), a state reached by
import and accept.

### 2.4 GroupKeys

A member's vault holds roster, epoch and key, or `NoGroup`. A key is a number
for its random bytes and, as history, who minted it, under which epoch and for
whom: that is what lets the properties say that key, roster and epoch belong
together. `wire` is a set: packets arrive in any order, and one that is lost
stays. The invites of a command leave only after its save worked, but those of
two commands mingle, since the vault is released before they are sent. `Reopen`
is a lock or a crash and the unlock after it: the vault is what the file holds.
Messages that were stored are not kept, except that receiving one saves the
vault, and with it whatever an earlier failed save left in memory.

### 2.5 Session and Attachments

`Session` splits an unlock in its steps: read the file, derive the key,
install what was read, start the transport. The page can be reloaded while the
process goes on, so that an account that is open is unlocked again; if the
loops of before save a record in between, the older snapshot replaces the newer
vault (history: "overrun"). Two logins at once are left out: the form sends one
at a time, and only a reload during the derivation of a key could overlap two.

`Attachments` follows one file from `send_attachment` to the record in the
recipient's vault. The sender writes a stream; its header never parses at the
receiver (a run shows it), so the handler ends there and what follows it in
`handle_file_connection` is unreachable and not modelled. The packets of the
fallback are handled by two tasks, a direct connection and the poll loop, which
meet at the map of reassemblers and at the file `NAME.part`. `linked` says whose
open file handle still is what the name `NAME.part` stands for: a file that was
deleted or emptied under a reassembler is the hazard here. Each access to the
map, which the code makes under its mutex, is one step, and so is each stretch
in between.

### 2.6 MatrixSession

`store` and `file` are the SQLite store and `session.json` beside it, each
reduced to the passphrase that opens it: a login draws a new one. A command
takes a slot and moves one await at a time; `at` is the await it has reached.
The lock of the client is tokio's: a reader that comes after a waiting writer
waits. `ui` says which screen is shown and whether the effect that starts the
sync is due. The wipe before a login removes store and file in either order,
the file is truncated before it is written, and the process may end anywhere.

A session command that begins, or a reload, while another one is under way is
counted (`crossings`, bounded) and the command it met is noted (`crossed`).
Most invariants are stated for histories in which nothing crossed, because they
fail in the others: "Sign in as someone else" during an unlock removes the
session file of the session that is then shown; two sign-outs, the second of
which ends after the next login, remove that login's file; a reload during a
login lets a second login wipe the store of the first. `SessionOpensStore` and
`LoginStartsClean` say how much of the order survives crossings: the first,
that only unlocks, or only logouts, were crossed; the second, only logouts.

## 3. Runs

| run | what it asks | bounds |
|---|---|---|
| `DeliverySafety` | unique numbers; nothing stored twice; shown implies on disk; the mailbox keeps what was not handled; no hand-over drops a message; implements `Channel` | 2 peers, one sends 2 messages, 1 poll loop; locks, crashes, failed saves, pushes and acks |
| `DeliveryLoops` | nothing stored twice, and no ack of what was not handled, with a left-over poll loop | 1 message, 2 poll loops, every failure |
| `DeliveryCalm` | every message is stored in the end | 2 messages; pulls, acks and direct connections fail |
| `StoreSafety` | arrival order; nothing accepted is lost, but by a torn read; every accepted message is received | 2 pushes, 2 clients, pull limit 1; restart, clock set back, lost answers |
| `KeysSafety` | an epoch stands for one key; no friend is pending; a rotator never goes back; agreement and no needless loss as long as all goes well | strangers at first; 2 peers, 1 rotates, 2 keys, 1 message each way, 2 packets under way; every failure |
| `GroupSafety` | key, roster and epoch stay together; one member, one key per epoch; the file's epoch never falls; only messages of another or a contested epoch stay unopened; a single newest rotation settles | 3 members, 2 of them rotate and remove, 3 keys, 1 message; failed saves, reopening, repeated packets |
| `AttachSafety` | a recorded attachment is whole and recorded once; no decrypted file is left behind, nothing is forgotten, nothing saved is undone, each but for the mishaps it names | 3 chunks, 2 handlers; every failure |
| `MatrixSafety` | what the disk holds can be opened; a chat that is shown is kept; one sync loop, and it runs; every command ends | 2 logins, 3 commands at once, 2 crossings; ends of process and reloads at any step |

Two messages are what is needed for a number to be used twice, for one message
to overtake another, and for an ack of one to hit the other. Two poll loops of
one account are what a lock and an unlock leave behind. With a pull limit of 1
and two entries the limit is reached, and two pushes are what the arrival order
is about. Two keys are what a stale KeyUpdate, a falling epoch and a retired
one need. Three group keys are one to found the group and two that clash or
follow each other, three members one who removes, one removed and one left over.
Three chunks let one be missing while two others cross; with two handlers and
`MaxRecords` = 2 an attachment can be recorded twice. Two logins are what it
takes to meet the store of another; three slots hold a session command, one
that crosses it and a request that holds the lock. The peers of the other
modules are two because a conversation has two; every property there is about
one pair.

`ParkedUntilHandled` and `NeverDropped` use two history variables: `refused`,
the packets for which `process_incoming` returned an error, and `abandoned`,
the packets whose push failed or whose task ended with its process. The code
loses messages in these ways; the properties say that it does in no other.

`SettledAgree` and `OnlyRetiredUnopened` speak of behaviours in which all went
well so far, which the history variable `orderly` records: packets came in the
order sent and from friends (possibly twice), saves worked, nobody was removed.

In the same way `seen`, `twice` and `crossed` record the mishaps that the
properties of `Attachments` and `MatrixSession` except. They name exactly those:
TLC finds each property violated when one of its exceptions is struck out, but
for one: that `SessionOpensStore` excepts a history in which both an unlock and
a logout were crossed takes three logins and more crossings than the run has.
The attempt to prove it without the exception showed the history, and TLC finds
it with 4 logins, 4 slots and 6 crossings: an unlock is left behind by "Sign in
as someone else" and a login, two sign-outs follow, and the late answers of the
unlock and of the second sign-out bring up the login form while the next login
is under way, so that a third login wipes what the second one built.

Four runs show where the code and its documents disagree (each is expected to
be violated, and stands in `PROJECT.json` as a finding with the text it
contradicts):

| run | what happens |
|---|---|
| `DeliveryLockAck` | locked between pull and handling, the loop acks what it could not store |
| `DeliveryHandshake` | one failed handshake ends the accept loop |
| `KeysConcurrent` | two rotations at once: the friends swap keys instead of converging |
| `AttachStream` | the two ends of a file stream disagree about its header: every file goes as packets |

Further disagreements met while modelling, which the models contain and no run
is spent on: a refused push after a failed direct delivery loses a message
reported as sent (`T/net.rs:126`; the design, line 235, has it queued); a file
pulled before `fs::write` has filled it is acked unread (`M/store.rs:56`); a
clock set back breaks the "strict arrival order" (`M/store.rs:51`); a stale
KeyUpdate takes the epoch back (`T/net.rs:458`; the design, line 82:
monotonic); a message ahead of its KeyUpdate is dropped, not buffered
(`T/core/conversation.rs:108`; the design, line 236); a message of epoch 0
opens after a rotation (`T/core/conversation.rs:98`; `seqr-protocol`
`lib.rs:39`: "reject frames from a retired epoch"); a removed friend's rotated
key stays (`T/core/vault.rs:195`, whose comment says that it goes); group
rotations at once do not converge, the last invite wins (`T/net.rs:610`; the
design, line 131), and one with the old roster brings a removed member back
(line 119: "cut off from all future messages"); an attachment is encrypted at
rest (`T/core/attachment.rs:9` still says "stored decrypted"); the sender of a
stream takes any end of it for the acknowledgement (`T/core/transport.rs:161`).

Deadlock is checked in every run: neither locks nor bounds ever leave a model
without a step.

### Fairness

Tasks that can run do run (weak fairness of the steps of deliver, of a
connection whose frame was read, of the handlers and the poll loop): they are
tokio tasks and nothing blocks them. `DirectFails` is weakly fair because of
the four-second timeout. A pull or ack that is repeated every two seconds
succeeds now and then (strong fairness of `Pull`, and of `Ack` that removes
something); a locked-out user unlocks now and then. Nothing makes the direct
path work, a handshake succeed or a lock happen. In the store, an answer that
carries messages gets through now and then (strong fairness of a `Receive`
with messages), a client that keeps acking gets a file deleted now and then,
and the clock is not set back for ever.

In `MatrixSession` a command that can move does, since the runtime polls it,
and a request to the homeserver is answered or fails, since the client is built
with a timeout of 30 seconds and without retries (`T/matrix/client.rs`). The
users' actions and the end of a sync loop are not fair.

## 4. Proofs

`DeliveryProofs` proves, for every set of peers, every number of messages and
poll loops, and every choice of failures:

* `TypeCorrect`, `DeliversAtMostOnce`, `NumbersAreUnique`, `ShowsOnlyDurable`:
  the invariants of the runs;
* `Implements`: `Delivery` implements `Channel`;
* `MailboxKeepsUntilHandled` and `NothingDropped`: no message gets lost but in
  the three ways the code has (`ParkedUntilHandled`, `NeverDropped`).

They rest on `ConstantsAssumption` only. None of the invariants is inductive by
itself. The strengthening `IInv` relates what its parts leave open:

* the counters: the number of outgoing messages on disk is at most the one in
  memory, and every posted message of a pair has a number below the one on
  disk. This is why a counter that goes back to the disk's value after a failed
  save cannot meet a posted number: a posted message has been saved;
* the origin of packets: what is under way, parked, pulled, stored or shown was
  posted; hence two of one name are the same message, and what a receiver
  drops as a duplicate is one;
* memory and file of the receiver: what is on disk is in memory while the
  account is open, and what was shown is on disk.

The last two theorems need the additional invariant `Accounted`: what a vault
holds in memory, and what a poll loop has noted for its ack, is settled, that
is on disk or turned down. This is why dropping a duplicate and acking a batch
lose nothing more. `AccountedGrows` splits what a step has to keep in three:
files and losses only grow (`Grows`), what leaves the mailbox is settled
(`KeepsParked`), and what leaves a task is taken over (`HandsOn`).

`DirectKeysProofs` proves, for every set of peers, every number of keys and
messages, and every choice of `Events`:

* `TypeCorrect`, `FriendsAreNotPending` (`PendingIsNotFriend`), `EpochsGrow`
  (`RotatorMonotonic`): without any hypothesis on who rotates;
* `EpochsNameKeys` (`EpochNamesOneKey`): if at most one peer rotates. That is a
  hypothesis of the theorem and not an assumption of the module, since the code
  does not ensure it; run KeysConcurrent is the counterexample without it;
* `RotationSettles` (`SettledAgree`) and `UnopenedAreRetired`
  (`OnlyRetiredUnopened`): under the same hypothesis.

The strengthening `KeysInv` speaks of each ordered pair (p, q) in which q does
not rotate (`Ahead`): the epoch in p's memory is at least the one in p's file,
and that is at least every epoch q holds or the wire carries between them. So
the epoch that p chooses next is new to everybody, and one that p forgets when
it reopens after a failed save has not left p, because a KeyUpdate or a message
is posted only after the save. It needs two more facts: who does not rotate
sends no KeyUpdate (`OnlyRotatorsSend`), and nobody is his own friend
(`NotSelf`). Each action is first reduced to what it does to one vault and to
the wire (the lemmas `BefriendStep` to `KeyUpdateStep`), then to a move of a
pair (`PairMove`), and `PairStep` shows once that such a move keeps the pair's
invariant.

The last two theorems need the order of packets, which `KeysInv` ignores. While
`orderly` holds, `OrderInv` adds that every vault is as saved and that the
packets from p to a q who does not rotate follow p's key (`Follows`): the last
KeyUpdate among them brings the key p holds, or q holds it already when there
is none, and each message is sealed with the key q will hold when it comes to
it. Appending a KeyUpdate, appending anything else and handling the first
packet, which goes or comes again, keep this (`FollowsKey`, `FollowsOther`,
`FollowsFirst`), and every orderly step is one of the three (`QuietFollows`,
`KeySentFollows`, `KeyTakenFollows`). So whatever the rotator sends is opened;
of what it receives, the messages it cannot open are behind its key, by `Ahead`.

Each of these two proofs goes action by action, with a frame lemma for the
actions that leave a part of the state alone.

`GroupKeysProofs` proves all properties of run GroupSafety, for every set of
peers, whoever of them rotates, every number of keys and messages, and every
choice of `Events`: `TypeCorrect`, `Granted` (`HeldWasGranted`), `OneKey`
(`OneKeyPerEpoch`), `EpochNeverFalls` (`SavedEpochNeverFalls`), `UnopenedOnly`
(`UnopenedOnlyAcrossEpochs`) and `Settled` (`SettledAgree`). From
`ConstantsAssumption` alone, along this way:

* `StepForms` reduces the actions to four forms: a key is minted, an invite is
  taken, what is held is used, a vault is opened again. Each changes one
  vault, in memory and perhaps in its file, and the wire (`Changed`).
* Each form is `Proper` (the new vault fits the key in it, is not older than the
  file, and sends what may be sent), `Releases` at most the one key that the
  peer then holds, and `Delivers` what was awaited. These three predicates are
  all that the rest of the proof knows of a step.
* `IInv` is preserved by every such step. `OneKeyPerEpoch` needs most of it: a
  member that mints does so above the epoch in its memory, which is never below
  the one in its file (`DiskBehind`), and everything it has released is at most
  at the file's epoch (`ReleasedSaved`), since it sends only after a save. A
  key that it holds of an epoch it has released is that one (`OwnKeyUnique`),
  which is why sending under a key that an earlier failed save left in memory
  does no harm. No invite comes back to who minted its key (`NotToMinter`).
* `SettledAgree` follows from `Invited`: without failed saves whoever is in the
  roster of a key still awaits its invite or has reached its epoch.

`MailboxStoreProofs` proves the invariants of run StoreSafety, for any number
of pushes and clients, any pull limit and any choice of `Events`: `TypeCorrect`,
`LosesNothingElse` (`LostOnlyByTornRead`) and `ArrivalOrder` (`NoOvertaking`).
From `ConstantsAssumption` alone. The strengthening has two parts:

* `FilesInv`, about the directory: names differ (`NamesDiffer`), what has been
  written is there whole or has been received (`AcceptedWhole`,
  `KeptOrHanded`), and names order the pushes that followed each other
  (`FilesAfter`). The last needs to be said before a name is chosen: `Recent`
  and `CountedAfter` compare a push that has its counter, but not yet its time,
  with the clock, which only `ClockSetBack` moves back, and with the counter,
  which only a restart resets, later than the millisecond before.
* `ClientInv`, about each client: its list holds, with a file, every earlier one
  that is still there (`ListedWhole`), because a cut at the limit keeps
  what precedes (`FirstFacts`, by counting the names before one), and what it
  acks it has received (`AckedHanded`). So a file that is deleted under a pull
  of another client fails the pull, and never makes an answer skip it.

`AttachmentsProofs` proves all properties of run AttachSafety, for any number of
chunks and of handlers, any `MaxRecords` and any choice of `Events`:
`TypeCorrect`, `WholeWhenRecorded` (`RecordedIsWhole`), `RecordedAtMostOnce`
(`RecordedOnce`), `PartNeverForgotten` (`PartIsOwned`), `NothingIsForgotten`
(`NothingForgotten`) and `SavedStays` (`SavedIsKept`). They rest on
`ConstantsAssumption` and `SessionAssumption`: the values that stand for "no
file" and "in the map" are none of the others. The strengthening `IInv` has four
parts:

* `SessionInv`: an open vault, or one that an unlock has read, has a file, and
  until something "overruns" memory is not behind it. `SessionMoves` and
  `Saves` reduce the steps of `Session` to what they do to the three copies of
  the vault; `SavedIsKept` follows from these two lemmas.
* `Tokens`, about the copies of each packet: one is on the wire, or carried by a
  reassembler (to be made, in the map, or taken out of it), or spent on a record.
  A packet that is handled once is in one of these places (`HandledOnce`), one
  that is handled twice in at most two (`HandledTwice`), one that was not sent
  in none. `TokensMove` shows once that a copy that is lost, or moves from one
  place to another, keeps this. A finished reassembler carries the header and
  every chunk; hence a second record takes a second copy of each.
* `FilesInv`, about NAME.part: while no two reassemblers shared it, the one there
  is owns it, and what it has collected is what the file holds (`Alone`). When
  they do share it, the first to finish takes the file from the others.
  `LastLosesFile` says who may be left without a file and yet reach the map:
  nobody comes after him who would create the file anew, because two copies of
  the header are all there are. This is what `PartIsOwned` needs.
* `ChunksAccounted`: as long as nothing was given up, a chunk that was sent is on
  the wire, with a reassembler, or its attachment is in the vault file. The one
  in the map is never complete (`MapIncomplete`), so when all is quiet the
  first two are ruled out for some chunk.

`MatrixProofs` proves the safety properties of run MatrixSafety, for any number
of logins, of crossings and of commands under way at a time: `TypeCorrect`,
`StoreOpens` (`SessionOpensStore`), `LoginFindsNoStore` (`LoginStartsClean`),
`LoggedInKept` (`LoggedInIsKept`), `SyncStartedOnce` (`SyncOnce`) and
`SyncIsRunning` (`SyncRuns`). They rest on `ConstantsAssumption`: there are
finitely many slots, and the values for "none" and "torn" are no passphrases. The
strengthening `IInv` has four layers, each under the histories in which it holds:

* always: of two session commands under way one was crossed (`Met`), and who
  lost its page was crossed by the reload (`Unheard`). These two turn "nothing
  was crossed" into "a session command is alone and heard" (`Alone`);
* while only unlocks, or only logouts, were crossed (`Ordered`): at most one
  login is under way, and the login form, or an app whose form was unmounted by
  the unlock it met, is what shows it (`Screens`); the login form without a
  session means that there is no session file, or one just written
  (`FormShown`). Hence a login begins only when no other is under way, and
  nobody else writes the store between its build and its install (`LoginStore`);
* while only logouts were crossed: what the wipe removed stays removed until
  the build (`CleanInv`), since no unlock runs beside a login;
* while nothing was crossed (`Calm`): who is logged in has a client whose
  passphrase the file and the store have (`QuietKept`, `LoginAlone`,
  `LogoutAlone`); a loop runs on the client or on one that no file, no command
  and no later login will name again (`LoopsOnce`); the flag is set exactly
  while a client has, or had, its loop (`FlagInv`).

There is one lemma for each action or group of like actions. What a step changes
in `cmd` is stated once for a move, an end, a beginning and an answer
(`Moved`, `Ended`, `Started`, `AnswersStep`), and what it leaves of the
screens by `Paged`, `Move` and `BesideStep`.

Only model-checked: liveness and everything that depends on fairness, which is
out of the prover's reach.

## 5. Not modelled, and the plan

Planned: the message lists of the chat windows: history fetch, events and sends.

Not modelled, and why:

* What comes after the header in `handle_file_connection` (`T/net.rs:264`): no
  header ever gets it there (run AttachStream).
* Several recipients of one attachment: they are served one after the other,
  each as the one modelled. Staging a pasted file, reading and saving an
  attachment leave the protocol's state as it is.
* A rotation between the chunks of a file: header and chunks are sealed under
  the key the sender had when it began, and the recipient keeps the one it had
  when the header came. Chunks that do not open are dropped like those that
  cannot be written.
* The emoji verification of the Matrix backend: it passes on what matrix-sdk
  decides, and has not been run against two devices (`T/matrix/verification.rs`
  says so itself). The results of the Matrix commands, the timeline, failures of
  `remove_dir_all`, and a token the server keeps after a failed logout.
* The message lists of the two chat windows. Reading the code shows that a
  history fetch may undo or repeat a live event (`Dashboard.tsx:273`) and, in
  `MatrixChat.tsx:58`, that a late answer for one room replaces the list of the
  next.
* Presence and freshness: advisory, a cached time and a comparison.
* Cryptographic primitives and wire formats: the models use what they
  guarantee. Configuration, logging, packaging; matrix-sdk behind its calls;
  components of the UI without state of their own.
