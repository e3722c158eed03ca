----------------------------- MODULE DirectKeys -----------------------------
(***************************************************************************)
(* Friendship and the keys of 1:1 conversations (commands.rs, net.rs,      *)
(* core/conversation.rs, core/vault.rs).                                   *)
(*                                                                         *)
(* Two friends share the key that their identities determine, epoch 0.     *)
(* Either may rotate: mint a key, store it under the next epoch and send   *)
(* it to the other in a KeyUpdate.  A message is sealed with the sender's  *)
(* current key and opens only with the key the receiver holds for its      *)
(* epoch.  Packets travel as module Delivery describes: usually in the     *)
(* order they were sent, but they may overtake one another, arrive twice   *)
(* (directly and from the mailbox) or be lost (the receiver was locked).   *)
(***************************************************************************)
EXTENDS Naturals, SequencesExt

CONSTANTS
  Peers,        \* accounts
  Acquainted,   \* whether they have made friends of each other already
  Rotators,     \* the peers whose users rotate keys
  MaxMint,      \* bound: keys minted
  MaxSend,      \* bound: messages a user sends
  MaxInFlight,  \* bound: packets on their way from one peer to another
  Events        \* what may happen besides the normal course, see AllEvents

AllEvents ==
  { "remove",    \* a user removes a friend
    "save",      \* vault::save returns an error
    "reopen",    \* the app is locked or restarted, and unlocked
    "overtake",  \* a packet arrives ahead of an earlier one
    "again",     \* a packet arrives once more
    "lost" }     \* a packet arrives at a locked vault, or nowhere

ASSUME ConstantsAssumption ==
  /\ Rotators \subseteq Peers
  /\ Acquainted \in BOOLEAN
  /\ MaxMint \in Nat /\ MaxSend \in Nat /\ MaxInFlight \in Nat
  /\ Events \subseteq AllEvents

VARIABLES
  mem,      \* peer -> the decrypted vault
  disk,     \* peer -> the vault file
  wire,     \* peer -> peer -> the packets on their way, in the order sent
  minted,   \* number of keys minted
  nsent,    \* history: peer -> messages its user has sent
  unopened, \* history: messages of a friend that the receiver could not open
  orderly   \* history: no save failed, no friend was removed, no packet was
            \* lost, early (before its sender was a friend) or overtaken

vars == <<mem, disk, wire, minted, nsent, unopened, orderly>>

\* A rotated key is known by its number; 0 is the pairwise key, which the two
\* identities determine.
Keys == [epoch : Nat, key : 0..MaxMint]
Pairwise == [epoch |-> 0, key |-> 0]

Messages == [from : Peers, to : Peers, n : 1..MaxSend, with : Keys]
Packets ==
  [kind : {"request"}] \union [kind : {"key"}, with : Keys]
    \union [kind : {"message"}, msg : Messages]
Vaults ==
  [friends : SUBSET Peers, pending : SUBSET Peers, keys : [Peers -> Keys],
   stored : SUBSET Messages]

TypeOK ==
  /\ mem \in [Peers -> Vaults]
  /\ disk \in [Peers -> Vaults]
  /\ wire \in [Peers -> [Peers -> Seq(Packets)]]
  /\ minted \in 0..MaxMint
  /\ nsent \in [Peers -> 0..MaxSend]
  /\ unopened \subseteq Messages
  /\ orderly \in BOOLEAN

NewVault(p) ==
  [friends |-> IF Acquainted THEN Peers \ {p} ELSE {}, pending |-> {},
   keys |-> [q \in Peers |-> Pairwise], stored |-> {}]

Init ==
  /\ mem = [p \in Peers |-> NewVault(p)]
  /\ disk = mem
  /\ wire = [p \in Peers |-> [q \in Peers |-> <<>>]]
  /\ minted = 0
  /\ nsent = [p \in Peers |-> 0]
  /\ unopened = {}
  /\ orderly = TRUE

-----------------------------------------------------------------------------
(* The vault.                                                              *)

\* (Mutants: a pending request is left; a new friend starts with a new key.)
PushFriend(v, q) == [v EXCEPT !.friends = @ \union {q}]
AddFriendAfresh(v, q) ==
  [v EXCEPT !.pending = @ \ {q}, !.friends = @ \union {q},
            !.keys[q] = Pairwise]

AddFriend(v, q) ==
  [v EXCEPT !.pending = @ \ {q}, !.friends = @ \union {q}]

AddPending(v, q) ==
  IF q \in v.friends THEN v ELSE [v EXCEPT !.pending = @ \union {q}]

SetDirectKey(v, q, k) == [v EXCEPT !.keys[q] = k]

\* current_direct_key.  (Mutant: the epoch of the frame is one less.)
KeyBefore(v, q) == [v.keys[q] EXCEPT !.epoch = @ - 1]
CurrentKey(v, q) == v.keys[q]

\* direct_key_for_epoch followed by open_frame: a message of epoch 0 opens
\* whatever key is stored.
Opens(v, q, with) == with \in {Pairwise, v.keys[q]}

\* (Mutant: the result of the save is ignored.)
SaveIgnored(p, v, then, else) ==
  /\ mem' = [mem EXCEPT ![p] = v]
  /\ \/ disk' = [disk EXCEPT ![p] = v]
     \/ "save" \in Events /\ UNCHANGED disk
  /\ then

\* The command or handler changes the vault in memory and saves it; what
\* follows the save is skipped when the save fails.
Save(p, v, then, else) ==
  /\ mem' = [mem EXCEPT ![p] = v]
  /\ \/ /\ disk' = [disk EXCEPT ![p] = v]
        /\ then
     \/ /\ "save" \in Events
        /\ orderly' = FALSE
        /\ UNCHANGED disk
        /\ else

\* net::deliver; see module Delivery.
Deliver(p, q, pkt) ==
  /\ wire' = [wire EXCEPT ![p][q] = Append(@, pkt)]
  /\ UNCHANGED orderly
Room(p, q) == Len(wire[p][q]) < MaxInFlight

-----------------------------------------------------------------------------
(* Commands.                                                               *)

\* (Nobody imports a token of their own.)
ImportFriend(p, q) ==
  /\ p # q
  /\ q \notin mem[p].friends
  /\ Room(p, q)
  /\ Save(p, AddFriend(mem[p], q), Deliver(p, q, [kind |-> "request"]),
          UNCHANGED wire)
  /\ UNCHANGED <<minted, nsent, unopened>>

AcceptRequest(p, q) ==
  /\ q \in mem[p].pending
  /\ Room(p, q)
  /\ Save(p, AddFriend(mem[p], q), Deliver(p, q, [kind |-> "request"]),
          UNCHANGED wire)
  /\ UNCHANGED <<minted, nsent, unopened>>

\* Declining what is not pending still saves.
DeclineRequest(p, q) ==
  /\ p # q
  /\ Save(p, [mem[p] EXCEPT !.pending = @ \ {q}], UNCHANGED orderly, TRUE)
  /\ UNCHANGED <<wire, minted, nsent, unopened>>

\* The rotated key is not touched.
RemoveFriend(p, q) ==
  /\ "remove" \in Events
  /\ p # q
  /\ Save(p, [mem[p] EXCEPT !.friends = @ \ {q}], orderly' = FALSE, TRUE)
  /\ UNCHANGED <<wire, minted, nsent, unopened>>

RotateDirect(p, q) ==
  LET new == [epoch |-> CurrentKey(mem[p], q).epoch + 1, key |-> minted + 1]
  IN
  /\ p \in Rotators
  /\ q \in mem[p].friends
  /\ minted < MaxMint
  /\ Room(p, q)
  /\ minted' = minted + 1
  /\ Save(p, SetDirectKey(mem[p], q, new),
          Deliver(p, q, [kind |-> "key", with |-> new]), UNCHANGED wire)
  /\ UNCHANGED <<nsent, unopened>>

SendMessage(p, q) ==
  LET m == [from |-> p, to |-> q, n |-> nsent[p] + 1,
            with |-> CurrentKey(mem[p], q)]
  IN
  /\ q \in mem[p].friends
  /\ nsent[p] < MaxSend
  /\ Room(p, q)
  /\ nsent' = [nsent EXCEPT ![p] = @ + 1]
  /\ Save(p, mem[p], Deliver(p, q, [kind |-> "message", msg |-> m]),
          UNCHANGED wire)
  /\ UNCHANGED <<minted, unopened>>

Reopen(p) ==
  /\ "reopen" \in Events
  /\ mem' = [mem EXCEPT ![p] = disk[p]]
  /\ UNCHANGED <<disk, wire, minted, nsent, unopened, orderly>>

-----------------------------------------------------------------------------
(* process_incoming.                                                       *)

Arrivals(q, p) ==
  IF "overtake" \in Events THEN DOMAIN wire[q][p]
  ELSE DOMAIN wire[q][p] \intersect {1}

Taken(q, p, i) ==
  \/ wire' = [wire EXCEPT ![q][p] = RemoveAt(@, i)]
  \/ /\ "again" \in Events
     /\ UNCHANGED wire

InTurn(i) == orderly' = (orderly /\ i = 1)

ReceiveRequest(p, q) ==
  \E i \in Arrivals(q, p) :
    /\ wire[q][p][i].kind = "request"
    /\ IF AddPending(mem[p], q) # mem[p]
         THEN Save(p, AddPending(mem[p], q), InTurn(i), TRUE)
         ELSE UNCHANGED <<mem, disk>> /\ InTurn(i)
    /\ Taken(q, p, i)
    /\ UNCHANGED <<minted, nsent, unopened>>

\* (Mutant: the new key is not saved.)
AdoptInMemory(p, q, key, i) ==
  /\ mem' = [mem EXCEPT ![p] = SetDirectKey(mem[p], q, key)]
  /\ InTurn(i)
  /\ UNCHANGED disk

\* The key replaces the one stored, whatever their epochs.
Adopt(p, q, key, i) ==
  Save(p, SetDirectKey(mem[p], q, key), InTurn(i), TRUE)

\* A KeyUpdate of somebody who is not a friend is dropped.
ReceiveKeyUpdate(p, q) ==
  \E i \in Arrivals(q, p) :
    LET pkt == wire[q][p][i]
    IN
    /\ pkt.kind = "key"
    /\ IF q \in mem[p].friends
         THEN Adopt(p, q, pkt.with, i)
         ELSE UNCHANGED <<mem, disk>> /\ orderly' = FALSE
    /\ Taken(q, p, i)
    /\ UNCHANGED <<minted, nsent, unopened>>

ReceiveMessage(p, q) ==
  \E i \in Arrivals(q, p) :
    LET m == wire[q][p][i].msg
        known == q \in mem[p].friends
    IN
    /\ wire[q][p][i].kind = "message"
    /\ IF m \notin mem[p].stored /\ known /\ Opens(mem[p], q, m.with)
         THEN Save(p, [mem[p] EXCEPT !.stored = @ \union {m}], InTurn(i), TRUE)
         ELSE UNCHANGED <<mem, disk>> /\ InTurn(i)
    /\ unopened' =
         IF m \notin mem[p].stored /\ known /\ ~ Opens(mem[p], q, m.with)
           THEN unopened \union {m} ELSE unopened
    /\ Taken(q, p, i)
    /\ UNCHANGED <<minted, nsent>>

Lose(p, q) ==
  /\ "lost" \in Events
  /\ \E i \in Arrivals(q, p) :
       wire' = [wire EXCEPT ![q][p] = RemoveAt(@, i)]
  /\ orderly' = FALSE
  /\ UNCHANGED <<mem, disk, minted, nsent, unopened>>

-----------------------------------------------------------------------------
Receive(p, q) ==
  ReceiveRequest(p, q) \/ ReceiveKeyUpdate(p, q) \/ ReceiveMessage(p, q)

Next ==
  \/ \E p, q \in Peers :
       \/ ImportFriend(p, q) \/ AcceptRequest(p, q) \/ DeclineRequest(p, q)
       \/ RemoveFriend(p, q) \/ RotateDirect(p, q) \/ SendMessage(p, q)
       \/ Receive(p, q) \/ Lose(p, q)
  \/ \E p \in Peers : Reopen(p)

Spec == Init /\ [][Next]_vars

-----------------------------------------------------------------------------
(* Properties.                                                             *)

KeysOf(v) == {v.keys[q] : q \in Peers}
OnWire(p, q) ==
  {pkt.with : pkt \in {x \in Range(wire[p][q]) : x.kind = "key"}}
    \union {pkt.msg.with :
              pkt \in {x \in Range(wire[p][q]) : x.kind = "message"}}
KeysInUse(p, q) ==
  {mem[p].keys[q], mem[q].keys[p], disk[p].keys[q], disk[q].keys[p]}
    \union OnWire(p, q) \union OnWire(q, p)

\* While only one of two friends rotates, an epoch stands for one key: what
\* either holds or has sent under one epoch agrees, though saves fail, the
\* rotator falls back to an older epoch when it reopens, and packets are lost,
\* late and repeated.  (Two keys under one epoch make frames that the other
\* side takes for its own epoch and cannot open.)
EpochNamesOneKey ==
  \A p, q \in Peers : \A x, y \in KeysInUse(p, q) :
    x.epoch = y.epoch => x = y

\* A peer is never both a friend and a pending request, in memory or on disk:
\* requests cross, repeat and arrive after the friend was added or removed.
PendingIsNotFriend ==
  \A p \in Peers : \A v \in {mem[p], disk[p]} :
    v.friends \intersect v.pending = {}

\* Rotation settles: as long as all goes well, two friends with no KeyUpdate
\* on its way between them hold the same key, though packets arrive twice and
\* vaults are closed and opened again.
SettledAgree ==
  \A p, q \in Peers :
    /\ orderly
    /\ p \in mem[q].friends /\ q \in mem[p].friends
    /\ \A pkt \in Range(wire[p][q]) \union Range(wire[q][p]) : pkt.kind # "key"
    => mem[p].keys[q] = mem[q].keys[p]

\* As long as all goes well, rotation costs only messages that crossed a newer
\* key: one that the receiver cannot open is of an epoch it has left behind.
OnlyRetiredUnopened ==
  [][orderly' => \A m \in unopened' \ unopened :
       m.with.epoch < mem[m.to].keys[m.from].epoch]_vars

\* The epoch that a rotator's vault file has never decreases, whatever fails,
\* while the other friend does not rotate: removing and adding the friend again
\* does not start a new count.
RotatorMonotonic ==
  [][\A p \in Rotators, q \in Peers \ Rotators :
       disk'[p].keys[q].epoch >= disk[p].keys[q].epoch]_vars
=============================================================================
