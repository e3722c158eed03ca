----------------------------- MODULE GroupKeys -----------------------------
(***************************************************************************)
(* The roster and the key of one group (commands.rs, net.rs, core/group.rs,*)
(* core/vault.rs).                                                         *)
(*                                                                         *)
(* A user founds the group with some friends.  Any member may then rotate  *)
(* the key or remove a member: it mints a key, stores it under the next    *)
(* epoch with its own idea of the roster, and sends everybody left in it   *)
(* an invite with key, epoch and roster.  Nobody decides between members   *)
(* that do so at once: an invite replaces what the receiver holds unless   *)
(* its epoch is lower.                                                     *)
(*                                                                         *)
(* Invites leave one by one after the command released the vault, so those *)
(* of two commands mingle; packets arrive in any order, perhaps twice (see *)
(* module Delivery).  A packet that is lost is one that stays on the wire. *)
(***************************************************************************)
EXTENDS Integers, FiniteSets

CONSTANTS
  Peers,    \* accounts
  Friends,  \* peer -> those it may found a group with
  Admins,   \* the peers whose users rotate the key and remove members
  MaxMint,  \* bound: keys minted
  MaxSend,  \* bound: messages sent
  Events,   \* what may happen besides the normal course, see AllEvents
  NoGroup   \* stands in the vault of who does not know the group

AllEvents ==
  { "save",    \* vault::save returns an error
    "reopen",  \* the app is locked or restarted, and unlocked
    "again" }  \* a packet arrives once more

\* A key is known by its number; the other fields record by whom, under which
\* epoch and for which roster it was minted, which the key's bytes do not tell.
Keys == [n : 1..MaxMint, by : Peers, epoch : Nat, roster : SUBSET Peers]
Groups == [members : SUBSET Peers, epoch : Nat, key : Keys]
Messages == [n : 1..MaxSend, from : Peers, epoch : Nat, key : Keys]

ASSUME ConstantsAssumption ==
  /\ Friends \in [Peers -> SUBSET Peers]
  /\ \A p \in Peers : p \notin Friends[p]
  /\ Admins \subseteq Peers
  /\ MaxMint \in Nat /\ MaxSend \in Nat
  /\ Events \subseteq AllEvents
  /\ NoGroup \notin Groups

VARIABLES
  mem,     \* peer -> the group in the decrypted vault
  disk,    \* peer -> the group in the vault file
  wire,    \* the packets on their way
  minted,  \* history: the keys minted
  nsent,   \* history: the number of messages sent
  calm     \* history: no save has failed

vars == <<mem, disk, wire, minted, nsent, calm>>

Vaults == Groups \union {NoGroup}
\* An invite's roster contains its originator.
Invites == [kind : {"invite"}, to : Peers, epoch : Nat, key : Keys,
            roster : SUBSET Peers]
MessagePackets == [kind : {"message"}, to : Peers, msg : Messages]
Packets == Invites \union MessagePackets

TypeOK ==
  /\ mem \in [Peers -> Vaults]
  /\ disk \in [Peers -> Vaults]
  /\ wire \subseteq Packets
  /\ minted \subseteq Keys
  /\ nsent \in 0..MaxSend
  /\ calm \in BOOLEAN

Init ==
  /\ mem = [p \in Peers |-> NoGroup]
  /\ disk = mem
  /\ wire = {}
  /\ minted = {}
  /\ nsent = 0
  /\ calm = TRUE

-----------------------------------------------------------------------------
(* The vault.                                                              *)

Knows(p) == mem[p] # NoGroup

\* (Mutant: the packets leave before the save is known to have worked.)
SaveUnchecked(p, v, sent, taken) ==
  /\ mem' = [mem EXCEPT ![p] = v]
  /\ wire' = (wire \ taken) \union sent
  /\ \/ /\ disk' = [disk EXCEPT ![p] = v]
        /\ UNCHANGED calm
     \/ /\ "save" \in Events
        /\ calm' = FALSE
        /\ UNCHANGED disk

\* The command or handler changes the vault in memory and saves it; it sends
\* only what it has saved.  taken is the packet a handler works on.
Save(p, v, sent, taken) ==
  /\ mem' = [mem EXCEPT ![p] = v]
  /\ \/ /\ disk' = [disk EXCEPT ![p] = v]
        /\ wire' = (wire \ taken) \union sent
        /\ UNCHANGED calm
     \/ /\ "save" \in Events
        /\ calm' = FALSE
        /\ wire' = wire \ taken
        /\ UNCHANGED disk

\* One invite per recipient, sealed for it.
InvitesTo(recipients, k, epoch, roster) ==
  {[kind |-> "invite", to |-> q, epoch |-> epoch, key |-> k,
    roster |-> roster] : q \in recipients}

\* The number of the next key.
Fresh(n) == n \in 1..MaxMint /\ \A k \in minted : k.n < n
NextNumber == CHOOSE n \in 1..MaxMint : Fresh(n)
MayMint == \E n \in 1..MaxMint : Fresh(n)

-----------------------------------------------------------------------------
(* Commands.                                                               *)

\* Another group has another id, which seals, messages and look-ups carry.
CreateGroup(p, others) ==
  LET k == [n |-> NextNumber, by |-> p, epoch |-> 0,
            roster |-> others \union {p}]
  IN
  /\ minted = {}
  /\ MayMint
  /\ others \subseteq Friends[p]
  /\ minted' = {k}
  /\ Save(p, [members |-> others, epoch |-> 0, key |-> k],
          InvitesTo(others, k, 0, k.roster), {})
  /\ UNCHANGED nsent

SendGroupMessage(p) ==
  LET g == mem[p]
      m == [n |-> nsent + 1, from |-> p, epoch |-> g.epoch, key |-> g.key]
  IN
  /\ Knows(p)
  /\ nsent < MaxSend
  /\ nsent' = nsent + 1
  /\ Save(p, mem[p],
          {[kind |-> "message", to |-> q, msg |-> m] : q \in g.members}, {})
  /\ UNCHANGED minted

\* (Mutants: the invites go to the old roster; the epoch counts down.)
RebuildForAll(p, removed) ==
  LET g == mem[p]
      k == [n |-> NextNumber, by |-> p, epoch |-> g.epoch + 1,
            roster |-> (g.members \ removed) \union {p}]
  IN
  /\ minted' = minted \union {k}
  /\ Save(p, [members |-> g.members \ removed, epoch |-> k.epoch, key |-> k],
          InvitesTo(g.members, k, k.epoch, k.roster), {})
RebuildDown(p, removed) ==
  LET g == mem[p]
      k == [n |-> NextNumber, by |-> p, epoch |-> g.epoch - 1,
            roster |-> (g.members \ removed) \union {p}]
  IN
  /\ minted' = minted \union {k}
  /\ Save(p, [members |-> g.members \ removed, epoch |-> k.epoch, key |-> k],
          InvitesTo(g.members \ removed, k, k.epoch, k.roster), {})

Rebuild(p, removed) ==
  LET g == mem[p]
      remaining == g.members \ removed
      k == [n |-> NextNumber, by |-> p, epoch |-> g.epoch + 1,
            roster |-> remaining \union {p}]
  IN
  /\ minted' = minted \union {k}
  /\ Save(p, [members |-> remaining, epoch |-> k.epoch, key |-> k],
          InvitesTo(remaining, k, k.epoch, k.roster), {})

RotateGroup(p) ==
  /\ p \in Admins
  /\ Knows(p)
  /\ MayMint
  /\ Rebuild(p, {})
  /\ UNCHANGED nsent

\* The removed member is not told.
RemoveMember(p, q) ==
  /\ p \in Admins
  /\ Knows(p)
  /\ q \in mem[p].members
  /\ MayMint
  /\ Rebuild(p, {q})
  /\ UNCHANGED nsent

\* Lock or crash, and unlock.
Reopen(p) ==
  /\ "reopen" \in Events
  /\ mem' = [mem EXCEPT ![p] = disk[p]]
  /\ UNCHANGED <<disk, wire, minted, nsent, calm>>

\* Any other command that saves the vault: what an earlier save left goes along.
SetSettings(p) ==
  /\ Save(p, mem[p], {}, {})
  /\ UNCHANGED <<minted, nsent>>

-----------------------------------------------------------------------------
(* process_incoming.                                                       *)

Taken(pkt) == {{pkt}} \union (IF "again" \in Events THEN {{}} ELSE {})

\* (Mutant: an invite is taken whatever its epoch.)
TakeAlways(i, g) == TRUE

Supersedes(i, g) == g = NoGroup \/ i.epoch >= g.epoch

\* What the invited makes of an invite.  (Mutant: it keeps the key it has.)
ViewWithOldKey(p, i) ==
  [members |-> i.roster \ {p}, epoch |-> i.epoch,
   key |-> IF Knows(p) THEN mem[p].key ELSE i.key]

View(p, i) == [members |-> i.roster \ {p}, epoch |-> i.epoch, key |-> i.key]

\* What is not newer changes nothing, but is saved and reported all the same.
HandleInvite(i) ==
  LET p == i.to
  IN
  /\ i \in wire
  /\ i.kind = "invite"
  /\ \E taken \in Taken(i) :
       Save(p, IF Supersedes(i, mem[p]) THEN View(p, i) ELSE mem[p], {}, taken)
  /\ UNCHANGED <<minted, nsent>>

\* conv_key_for and open_frame.  The key held is tried whatever its epoch.
Opens(g, m) == g # NoGroup /\ m.from \in g.members /\ m.key = g.key

\* The messages stored are not kept: one that came before is dropped without a
\* save, one that opens is saved with the vault.
ReceiveMessage(pkt) ==
  LET p == pkt.to
  IN
  /\ pkt \in wire
  /\ pkt.kind = "message"
  /\ \E taken \in Taken(pkt) :
       \/ /\ Opens(mem[p], pkt.msg)
          /\ Save(p, mem[p], {}, taken)
       \/ /\ wire' = wire \ taken
          /\ UNCHANGED <<mem, disk, calm>>
  /\ UNCHANGED <<minted, nsent>>

-----------------------------------------------------------------------------
Next ==
  \/ \E p \in Peers :
       \/ \E others \in SUBSET Peers : CreateGroup(p, others)
       \/ SendGroupMessage(p) \/ RotateGroup(p)
       \/ \E q \in Peers : RemoveMember(p, q)
       \/ Reopen(p) \/ SetSettings(p)
  \/ \E pkt \in wire : HandleInvite(pkt) \/ ReceiveMessage(pkt)

Spec == Init /\ [][Next]_vars

-----------------------------------------------------------------------------
(* Properties.                                                             *)

\* What p has of the group, in memory or on disk.
Held(p) == {mem[p], disk[p]} \ {NoGroup}

\* Nobody holds or is sent a key that was minted for a roster without it, and
\* everybody's roster and epoch are those the key was minted for: whoever
\* removed whom at the same time, invites that cross, repeat or come late never
\* mix the key of one rotation with the roster of another, and a rotation that
\* removes a member gives it nothing.
HeldWasGranted ==
  /\ \A p \in Peers : \A g \in Held(p) :
       /\ p \in g.key.roster
       /\ g.members = g.key.roster \ {p}
       /\ g.epoch = g.key.epoch
  /\ \A i \in wire : i.kind = "invite" =>
       /\ i.to \in i.key.roster
       /\ i.roster = i.key.roster
       /\ i.epoch = i.key.epoch

\* The keys that others have got from p, or may still get, or read with.
KeyOf(pkt) == IF pkt.kind = "invite" THEN pkt.key ELSE pkt.msg.key
Released(p) ==
  {k \in minted : k.by = p /\
    \/ \E q \in Peers \ {p} : \E g \in Held(q) : g.key = k
    \/ \E pkt \in wire : KeyOf(pkt) = k}

\* One member never puts two keys of one epoch into the world, though saves
\* fail and it falls back to an older epoch when it reopens: two keys of one
\* epoch are of two members that rotated at once.
OneKeyPerEpoch ==
  \A p \in Peers : \A j, k \in Released(p) : j.epoch = k.epoch => j = k

\* The epoch that a vault file has never falls, whoever rotates, whatever
\* arrives late or twice, and whatever could not be saved.
SavedEpochNeverFalls ==
  [][\A p \in Peers : disk[p] # NoGroup =>
       /\ disk'[p] # NoGroup
       /\ disk'[p].epoch >= disk[p].epoch]_vars

Clash(e) == \E j, k \in minted : j.epoch = e /\ k.epoch = e /\ j # k

\* A message under way cannot be opened, or not yet, only because its addressee
\* is at another epoch than the sender was or because its epoch was minted more
\* than once: key and roster never part.
UnopenedOnlyAcrossEpochs ==
  \A pkt \in wire : pkt.kind = "message" =>
    \/ Opens(mem[pkt.to], pkt.msg)
    \/ mem[pkt.to] = NoGroup
    \/ mem[pkt.to].epoch # pkt.msg.epoch
    \/ Clash(pkt.msg.epoch)

\* Rotation settles: as long as no save fails, everybody in the roster of the
\* newest rotation, if there is one newest, holds its key once its invite has
\* arrived.  Order, repetition and reopening do not matter.
SettledAgree ==
  \A k \in minted : \A p \in k.roster :
    /\ calm
    /\ \A j \in minted : j # k => j.epoch < k.epoch
    /\ \A i \in wire : i.kind = "invite" => ~ (i.to = p /\ i.key = k)
    => mem[p] # NoGroup /\ mem[p].key = k
=============================================================================
