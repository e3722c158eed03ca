-------------------------- MODULE GroupKeysProofs --------------------------
(***************************************************************************)
(* Proofs about GroupKeys, for any set of peers and any number of keys and *)
(* messages.  The argument has three parts.  Every step is one of four     *)
(* forms (StepForms): a key is minted, an invite is taken, what is held is *)
(* used, or the vault is opened again.  IInv holds initially and each form *)
(* preserves it.  The properties of the runs follow from IInv.             *)
(***************************************************************************)
EXTENDS GroupKeys, TLAPS

-----------------------------------------------------------------------------
(* The inductive invariant.                                                *)

KeysMinted ==
  /\ \A p \in Peers : \A g \in Held(p) : g.key \in minted
  /\ \A pkt \in wire : KeyOf(pkt) \in minted

\* A vault in memory is never behind the file, except after a save.
DiskBehind ==
  \A p \in Peers : disk[p] # NoGroup =>
    mem[p] # NoGroup /\ mem[p].epoch >= disk[p].epoch

NotToMinter == \A i \in wire : i.kind = "invite" => i.to # i.key.by

MessageFits ==
  \A pkt \in wire : pkt.kind = "message" =>
    /\ pkt.msg.epoch = pkt.msg.key.epoch
    /\ pkt.msg.from \in pkt.msg.key.roster
    /\ pkt.msg.from # pkt.to

\* What p has released is in its file, or is older than what is.
ReleasedSaved ==
  \A p \in Peers : \A k \in Released(p) :
    disk[p] # NoGroup /\ k.epoch =< disk[p].epoch

\* A key of its own that p holds is the only one of its epoch it released.
OwnKeyUnique ==
  \A p \in Peers : \A g \in Held(p) : g.key.by = p =>
    \A k \in Released(p) : k.epoch = g.epoch => k = g.key

CalmSaved == calm => mem = disk

\* Without failed saves, who is in the roster of a key has moved to its epoch
\* or still has its invite to come.
Awaits(p, k) == \E i \in wire : i.kind = "invite" /\ i.to = p /\ i.key = k
Reached(p, k) == mem[p] # NoGroup /\ mem[p].epoch >= k.epoch
Invited ==
  calm => \A k \in minted : \A p \in k.roster : Awaits(p, k) \/ Reached(p, k)

IInv ==
  /\ TypeOK
  /\ HeldWasGranted
  /\ KeysMinted
  /\ DiskBehind
  /\ NotToMinter
  /\ MessageFits
  /\ ReleasedSaved
  /\ OwnKeyUnique
  /\ OneKeyPerEpoch
  /\ CalmSaved
  /\ Invited

-----------------------------------------------------------------------------
(* The four forms of a step.                                               *)

\* p's vault becomes v; if it is saved, the packets sent leave.
Changed(p, v, sent, taken, saved) ==
  /\ p \in Peers /\ saved \in BOOLEAN
  /\ mem' = [mem EXCEPT ![p] = v]
  /\ disk' = IF saved THEN [disk EXCEPT ![p] = v] ELSE disk
  /\ wire' = IF saved THEN (wire \ taken) \union sent ELSE wire \ taken
  /\ calm' \in BOOLEAN
  /\ calm' => calm /\ (saved \/ v = mem[p] \/ v = disk[p])

\* create_group, rotate_group_key and remove_member: k is a new key.
MintStep(p, rest, k, saved) ==
  /\ rest \subseteq Peers /\ p \notin rest
  /\ k \in Keys /\ k \notin minted
  /\ k.by = p /\ k.roster = rest \union {p}
  /\ \/ mem[p] = NoGroup /\ minted = {}
     \/ mem[p] # NoGroup /\ k.epoch = mem[p].epoch + 1
  /\ minted' = minted \union {k}
  /\ Changed(p, [members |-> rest, epoch |-> k.epoch, key |-> k],
             InvitesTo(rest, k, k.epoch, k.roster), {}, saved)

\* An invite that is not older than what p holds.
TakeStep(p, i, taken, saved) ==
  /\ i \in wire /\ i.kind = "invite" /\ i.to = p
  /\ Supersedes(i, mem[p])
  /\ taken \subseteq {i}
  /\ minted' = minted
  /\ Changed(p, View(p, i), {}, taken, saved)

\* Everything that leaves the group in memory as it is: a message sent or
\* received, an older invite, settings.
UseStep(p, sent, taken, saved) ==
  /\ \A pkt \in sent :
       /\ pkt \in MessagePackets
       /\ mem[p] # NoGroup /\ pkt.to \in mem[p].members
       /\ pkt.msg.from = p
       /\ pkt.msg.epoch = mem[p].epoch /\ pkt.msg.key = mem[p].key
  /\ \A i \in taken : i.kind = "invite" =>
       mem[i.to] # NoGroup /\ mem[i.to].epoch >= i.epoch
  /\ minted' = minted
  /\ Changed(p, mem[p], sent, taken, saved)

ReopenStep(p) ==
  /\ minted' = minted
  /\ Changed(p, disk[p], {}, {}, FALSE)

\* Save changes the vault in one of two ways.
LEMMA SaveChanges ==
  ASSUME TypeOK, NEW p \in Peers, NEW v, NEW sent, NEW taken,
         Save(p, v, sent, taken)
  PROVE  \E saved \in BOOLEAN : Changed(p, v, sent, taken, saved)
<1>1. CASE disk' = [disk EXCEPT ![p] = v]
           /\ wire' = (wire \ taken) \union sent /\ calm' = calm
  <2>1. Changed(p, v, sent, taken, TRUE)
    BY <1>1 DEF Changed, Save, TypeOK
  <2> QED BY <2>1
<1>2. CASE calm' = FALSE /\ wire' = wire \ taken /\ disk' = disk
  <2>1. Changed(p, v, sent, taken, FALSE)
    BY <1>2 DEF Changed, Save
  <2> QED BY <2>1
<1> QED BY <1>1, <1>2 DEF Save

\* A key that is minted was not minted before.
LEMMA FreshKey ==
  ASSUME TypeOK, MayMint
  PROVE  NextNumber \in 1..MaxMint /\ \A k \in minted : k.n # NextNumber
<1>1. NextNumber \in 1..MaxMint /\ Fresh(NextNumber)
  BY DEF NextNumber, MayMint
<1>2. \A k \in minted : k.n \in 1..MaxMint
  BY DEF TypeOK, Keys
<1> QED BY <1>1, <1>2, ConstantsAssumption DEF Fresh

\* Who is in a group a peer holds.
LEMMA HeldFits ==
  ASSUME TypeOK, HeldWasGranted, NEW p \in Peers, mem[p] # NoGroup
  PROVE  /\ mem[p] \in Groups
         /\ p \in mem[p].key.roster
         /\ mem[p].members = mem[p].key.roster \ {p}
         /\ mem[p].epoch = mem[p].key.epoch
         /\ mem[p].epoch \in Nat
         /\ mem[p].members \subseteq Peers
<1>1. mem[p] \in Groups
  BY DEF TypeOK, Vaults
<1>2. mem[p] \in Held(p)
  BY DEF Held
<1> QED BY <1>1, <1>2 DEF HeldWasGranted, Groups, Keys

LEMMA RebuildMints ==
  ASSUME TypeOK, HeldWasGranted, NEW p \in Peers, NEW removed,
         mem[p] # NoGroup, MayMint, Rebuild(p, removed)
  PROVE  \E rest, k : \E saved \in BOOLEAN : MintStep(p, rest, k, saved)
<1> DEFINE rest == mem[p].members \ removed
           k == [n |-> NextNumber, by |-> p, epoch |-> mem[p].epoch + 1,
                 roster |-> rest \union {p}]
           v == [members |-> rest, epoch |-> k.epoch, key |-> k]
           sent == InvitesTo(rest, k, k.epoch, k.roster)
<1>1. rest \subseteq Peers /\ p \notin rest
  BY HeldFits
<1>2. k \in Keys /\ k \notin minted
  BY <1>1, HeldFits, FreshKey DEF Keys
<1>3. minted' = minted \union {k} /\ Save(p, v, sent, {})
  BY DEF Rebuild
<1>4. PICK saved \in BOOLEAN : Changed(p, v, sent, {}, saved)
  <2> HIDE DEF v, sent
  <2> QED BY <1>3, SaveChanges
<1>5. k.by = p /\ k.roster = rest \union {p} /\ k.epoch = mem[p].epoch + 1
  OBVIOUS
<1>6. MintStep(p, rest, k, saved)
  <2> HIDE DEF k, rest
  <2> QED BY <1>1, <1>2, <1>3, <1>4, <1>5 DEF MintStep
<1> HIDE DEF k, rest
<1> QED BY <1>6

LEMMA CreateMints ==
  ASSUME TypeOK, KeysMinted, NEW p \in Peers, NEW others \in SUBSET Peers,
         CreateGroup(p, others)
  PROVE  \E rest, k : \E saved \in BOOLEAN : MintStep(p, rest, k, saved)
<1> DEFINE k == [n |-> NextNumber, by |-> p, epoch |-> 0,
                 roster |-> others \union {p}]
           v == [members |-> others, epoch |-> k.epoch, key |-> k]
           sent == InvitesTo(others, k, k.epoch, k.roster)
<1>1. others \subseteq Peers /\ p \notin others
  BY ConstantsAssumption DEF CreateGroup
<1>2. k \in Keys /\ k \notin minted
  BY <1>1, FreshKey DEF Keys, CreateGroup
<1>3. minted = {} /\ minted' = {k} /\ Save(p, v, sent, {})
  BY DEF CreateGroup
<1>4. PICK saved \in BOOLEAN : Changed(p, v, sent, {}, saved)
  <2> HIDE DEF v, sent
  <2> QED BY <1>3, SaveChanges
<1>5. k.by = p /\ k.roster = others \union {p}
  OBVIOUS
<1>6. mem[p] = NoGroup
  BY <1>3 DEF KeysMinted, Held
<1>7. MintStep(p, others, k, saved)
  <2> HIDE DEF k
  <2> QED BY <1>1, <1>2, <1>3, <1>4, <1>5, <1>6 DEF MintStep
<1> HIDE DEF k
<1> QED BY <1>7

LEMMA SendUses ==
  ASSUME TypeOK, HeldWasGranted, NEW p \in Peers, SendGroupMessage(p)
  PROVE  \E sent, taken : \E saved \in BOOLEAN : UseStep(p, sent, taken, saved)
<1> DEFINE m == [n |-> nsent + 1, from |-> p, epoch |-> mem[p].epoch,
                 key |-> mem[p].key]
           sent == {[kind |-> "message", to |-> q, msg |-> m] :
                    q \in mem[p].members}
<1>1. mem[p] # NoGroup /\ Save(p, mem[p], sent, {}) /\ minted' = minted
  BY DEF SendGroupMessage, Knows
<1>2. m \in Messages
  <2>1. nsent + 1 \in 1..MaxSend
    BY ConstantsAssumption DEF SendGroupMessage, TypeOK
  <2>2. mem[p].epoch \in Nat /\ mem[p].key \in Keys
    BY <1>1, HeldFits DEF Groups
  <2> QED BY <2>1, <2>2 DEF Messages
<1>3. m.from = p /\ m.epoch = mem[p].epoch /\ m.key = mem[p].key
  OBVIOUS
<1>4. \A pkt \in sent : pkt \in MessagePackets /\ pkt.to \in mem[p].members
                        /\ pkt.msg = m
  <2> HIDE DEF m
  <2> QED BY <1>1, <1>2, HeldFits DEF MessagePackets
<1>5. PICK saved \in BOOLEAN : Changed(p, mem[p], sent, {}, saved)
  <2> HIDE DEF sent
  <2> QED BY <1>1, SaveChanges
<1>6. UseStep(p, sent, {}, saved)
  <2> HIDE DEF sent, m
  <2> QED BY <1>1, <1>3, <1>4, <1>5 DEF UseStep
<1> HIDE DEF sent
<1> QED BY <1>6

LEMMA SettingsUse ==
  ASSUME TypeOK, NEW p \in Peers, SetSettings(p)
  PROVE  \E sent, taken : \E saved \in BOOLEAN : UseStep(p, sent, taken, saved)
<1>1. Save(p, mem[p], {}, {}) /\ minted' = minted
  BY DEF SetSettings
<1>2. PICK saved \in BOOLEAN : Changed(p, mem[p], {}, {}, saved)
  BY <1>1, SaveChanges
<1>3. UseStep(p, {}, {}, saved)
  BY <1>1, <1>2 DEF UseStep
<1> QED BY <1>3

LEMMA ReceiveUses ==
  ASSUME TypeOK, NEW pkt \in wire, ReceiveMessage(pkt)
  PROVE  \E p, sent, taken : \E saved \in BOOLEAN : UseStep(p, sent, taken, saved)
<1>1. pkt.to \in Peers /\ pkt.kind = "message" /\ minted' = minted
  BY DEF TypeOK, Packets, Invites, MessagePackets, ReceiveMessage
<1>2. PICK taken \in Taken(pkt) :
        \/ Save(pkt.to, mem[pkt.to], {}, taken)
        \/ wire' = wire \ taken /\ UNCHANGED <<mem, disk, calm>>
  BY DEF ReceiveMessage
<1>3. taken \subseteq {pkt}
  BY DEF Taken
<1>4. CASE Save(pkt.to, mem[pkt.to], {}, taken)
  <2>1. PICK saved \in BOOLEAN :
          Changed(pkt.to, mem[pkt.to], {}, taken, saved)
    BY <1>1, <1>4, SaveChanges
  <2>2. UseStep(pkt.to, {}, taken, saved)
    BY <1>1, <1>3, <2>1 DEF UseStep
  <2> QED BY <2>2
<1>5. CASE wire' = wire \ taken /\ UNCHANGED <<mem, disk, calm>>
  <2>1. Changed(pkt.to, mem[pkt.to], {}, taken, FALSE)
    BY <1>1, <1>5 DEF Changed, TypeOK
  <2>2. UseStep(pkt.to, {}, taken, FALSE)
    BY <1>1, <1>3, <2>1 DEF UseStep
  <2> QED BY <2>2
<1> QED BY <1>2, <1>4, <1>5

LEMMA InviteTakes ==
  ASSUME TypeOK, NEW i \in wire, HandleInvite(i)
  PROVE  \/ \E p, taken : \E saved \in BOOLEAN : TakeStep(p, i, taken, saved)
         \/ \E p, sent, taken : \E saved \in BOOLEAN :
              UseStep(p, sent, taken, saved)
<1> DEFINE p == i.to
           v == IF Supersedes(i, mem[p]) THEN View(p, i) ELSE mem[p]
<1>1. i \in Invites /\ i.kind = "invite" /\ p \in Peers /\ minted' = minted
  BY DEF TypeOK, Packets, Invites, MessagePackets, HandleInvite
<1>2. PICK taken \in Taken(i) : Save(p, v, {}, taken)
  BY DEF HandleInvite
<1>3. taken \subseteq {i}
  BY DEF Taken
<1>4. PICK saved \in BOOLEAN : Changed(p, v, {}, taken, saved)
  <2> HIDE DEF v, p
  <2> QED BY <1>1, <1>2, SaveChanges
<1>5. CASE Supersedes(i, mem[p])
  <2>1. TakeStep(p, i, taken, saved)
    BY <1>1, <1>3, <1>4, <1>5 DEF TakeStep
  <2> QED BY <2>1
<1>6. CASE ~ Supersedes(i, mem[p])
  <2>1. mem[p] # NoGroup /\ mem[p].epoch >= i.epoch
    <3>1. mem[p] # NoGroup /\ ~ (i.epoch >= mem[p].epoch)
      BY <1>6 DEF Supersedes
    <3>2. mem[p].epoch \in Nat /\ i.epoch \in Nat
      BY <1>1, <3>1 DEF TypeOK, Vaults, Groups, Invites
    <3> QED BY <3>1, <3>2
  <2>2. UseStep(p, {}, taken, saved)
    BY <1>1, <1>3, <1>4, <1>6, <2>1 DEF UseStep
  <2> QED BY <2>2
<1> QED BY <1>5, <1>6

LEMMA ReopenForm ==
  ASSUME TypeOK, NEW p \in Peers, Reopen(p)
  PROVE  ReopenStep(p)
BY DEF Reopen, ReopenStep, Changed, TypeOK

Mints == \E p, rest, k : \E saved \in BOOLEAN : MintStep(p, rest, k, saved)
Takes == \E p, i, taken : \E saved \in BOOLEAN : TakeStep(p, i, taken, saved)
Uses == \E p, sent, taken : \E saved \in BOOLEAN : UseStep(p, sent, taken, saved)
Reopens == \E p : ReopenStep(p)

LEMMA StepForms ==
  ASSUME TypeOK, HeldWasGranted, KeysMinted, Next
  PROVE  Mints \/ Takes \/ Uses \/ Reopens
<1>1. ASSUME NEW p \in Peers, NEW others \in SUBSET Peers,
             CreateGroup(p, others)
      PROVE  Mints
  BY <1>1, CreateMints DEF Mints
<1>2. ASSUME NEW p \in Peers, SendGroupMessage(p)
      PROVE  Uses
  BY <1>2, SendUses DEF Uses
<1>3. ASSUME NEW p \in Peers, RotateGroup(p)
      PROVE  Mints
  BY <1>3, RebuildMints DEF Mints, RotateGroup, Knows
<1>4. ASSUME NEW p \in Peers, NEW q \in Peers, RemoveMember(p, q)
      PROVE  Mints
  BY <1>4, RebuildMints DEF Mints, RemoveMember, Knows
<1>5. ASSUME NEW p \in Peers, Reopen(p)
      PROVE  Reopens
  BY <1>5, ReopenForm DEF Reopens
<1>6. ASSUME NEW p \in Peers, SetSettings(p)
      PROVE  Uses
  BY <1>6, SettingsUse DEF Uses
<1>7. ASSUME NEW i \in wire, HandleInvite(i)
      PROVE  Takes \/ Uses
  BY <1>7, InviteTakes DEF Takes, Uses
<1>8. ASSUME NEW pkt \in wire, ReceiveMessage(pkt)
      PROVE  Uses
  BY <1>8, ReceiveUses DEF Uses
<1> QED BY <1>1, <1>2, <1>3, <1>4, <1>5, <1>6, <1>7, <1>8 DEF Next

-----------------------------------------------------------------------------
(* What the four forms have in common, and that it preserves IInv.         *)

\* The vault v fits peer p: what HeldWasGranted says of one group.
Fits(p, v) ==
  /\ p \in v.key.roster
  /\ v.members = v.key.roster \ {p}
  /\ v.epoch = v.key.epoch

\* Packet pkt may be on the wire.
Sound(pkt) ==
  /\ pkt \in Packets
  /\ KeyOf(pkt) \in minted'
  /\ pkt.kind = "invite" =>
       /\ pkt.to \in pkt.key.roster /\ pkt.roster = pkt.key.roster
       /\ pkt.epoch = pkt.key.epoch /\ pkt.to # pkt.key.by
  /\ pkt.kind = "message" =>
       /\ pkt.msg.epoch = pkt.msg.key.epoch
       /\ pkt.msg.from \in pkt.msg.key.roster
       /\ pkt.msg.from # pkt.to

Proper(p, v, sent, taken, saved) ==
  /\ Changed(p, v, sent, taken, saved)
  /\ minted \subseteq minted' /\ minted' \subseteq Keys
  /\ v \in Vaults
  /\ v # NoGroup => Fits(p, v) /\ v.key \in minted'
  /\ disk[p] # NoGroup => v # NoGroup /\ v.epoch >= disk[p].epoch
  /\ \A pkt \in sent : Sound(pkt)

\* What the step releases, and that p has released no other key of the epoch.
Releases(p, v, saved) ==
  /\ \A q \in Peers \ {p} : Released(q)' \subseteq Released(q)
  /\ \A k \in Released(p)' :
       k \in Released(p) \/ (saved /\ v # NoGroup /\ v.key.by = p /\ k = v.key)
  /\ v # NoGroup /\ v.key.by = p =>
       \A k \in Released(p) : k.epoch = v.epoch => k = v.key

\* Who awaited an invite that is taken has reached its epoch, and who is in the
\* roster of a new key awaits its invite or has it.
Delivers(taken) ==
  /\ \A i \in taken : i.kind = "invite" =>
       (mem[i.to] # NoGroup)' /\ (mem[i.to].epoch)' >= i.epoch
  /\ \A k \in minted' \ minted : calm' =>
       \A q \in k.roster : Awaits(q, k)' \/ Reached(q, k)'

LEMMA ChangedFacts ==
  ASSUME TypeOK, NEW p, NEW v, NEW sent, NEW taken, NEW saved,
         Changed(p, v, sent, taken, saved)
  PROVE  /\ mem'[p] = v
         /\ disk'[p] = IF saved THEN v ELSE disk[p]
         /\ \A q \in Peers \ {p} : mem'[q] = mem[q] /\ disk'[q] = disk[q]
         /\ \A q \in Peers \ {p} : Held(q)' = Held(q)
         /\ \A g \in Held(p)' :
              g # NoGroup /\ (g = v \/ (~ saved /\ g = disk[p] /\ g \in Held(p)))
         /\ \A pkt \in wire' : pkt \in wire \/ (saved /\ pkt \in sent)
         /\ \A pkt \in wire \ taken : pkt \in wire'
<1>1. mem'[p] = v /\ disk'[p] = IF saved THEN v ELSE disk[p]
  BY DEF Changed, TypeOK
<1>2. \A q \in Peers \ {p} : mem'[q] = mem[q] /\ disk'[q] = disk[q]
  BY DEF Changed, TypeOK
<1>3. \A q \in Peers \ {p} : Held(q)' = Held(q)
  BY <1>2 DEF Held
<1>4. \A g \in Held(p)' :
        g # NoGroup /\ (g = v \/ (~ saved /\ g = disk[p] /\ g \in Held(p)))
  BY <1>1 DEF Held
<1>5. /\ \A pkt \in wire' : pkt \in wire \/ (saved /\ pkt \in sent)
      /\ \A pkt \in wire \ taken : pkt \in wire'
  BY DEF Changed
<1> QED BY <1>1, <1>2, <1>3, <1>4, <1>5

LEMMA ProperTypes ==
  ASSUME TypeOK, NEW p, NEW v, NEW sent, NEW taken, NEW saved,
         Proper(p, v, sent, taken, saved), nsent' \in 0..MaxSend
  PROVE  TypeOK'
<1>1. mem' \in [Peers -> Vaults] /\ disk' \in [Peers -> Vaults]
  BY DEF Proper, Changed, TypeOK
<1>2. wire' \subseteq Packets
  BY DEF Proper, Changed, TypeOK, Sound
<1>3. minted' \subseteq Keys /\ calm' \in BOOLEAN
  BY DEF Proper, Changed
<1> QED BY <1>1, <1>2, <1>3 DEF TypeOK

LEMMA ProperGrants ==
  ASSUME TypeOK, HeldWasGranted, NEW p, NEW v, NEW sent, NEW taken, NEW saved,
         Proper(p, v, sent, taken, saved)
  PROVE  HeldWasGranted'
<1>1. Changed(p, v, sent, taken, saved)
  BY DEF Proper
<1>2. ASSUME NEW q \in Peers, NEW g \in Held(q)'
      PROVE  Fits(q, g)
  <2>1. CASE q # p
    BY <1>1, <1>2, <2>1, ChangedFacts DEF HeldWasGranted, Fits
  <2>2. CASE q = p
    <3>1. g # NoGroup /\ (g = v \/ g \in Held(p))
      BY <1>1, <1>2, <2>2, ChangedFacts
    <3> QED BY <2>2, <3>1 DEF HeldWasGranted, Fits, Proper
  <2> QED BY <2>1, <2>2
<1>3. ASSUME NEW i \in wire', i.kind = "invite"
      PROVE  /\ i.to \in i.key.roster /\ i.roster = i.key.roster
             /\ i.epoch = i.key.epoch
  <2>1. i \in wire \/ i \in sent
    BY <1>1, ChangedFacts
  <2> QED BY <1>3, <2>1 DEF HeldWasGranted, Proper, Sound
<1> QED BY <1>2, <1>3 DEF HeldWasGranted, Fits

LEMMA ProperPackets ==
  ASSUME TypeOK, KeysMinted, NotToMinter, MessageFits,
         NEW p, NEW v, NEW sent, NEW taken, NEW saved,
         Proper(p, v, sent, taken, saved)
  PROVE  KeysMinted' /\ NotToMinter' /\ MessageFits'
<1>1. Changed(p, v, sent, taken, saved) /\ minted \subseteq minted'
  BY DEF Proper
<1>2. ASSUME NEW q \in Peers, NEW g \in Held(q)'
      PROVE  g.key \in minted'
  <2>1. CASE q # p
    BY <1>1, <1>2, <2>1, ChangedFacts DEF KeysMinted
  <2>2. CASE q = p
    <3>1. g # NoGroup /\ (g = v \/ g \in Held(p))
      BY <1>1, <1>2, <2>2, ChangedFacts
    <3> QED BY <1>1, <1>2, <2>2, <3>1 DEF KeysMinted, Proper
  <2> QED BY <2>1, <2>2
<1>3. \A pkt \in wire' : pkt \in wire \/ Sound(pkt)
  BY <1>1, ChangedFacts DEF Proper
<1>4. \A pkt \in wire' : KeyOf(pkt) \in minted'
  BY <1>1, <1>3 DEF KeysMinted, Sound
<1>5. KeysMinted'
  BY <1>2, <1>4 DEF KeysMinted, KeyOf
<1>6. NotToMinter' /\ MessageFits'
  BY <1>3 DEF NotToMinter, MessageFits, Sound
<1> QED BY <1>5, <1>6

\* A group held is a record with an epoch that can be compared.
LEMMA VaultEpochs ==
  ASSUME NEW v \in Vaults, v # NoGroup
  PROVE  v \in Groups /\ v.epoch \in Nat /\ v.key \in Keys /\ v.key.epoch \in Nat
BY DEF Vaults, Groups, Keys

LEMMA ProperBehind ==
  ASSUME TypeOK, DiskBehind, NEW p, NEW v, NEW sent, NEW taken, NEW saved,
         Proper(p, v, sent, taken, saved)
  PROVE  DiskBehind' /\ (CalmSaved => CalmSaved')
<1>1. Changed(p, v, sent, taken, saved) /\ v \in Vaults /\ p \in Peers
      /\ saved \in BOOLEAN
  BY DEF Proper, Changed
<1>2. ASSUME NEW q \in Peers, disk'[q] # NoGroup
      PROVE  mem'[q] # NoGroup /\ mem'[q].epoch >= disk'[q].epoch
  <2>1. CASE q # p
    BY <1>1, <1>2, <2>1, ChangedFacts DEF DiskBehind
  <2>2. CASE q = p /\ saved
    <3>1. mem'[q] = v /\ disk'[q] = v
      BY <1>1, <2>2, ChangedFacts
    <3> QED BY <1>1, <1>2, <3>1, VaultEpochs
  <2>3. CASE q = p /\ ~ saved
    <3>1. mem'[q] = v /\ disk'[q] = disk[q]
      BY <1>1, <2>3, ChangedFacts
    <3> QED BY <1>2, <2>3, <3>1 DEF Proper
  <2> QED BY <1>1, <2>1, <2>2, <2>3
<1>3. ASSUME CalmSaved, calm'
      PROVE  mem' = disk'
  <2>1. mem = disk /\ (saved \/ v = mem[p])
    BY <1>1, <1>3 DEF Changed, CalmSaved
  <2> QED BY <1>1, <2>1 DEF Changed, TypeOK
<1> QED BY <1>2, <1>3 DEF DiskBehind, CalmSaved

LEMMA ProperReleases ==
  ASSUME TypeOK, HeldWasGranted, ReleasedSaved, OwnKeyUnique, OneKeyPerEpoch,
         NEW p, NEW v, NEW sent, NEW taken, NEW saved,
         Proper(p, v, sent, taken, saved), Releases(p, v, saved)
  PROVE  ReleasedSaved' /\ OwnKeyUnique' /\ OneKeyPerEpoch'
<1>1. Changed(p, v, sent, taken, saved) /\ v \in Vaults /\ p \in Peers
      /\ saved \in BOOLEAN /\ (v # NoGroup => v.epoch = v.key.epoch)
  BY DEF Proper, Changed, Fits
<1>2. \A k \in Released(p) : k \in Keys /\ k.epoch \in Nat
  BY DEF Released, TypeOK, Keys
<1>3. ASSUME NEW q \in Peers, NEW k \in Released(q)'
      PROVE  disk'[q] # NoGroup /\ k.epoch =< disk'[q].epoch
  <2>1. CASE q # p
    BY <1>1, <1>3, <2>1, ChangedFacts DEF ReleasedSaved, Releases
  <2>2. CASE q = p /\ k \in Released(p)
    <3>1. disk[p] # NoGroup /\ k.epoch =< disk[p].epoch /\ disk[p] \in Vaults
      BY <1>1, <2>2 DEF ReleasedSaved, TypeOK
    <3>2. v # NoGroup /\ v.epoch >= disk[p].epoch
      BY <3>1 DEF Proper
    <3>3. disk'[p] = v \/ disk'[p] = disk[p]
      BY <1>1, ChangedFacts
    <3>4. v.epoch \in Nat /\ disk[p].epoch \in Nat /\ k.epoch \in Nat
      BY <1>1, <1>2, <2>2, <3>1, <3>2, VaultEpochs
    <3> QED BY <2>2, <3>1, <3>2, <3>3, <3>4
  <2>3. CASE q = p /\ k \notin Released(p)
    <3>1. saved /\ v # NoGroup /\ k = v.key
      BY <1>3, <2>3 DEF Releases
    <3>2. disk'[p] = v
      <4>1. disk'[p] = IF saved THEN v ELSE disk[p]
        BY <1>1, ChangedFacts
      <4> QED BY <3>1, <4>1
    <3>3. v.epoch \in Nat
      BY <1>1, <3>1, VaultEpochs
    <3> QED BY <1>1, <2>3, <3>1, <3>2, <3>3
  <2> QED BY <2>1, <2>2, <2>3
<1>4. ASSUME NEW q \in Peers, NEW g \in Held(q)', g.key.by = q,
             NEW k \in Released(q)', k.epoch = g.epoch
      PROVE  k = g.key
  <2>1. CASE q # p
    BY <1>1, <1>4, <2>1, ChangedFacts DEF OwnKeyUnique, Releases
  <2>2. CASE q = p /\ g = v
    <3>1. g # NoGroup
      BY <1>1, <1>4, <2>2, ChangedFacts
    <3> QED BY <1>4, <2>2, <3>1 DEF Releases
  <2>3. CASE q = p /\ g # v
    <3>1. ~ saved /\ g \in Held(p)
      BY <1>1, <1>4, <2>3, ChangedFacts
    <3>2. k \in Released(p)
      BY <1>4, <2>3, <3>1 DEF Releases
    <3> QED BY <1>1, <1>4, <2>3, <3>1, <3>2 DEF OwnKeyUnique
  <2> QED BY <2>1, <2>2, <2>3
<1>5. ASSUME NEW q \in Peers, NEW j \in Released(q)', NEW k \in Released(q)',
             j.epoch = k.epoch
      PROVE  j = k
  <2>1. CASE q # p \/ (j \in Released(p) /\ k \in Released(p))
    BY <1>1, <1>5, <2>1 DEF OneKeyPerEpoch, Releases
  <2>2. CASE q = p /\ j \notin Released(p)
    BY <1>1, <1>5, <2>2 DEF Releases
  <2>3. CASE q = p /\ k \notin Released(p)
    BY <1>1, <1>5, <2>3 DEF Releases
  <2> QED BY <2>1, <2>2, <2>3
<1> QED BY <1>3, <1>4, <1>5 DEF ReleasedSaved, OwnKeyUnique, OneKeyPerEpoch

LEMMA ProperInvites ==
  ASSUME TypeOK, HeldWasGranted, CalmSaved, Invited,
         NEW p, NEW v, NEW sent, NEW taken, NEW saved,
         Proper(p, v, sent, taken, saved), Delivers(taken)
  PROVE  Invited'
<1>1. Changed(p, v, sent, taken, saved) /\ v \in Vaults /\ p \in Peers
  BY DEF Proper, Changed
<1> SUFFICES ASSUME calm', NEW k \in minted', NEW q \in k.roster
             PROVE  Awaits(q, k)' \/ Reached(q, k)'
  BY DEF Invited
<1>2. calm /\ mem = disk
  BY <1>1 DEF Changed, CalmSaved
<1>3. CASE k \notin minted
  BY <1>3 DEF Delivers
<1>4. CASE k \in minted /\ Awaits(q, k)
  <2>1. PICK i \in wire : i.kind = "invite" /\ i.to = q /\ i.key = k
    BY <1>4 DEF Awaits
  <2>2. i.epoch = k.epoch
    BY <2>1 DEF HeldWasGranted
  <2>3. CASE i \in taken
    BY <2>1, <2>2, <2>3 DEF Delivers, Reached
  <2>4. CASE i \notin taken
    <3>1. i \in wire'
      BY <1>1, <2>4, ChangedFacts
    <3> QED BY <2>1, <3>1 DEF Awaits
  <2> QED BY <2>3, <2>4
<1>5. CASE k \in minted /\ Reached(q, k)
  <2>1. q \in Peers /\ k.epoch \in Nat
    BY <1>5 DEF TypeOK, Keys
  <2>2. CASE q # p
    BY <1>1, <1>5, <2>1, <2>2, ChangedFacts DEF Reached
  <2>3. CASE q = p
    <3>1. mem'[p] = v /\ disk[p] # NoGroup /\ disk[p].epoch >= k.epoch
      BY <1>1, <1>2, <1>5, <2>3, ChangedFacts DEF Reached
    <3>2. v # NoGroup /\ v.epoch >= disk[p].epoch
      BY <3>1 DEF Proper
    <3>3. v.epoch \in Nat /\ disk[p].epoch \in Nat
      BY <1>1, <3>1, <3>2, VaultEpochs DEF TypeOK
    <3> QED BY <2>1, <2>3, <3>1, <3>2, <3>3 DEF Reached
  <2> QED BY <2>2, <2>3
<1> QED BY <1>2, <1>3, <1>4, <1>5 DEF Invited

-----------------------------------------------------------------------------
(* Each form is Proper, Releases and Delivers.                             *)

\* What the invariant says of what p holds, in memory or in its file.
LEMMA HeldFacts ==
  ASSUME IInv, NEW p \in Peers, NEW g \in Held(p)
  PROVE  /\ g \in Groups /\ g \in Vaults /\ g # NoGroup
         /\ Fits(p, g) /\ g.key \in minted /\ g.epoch \in Nat
         /\ g.members \subseteq Peers /\ p \notin g.members
<1>1. g \in Vaults /\ g # NoGroup
  BY DEF Held, IInv, TypeOK
<1>2. Fits(p, g)
  BY DEF IInv, HeldWasGranted, Fits
<1>3. g.key \in minted
  BY DEF IInv, KeysMinted
<1> QED BY <1>1, <1>2, <1>3 DEF Vaults, Groups, Fits

\* A key that somebody else holds, or that is on the wire, is released.
LEMMA ReleasedKeys ==
  ASSUME NEW q \in Peers, NEW k \in minted, k.by = q,
         \/ \E r \in Peers \ {q} : \E g \in Held(r) : g.key = k
         \/ \E pkt \in wire : KeyOf(pkt) = k
  PROVE  k \in Released(q)
BY DEF Released

\* Where a released key comes from, one step later.
LEMMA ReleasedBefore ==
  ASSUME IInv, NEW p \in Peers, NEW v, NEW sent, NEW taken, NEW saved,
         Changed(p, v, sent, taken, saved),
         NEW q \in Peers, NEW k \in Released(q)'
  PROVE  \/ k \in Released(q)
         \/ k \in minted' /\ k.by = q /\ q # p /\ v # NoGroup /\ v.key = k
         \/ k \in minted' /\ k.by = q /\ saved /\ \E pkt \in sent : KeyOf(pkt) = k
<1>1. k \in minted' /\ k.by = q
      /\ (\/ \E r \in Peers \ {q} : \E g \in Held(r)' : g.key = k
          \/ \E pkt \in wire' : KeyOf(pkt) = k)
  BY DEF Released, KeyOf
<1>2. TypeOK /\ KeysMinted
  BY DEF IInv
<1>3. CASE \E r \in Peers \ {q} : \E g \in Held(r)' : g.key = k
  <2>1. PICK r \in Peers \ {q} : \E g \in Held(r)' : g.key = k
    BY <1>3
  <2>2. PICK g \in Held(r)' : g.key = k
    BY <2>1
  <2>3. CASE g \in Held(r)
    <3>1. k \in minted
      BY <1>2, <2>2, <2>3 DEF KeysMinted
    <3> QED BY <1>1, <2>2, <2>3, <3>1, ReleasedKeys
  <2>4. CASE g \notin Held(r)
    BY <1>1, <1>2, <2>2, <2>4, ChangedFacts
  <2> QED BY <2>3, <2>4
<1>4. CASE \E pkt \in wire' : KeyOf(pkt) = k
  <2>1. PICK pkt \in wire' : KeyOf(pkt) = k
    BY <1>4
  <2>2. CASE pkt \in wire
    <3>1. k \in minted
      BY <1>2, <2>1, <2>2 DEF KeysMinted
    <3> QED BY <1>1, <2>1, <2>2, <3>1, ReleasedKeys
  <2>3. CASE pkt \notin wire
    BY <1>1, <1>2, <2>1, <2>3, ChangedFacts
  <2> QED BY <2>2, <2>3
<1> QED BY <1>1, <1>3, <1>4

LEMMA ReopenProper ==
  ASSUME IInv, NEW p, ReopenStep(p)
  PROVE  /\ Proper(p, disk[p], {}, {}, FALSE)
         /\ Releases(p, disk[p], FALSE) /\ Delivers({})
<1>1. Changed(p, disk[p], {}, {}, FALSE) /\ minted' = minted /\ p \in Peers
  BY DEF ReopenStep, Changed
<1>2. disk[p] # NoGroup => disk[p] \in Held(p)
  BY DEF Held
<1>3. Proper(p, disk[p], {}, {}, FALSE)
  <2>1. disk[p] \in Vaults /\ minted \subseteq Keys
    BY <1>1 DEF IInv, TypeOK
  <2>2. disk[p] # NoGroup => Fits(p, disk[p]) /\ disk[p].key \in minted
                             /\ disk[p].epoch >= disk[p].epoch
    BY <1>1, <1>2, HeldFacts
  <2>3. \A pkt \in {} : Sound(pkt)
    OBVIOUS
  <2> HIDE DEF Sound, Fits
  <2> QED BY <1>1, <2>1, <2>2, <2>3 DEF Proper
<1>4. Releases(p, disk[p], FALSE)
  <2>1. ASSUME NEW q \in Peers, NEW k \in Released(q)'
        PROVE  k \in Released(q)
    <3>1. CASE q # p /\ disk[p] # NoGroup /\ disk[p].key = k /\ k.by = q
      <4>1. k \in minted
        BY <1>1, <1>2, <3>1, HeldFacts
      <4> QED BY <1>1, <1>2, <3>1, <4>1, ReleasedKeys
    <3> QED BY <1>1, <2>1, <3>1, ReleasedBefore
  <2>2. disk[p] # NoGroup /\ disk[p].key.by = p =>
          \A k \in Released(p) : k.epoch = disk[p].epoch => k = disk[p].key
    BY <1>1, <1>2 DEF IInv, OwnKeyUnique
  <2> QED BY <1>1, <2>1, <2>2 DEF Releases
<1>5. Delivers({})
  BY <1>1 DEF Delivers
<1> QED BY <1>3, <1>4, <1>5

\* An unread invite's key is of the invite's epoch and in circulation.
LEMMA InviteFacts ==
  ASSUME IInv, NEW i \in wire, i.kind = "invite"
  PROVE  /\ i.to \in Peers /\ i.key \in minted /\ i.epoch \in Nat
         /\ View(i.to, i) \in Vaults /\ View(i.to, i) # NoGroup
         /\ Fits(i.to, View(i.to, i))
         /\ i.to # i.key.by
<1>1. i \in Invites
  BY DEF IInv, TypeOK, Packets, Invites, MessagePackets
<1>2. View(i.to, i) \in Groups
  BY <1>1 DEF Invites, View, Groups
<1>3. View(i.to, i) \in Vaults /\ View(i.to, i) # NoGroup
  BY <1>2, ConstantsAssumption DEF Vaults
<1>4. Fits(i.to, View(i.to, i))
  BY DEF IInv, HeldWasGranted, Fits, View
<1>5. i.key \in minted
  BY DEF IInv, KeysMinted, KeyOf
<1>6. i.to # i.key.by
  BY DEF IInv, NotToMinter
<1> QED BY <1>1, <1>3, <1>4, <1>5, <1>6 DEF Invites

LEMMA TakeProper ==
  ASSUME IInv, NEW p, NEW i, NEW taken, NEW saved \in BOOLEAN,
         TakeStep(p, i, taken, saved)
  PROVE  /\ Proper(p, View(p, i), {}, taken, saved)
         /\ Releases(p, View(p, i), saved) /\ Delivers(taken)
<1> DEFINE v == View(p, i)
<1>1. Changed(p, v, {}, taken, saved) /\ minted' = minted /\ p \in Peers
  BY DEF TakeStep, Changed
<1>2. i \in wire /\ i.kind = "invite" /\ i.to = p /\ taken \subseteq {i}
  BY DEF TakeStep
<1>3. /\ v.key = i.key /\ v.epoch = i.epoch /\ i.epoch \in Nat
      /\ i.key \in minted /\ i.key.by # p
      /\ v \in Vaults /\ v # NoGroup /\ Fits(p, v)
  BY <1>2, InviteFacts DEF View
<1> HIDE DEF v
<1>4. disk[p] # NoGroup => v.epoch >= disk[p].epoch
  <2> SUFFICES ASSUME disk[p] # NoGroup PROVE v.epoch >= disk[p].epoch
    OBVIOUS
  <2>1. mem[p] # NoGroup /\ mem[p].epoch >= disk[p].epoch
    BY <1>1 DEF IInv, DiskBehind
  <2>2. i.epoch >= mem[p].epoch
    BY <2>1 DEF TakeStep, Supersedes
  <2>3. mem[p].epoch \in Nat /\ disk[p].epoch \in Nat
    BY <1>1, <2>1, VaultEpochs DEF IInv, TypeOK
  <2> QED BY <1>3, <2>1, <2>2, <2>3
<1>5. Proper(p, v, {}, taken, saved)
  <2>1. minted \subseteq Keys
    BY DEF IInv, TypeOK
  <2>2. \A pkt \in {} : Sound(pkt)
    OBVIOUS
  <2> HIDE DEF Sound, Fits
  <2> QED BY <1>1, <1>3, <1>4, <2>1, <2>2 DEF Proper
<1>6. Releases(p, v, saved)
  <2>1. ASSUME NEW q \in Peers, NEW k \in Released(q)'
        PROVE  k \in Released(q)
    <3>1. CASE v.key = k /\ k.by = q
      <4>1. KeyOf(i) = k
        BY <1>2, <1>3, <3>1 DEF KeyOf
      <4> QED BY <1>2, <1>3, <3>1, <4>1, ReleasedKeys
    <3> QED BY <1>1, <2>1, <3>1, ReleasedBefore
  <2> QED BY <1>1, <1>3, <2>1 DEF Releases
<1>7. Delivers(taken)
  <2>1. mem'[p] = v
    BY <1>1, ChangedFacts DEF IInv
  <2>2. mem'[p] # NoGroup /\ mem'[p].epoch >= i.epoch
    BY <1>3, <2>1
  <2> QED BY <1>1, <1>2, <2>2 DEF Delivers
<1> QED BY <1>5, <1>6, <1>7 DEF v

LEMMA UseProper ==
  ASSUME IInv, NEW p, NEW sent, NEW taken, NEW saved \in BOOLEAN,
         UseStep(p, sent, taken, saved)
  PROVE  /\ Proper(p, mem[p], sent, taken, saved)
         /\ Releases(p, mem[p], saved) /\ Delivers(taken)
<1>1. Changed(p, mem[p], sent, taken, saved) /\ minted' = minted /\ p \in Peers
  BY DEF UseStep, Changed
<1>2. mem[p] # NoGroup => mem[p] \in Held(p)
  BY DEF Held
<1>3. mem[p] # NoGroup =>
        /\ Fits(p, mem[p]) /\ mem[p].key \in minted
        /\ mem[p].members \subseteq Peers /\ p \notin mem[p].members
  BY <1>1, <1>2, HeldFacts
<1>4. ASSUME NEW pkt \in sent
      PROVE  /\ mem[p] # NoGroup /\ pkt.kind = "message"
             /\ KeyOf(pkt) = mem[p].key /\ Sound(pkt)
  <2>1. /\ pkt \in MessagePackets /\ pkt \in Packets /\ pkt.kind = "message"
        /\ mem[p] # NoGroup /\ pkt.to \in mem[p].members /\ pkt.msg.from = p
        /\ pkt.msg.epoch = mem[p].epoch /\ pkt.msg.key = mem[p].key
    BY DEF UseStep, MessagePackets, Packets
  <2>2. KeyOf(pkt) = mem[p].key /\ KeyOf(pkt) \in minted'
    BY <1>1, <1>3, <2>1 DEF KeyOf
  <2>3. /\ pkt.msg.epoch = pkt.msg.key.epoch
        /\ pkt.msg.from \in pkt.msg.key.roster /\ pkt.msg.from # pkt.to
    BY <1>3, <2>1 DEF Fits
  <2> QED BY <2>1, <2>2, <2>3 DEF Sound
<1>5. Proper(p, mem[p], sent, taken, saved)
  <2>1. minted \subseteq Keys /\ mem[p] \in Vaults
    BY <1>1 DEF IInv, TypeOK
  <2>2. disk[p] # NoGroup => mem[p] # NoGroup /\ mem[p].epoch >= disk[p].epoch
    BY <1>1 DEF IInv, DiskBehind
  <2>3. \A pkt \in sent : Sound(pkt)
    BY <1>4
  <2> HIDE DEF Sound, Fits
  <2> QED BY <1>1, <1>3, <2>1, <2>2, <2>3 DEF Proper
<1>6. Releases(p, mem[p], saved)
  <2>1. ASSUME NEW q \in Peers, NEW k \in Released(q)'
        PROVE  \/ k \in Released(q)
               \/ q = p /\ saved /\ mem[p] # NoGroup /\ k.by = p /\ k = mem[p].key
    <3>1. CASE q # p /\ mem[p] # NoGroup /\ mem[p].key = k /\ k.by = q
      BY <1>1, <1>2, <1>3, <3>1, ReleasedKeys
    <3>2. CASE saved /\ k.by = q /\ \E pkt \in sent : KeyOf(pkt) = k
      <4>1. mem[p] # NoGroup /\ mem[p].key = k
        BY <1>4, <3>2
      <4> QED BY <3>1, <3>2, <4>1
    <3> QED BY <1>1, <2>1, <3>1, <3>2, ReleasedBefore
  <2>2. mem[p] # NoGroup /\ mem[p].key.by = p =>
          \A k \in Released(p) : k.epoch = mem[p].epoch => k = mem[p].key
    BY <1>1, <1>2 DEF IInv, OwnKeyUnique
  <2> QED BY <1>1, <2>1, <2>2 DEF Releases
<1>7. Delivers(taken)
  <2>1. mem' = mem
    BY <1>1 DEF Changed, IInv, TypeOK
  <2> QED BY <1>1, <2>1 DEF Delivers, UseStep
<1> QED BY <1>5, <1>6, <1>7

LEMMA MintProper ==
  ASSUME IInv, NEW p, NEW rest, NEW k, NEW saved \in BOOLEAN,
         MintStep(p, rest, k, saved)
  PROVE  LET v == [members |-> rest, epoch |-> k.epoch, key |-> k]
             sent == InvitesTo(rest, k, k.epoch, k.roster)
         IN  Proper(p, v, sent, {}, saved) /\ Releases(p, v, saved)
             /\ Delivers({})
<1> DEFINE v == [members |-> rest, epoch |-> k.epoch, key |-> k]
           sent == InvitesTo(rest, k, k.epoch, k.roster)
<1>1. Changed(p, v, sent, {}, saved) /\ minted' = minted \union {k} /\ p \in Peers
  BY DEF MintStep, Changed
<1>2. /\ rest \subseteq Peers /\ p \notin rest
      /\ k \in Keys /\ k \notin minted /\ k.by = p /\ k.roster = rest \union {p}
      /\ k.epoch \in Nat
  BY DEF MintStep, Keys
<1>3. /\ v.key = k /\ v.epoch = k.epoch /\ v.members = rest
      /\ v \in Vaults /\ v # NoGroup /\ Fits(p, v)
  <2>1. v \in Groups
    BY <1>2 DEF Groups
  <2>2. v \in Vaults /\ v # NoGroup
    BY <2>1, ConstantsAssumption DEF Vaults
  <2>3. Fits(p, v)
    BY <1>2 DEF Fits
  <2> QED BY <2>2, <2>3
<1>4. ASSUME NEW pkt \in sent
      PROVE  /\ pkt \in Invites /\ pkt.kind = "invite" /\ pkt.to \in rest
             /\ pkt.key = k /\ pkt.epoch = k.epoch /\ pkt.roster = k.roster
  BY <1>2 DEF InvitesTo, Invites, Keys
<1>5. \A q \in rest : \E i \in sent :
        i.kind = "invite" /\ i.to = q /\ i.key = k
  <2> TAKE q \in rest
  <2> DEFINE i == [kind |-> "invite", to |-> q, epoch |-> k.epoch, key |-> k,
                   roster |-> k.roster]
  <2>1. i \in sent
    BY DEF InvitesTo
  <2>2. i.kind = "invite" /\ i.to = q /\ i.key = k
    OBVIOUS
  <2> QED BY <2>1, <2>2
<1> HIDE DEF v, sent
<1>6. disk[p] # NoGroup =>
        mem[p] # NoGroup /\ k.epoch > disk[p].epoch /\ disk[p].epoch \in Nat
  <2> SUFFICES ASSUME disk[p] # NoGroup
               PROVE  mem[p] # NoGroup /\ k.epoch > disk[p].epoch
                      /\ disk[p].epoch \in Nat
    OBVIOUS
  <2>1. mem[p] # NoGroup /\ mem[p].epoch >= disk[p].epoch
    BY <1>1 DEF IInv, DiskBehind
  <2>2. k.epoch = mem[p].epoch + 1
    BY <2>1 DEF MintStep
  <2>3. mem[p].epoch \in Nat /\ disk[p].epoch \in Nat
    BY <1>1, <2>1, VaultEpochs DEF IInv, TypeOK
  <2> QED BY <2>1, <2>2, <2>3
<1>7. Proper(p, v, sent, {}, saved)
  <2>1. minted \subseteq minted' /\ minted' \subseteq Keys /\ v.key \in minted'
    BY <1>1, <1>2, <1>3 DEF IInv, TypeOK
  <2>2. disk[p] # NoGroup => v # NoGroup /\ v.epoch >= disk[p].epoch
    BY <1>2, <1>3, <1>6
  <2>3. ASSUME NEW pkt \in sent
        PROVE  Sound(pkt)
    BY <1>1, <1>2, <1>4, <2>3 DEF Sound, KeyOf, Packets
  <2> HIDE DEF Sound, Fits
  <2> QED BY <1>1, <1>3, <2>1, <2>2, <2>3 DEF Proper
<1>8. Releases(p, v, saved)
  <2>1. ASSUME NEW q \in Peers, NEW j \in Released(q)'
        PROVE  j \in Released(q) \/ (q = p /\ saved /\ j = k)
    <3>1. \A pkt \in sent : KeyOf(pkt) = k
      BY <1>4 DEF KeyOf
    <3> QED BY <1>1, <1>2, <1>3, <2>1, <3>1, ReleasedBefore
  <2>2. ASSUME NEW j \in Released(p), j.epoch = k.epoch
        PROVE  j = k
    <3>1. disk[p] # NoGroup /\ j.epoch =< disk[p].epoch
      BY <1>1 DEF IInv, ReleasedSaved
    <3> QED BY <1>2, <1>6, <2>2, <3>1
  <2> QED BY <1>1, <1>2, <1>3, <2>1, <2>2 DEF Releases
<1>9. Delivers({})
  <2>1. ASSUME NEW j \in minted' \ minted, calm', NEW q \in j.roster
        PROVE  Awaits(q, j)' \/ Reached(q, j)'
    <3>1. j = k /\ q \in rest \union {p}
      BY <1>1, <1>2, <2>1
    <3>2. CASE q = p
      <4>1. mem'[p] = v
        BY <1>1, ChangedFacts DEF IInv
      <4> QED BY <1>2, <1>3, <3>1, <3>2, <4>1 DEF Reached
    <3>3. CASE q \in rest
      <4>1. v # mem[p] /\ v # disk[p]
        BY <1>1, <1>2, <1>3, HeldFacts DEF Held
      <4>2. saved
        BY <1>1, <2>1, <4>1 DEF Changed
      <4>3. sent \subseteq wire'
        BY <1>1, <4>2 DEF Changed
      <4>4. PICK i \in sent : i.kind = "invite" /\ i.to = q /\ i.key = k
        BY <1>5, <3>3
      <4> QED BY <3>1, <4>3, <4>4 DEF Awaits
    <3> QED BY <3>1, <3>2, <3>3
  <2> QED BY <2>1 DEF Delivers
<1> QED BY <1>7, <1>8, <1>9 DEF v, sent

\* Whatever happens, one vault changes properly.
ProperStep ==
  \E p, v, sent, taken : \E saved \in BOOLEAN :
    Proper(p, v, sent, taken, saved) /\ Releases(p, v, saved) /\ Delivers(taken)

LEMMA StepsProper ==
  ASSUME IInv, Next
  PROVE  ProperStep
<1>1. Mints \/ Takes \/ Uses \/ Reopens
  BY StepForms DEF IInv
<1>2. CASE Mints
  <2>1. PICK p, rest, k : \E saved \in BOOLEAN : MintStep(p, rest, k, saved)
    BY <1>2 DEF Mints
  <2>2. PICK saved \in BOOLEAN : MintStep(p, rest, k, saved)
    BY <2>1
  <2> QED BY <2>2, MintProper DEF ProperStep
<1>3. CASE Takes
  <2>1. PICK p, i, taken : \E saved \in BOOLEAN : TakeStep(p, i, taken, saved)
    BY <1>3 DEF Takes
  <2>2. PICK saved \in BOOLEAN : TakeStep(p, i, taken, saved)
    BY <2>1
  <2> QED BY <2>2, TakeProper DEF ProperStep
<1>4. CASE Uses
  <2>1. PICK p, sent, taken : \E saved \in BOOLEAN :
          UseStep(p, sent, taken, saved)
    BY <1>4 DEF Uses
  <2>2. PICK saved \in BOOLEAN : UseStep(p, sent, taken, saved)
    BY <2>1
  <2> QED BY <2>2, UseProper DEF ProperStep
<1>5. CASE Reopens
  <2>1. PICK p : ReopenStep(p)
    BY <1>5 DEF Reopens
  <2> QED BY <2>1, ReopenProper DEF ProperStep
<1> QED BY <1>1, <1>2, <1>3, <1>4, <1>5

\* Messages are counted up to the bound.
LEMMA CountTyped ==
  ASSUME TypeOK, Next
  PROVE  nsent' \in 0..MaxSend
<1>1. nsent \in 0..MaxSend /\ MaxSend \in Nat
  BY ConstantsAssumption DEF TypeOK
<1>2. ASSUME NEW p \in Peers, SendGroupMessage(p)
      PROVE  nsent' \in 0..MaxSend
  BY <1>1, <1>2 DEF SendGroupMessage
<1> QED BY <1>1, <1>2 DEF Next, CreateGroup, RotateGroup, RemoveMember, Reopen,
        SetSettings, HandleInvite, ReceiveMessage

-----------------------------------------------------------------------------
(* The invariant.                                                          *)

LEMMA IInvInit == Init => IInv
<1> SUFFICES ASSUME Init PROVE IInv
  OBVIOUS
<1>1. \A p \in Peers : mem[p] = NoGroup /\ disk[p] = NoGroup /\ Held(p) = {}
  BY DEF Init, Held
<1>2. wire = {} /\ minted = {} /\ mem = disk /\ \A p \in Peers : Released(p) = {}
  BY DEF Init, Released
<1>3. TypeOK
  BY ConstantsAssumption DEF Init, TypeOK, Vaults
<1>4. HeldWasGranted /\ KeysMinted /\ DiskBehind
  BY <1>1, <1>2 DEF HeldWasGranted, KeysMinted, DiskBehind
<1>5. NotToMinter /\ MessageFits /\ CalmSaved /\ Invited
  BY <1>2 DEF NotToMinter, MessageFits, CalmSaved, Invited
<1>6. ReleasedSaved /\ OwnKeyUnique /\ OneKeyPerEpoch
  BY <1>1, <1>2 DEF ReleasedSaved, OwnKeyUnique, OneKeyPerEpoch
<1> QED BY <1>3, <1>4, <1>5, <1>6 DEF IInv

LEMMA IInvKept ==
  ASSUME IInv, UNCHANGED vars
  PROVE  IInv'
BY DEF vars, IInv, TypeOK, HeldWasGranted, KeysMinted, DiskBehind, NotToMinter,
   MessageFits, ReleasedSaved, OwnKeyUnique, OneKeyPerEpoch, CalmSaved, Invited,
   Held, Released, Awaits, Reached, KeyOf

LEMMA IInvStep ==
  ASSUME IInv, [Next]_vars
  PROVE  IInv'
<1>1. CASE Next
  <2>1. PICK p, v, sent, taken : \E saved \in BOOLEAN :
          /\ Proper(p, v, sent, taken, saved)
          /\ Releases(p, v, saved) /\ Delivers(taken)
    BY <1>1, StepsProper DEF ProperStep
  <2>2. PICK saved \in BOOLEAN :
          /\ Proper(p, v, sent, taken, saved)
          /\ Releases(p, v, saved) /\ Delivers(taken)
    BY <2>1
  <2>3. nsent' \in 0..MaxSend
    BY <1>1, CountTyped DEF IInv
  <2>4. TypeOK' /\ HeldWasGranted'
    BY <2>2, <2>3, ProperTypes, ProperGrants DEF IInv
  <2>5. KeysMinted' /\ NotToMinter' /\ MessageFits'
    BY <2>2, ProperPackets DEF IInv
  <2>6. DiskBehind' /\ CalmSaved'
    BY <2>2, ProperBehind DEF IInv
  <2>7. ReleasedSaved' /\ OwnKeyUnique' /\ OneKeyPerEpoch'
    BY <2>2, ProperReleases DEF IInv
  <2>8. Invited'
    BY <2>2, ProperInvites DEF IInv
  <2> QED BY <2>4, <2>5, <2>6, <2>7, <2>8 DEF IInv
<1>2. CASE UNCHANGED vars
  BY <1>2, IInvKept
<1> QED BY <1>1, <1>2

LEMMA IInvAlways == Spec => []IInv
BY IInvInit, IInvStep, PTL DEF Spec

-----------------------------------------------------------------------------
(* The properties of the runs.                                             *)

\* The state stays within its types: commands, handlers, failed saves and
\* reopening never leave a vault or a packet that the code could not read.
THEOREM TypeCorrect == Spec => []TypeOK
BY IInvAlways, PTL DEF IInv

\* No member holds or is sent a key that rotate_group_key or remove_member
\* minted for a roster without it, or with another roster or epoch than the
\* key's: handle_invite keeps the three together.
THEOREM Granted == Spec => []HeldWasGranted
BY IInvAlways, PTL DEF IInv

\* A member that fell back to an older vault file after a failed save mints no
\* second key for an epoch of which it has already let one out: the commands
\* send only what they have saved.
THEOREM OneKey == Spec => []OneKeyPerEpoch
BY IInvAlways, PTL DEF IInv

LEMMA EpochStep ==
  ASSUME IInv, Next, NEW q \in Peers, disk[q] # NoGroup
  PROVE  disk'[q] # NoGroup /\ disk'[q].epoch >= disk[q].epoch
<1>1. PICK p, v, sent, taken : \E saved \in BOOLEAN :
        Proper(p, v, sent, taken, saved)
  BY StepsProper DEF ProperStep
<1>2. PICK saved \in BOOLEAN : Proper(p, v, sent, taken, saved)
  BY <1>1
<1>3. Changed(p, v, sent, taken, saved) /\ TypeOK
      /\ (disk[p] # NoGroup => v # NoGroup /\ v.epoch >= disk[p].epoch)
  BY <1>2 DEF Proper, IInv
<1>4. disk'[p] = v \/ disk'[p] = disk[p]
  BY <1>3, ChangedFacts
<1>5. q # p => disk'[q] = disk[q]
  BY <1>3, ChangedFacts
<1>6. disk[q].epoch \in Nat
  BY <1>3, VaultEpochs DEF TypeOK
<1> QED BY <1>3, <1>4, <1>5, <1>6

\* The epoch in a member's vault file never falls: handle_invite takes nothing
\* older, and what is in memory is never behind the file it is saved over.
THEOREM EpochNeverFalls == Spec => SavedEpochNeverFalls
<1>1. IInv /\ [Next]_vars =>
        [\A p \in Peers : disk[p] # NoGroup =>
           /\ disk'[p] # NoGroup
           /\ disk'[p].epoch >= disk[p].epoch]_vars
  BY EpochStep
<1> QED BY <1>1, IInvAlways, PTL DEF Spec, SavedEpochNeverFalls

\* Who is at the epoch of a message it cannot open is at an epoch that was
\* minted twice: key, roster and epoch never part on the way.
LEMMA FitsOpen ==
  ASSUME IInv
  PROVE  UnopenedOnlyAcrossEpochs
<1> SUFFICES ASSUME NEW pkt \in wire, pkt.kind = "message",
                    mem[pkt.to] # NoGroup,
                    mem[pkt.to].epoch = pkt.msg.epoch, ~ Clash(pkt.msg.epoch)
             PROVE  Opens(mem[pkt.to], pkt.msg)
  BY DEF UnopenedOnlyAcrossEpochs
<1> DEFINE p == pkt.to
           g == mem[p]
<1>1. p \in Peers
  BY DEF IInv, TypeOK, Packets, Invites, MessagePackets
<1>2. Fits(p, g) /\ g.key \in minted
  BY <1>1, HeldFacts DEF Held
<1>3. pkt.msg.key \in minted
  BY DEF IInv, KeysMinted, KeyOf
<1>4. /\ pkt.msg.epoch = pkt.msg.key.epoch
      /\ pkt.msg.from \in pkt.msg.key.roster /\ pkt.msg.from # p
  BY DEF IInv, MessageFits
<1>5. g.key = pkt.msg.key
  BY <1>2, <1>3, <1>4 DEF Clash, Fits
<1> QED BY <1>2, <1>4, <1>5 DEF Opens, Fits

\* Key, roster and epoch of what process_incoming stores never part: a message
\* that its addressee cannot open was sent at another epoch than it holds, or at
\* an epoch that two members minted.
THEOREM UnopenedOnly == Spec => []UnopenedOnlyAcrossEpochs
BY IInvAlways, FitsOpen, PTL

LEMMA InvitedAgree ==
  ASSUME IInv
  PROVE  SettledAgree
<1> SUFFICES ASSUME NEW k \in minted, NEW p \in k.roster, calm,
                    \A j \in minted : j # k => j.epoch < k.epoch,
                    \A i \in wire : i.kind = "invite" =>
                                      ~ (i.to = p /\ i.key = k)
             PROVE  mem[p] # NoGroup /\ mem[p].key = k
  BY DEF SettledAgree
<1>1. p \in Peers /\ k.epoch \in Nat
  BY DEF IInv, TypeOK, Keys
<1>2. Reached(p, k)
  BY DEF IInv, Invited, Awaits
<1>3. mem[p] # NoGroup /\ mem[p].epoch >= k.epoch
  BY <1>2 DEF Reached
<1>4. mem[p].key \in minted /\ mem[p].epoch = mem[p].key.epoch
      /\ mem[p].epoch \in Nat
  BY <1>1, <1>3, HeldFacts DEF Held, Fits
<1> QED BY <1>1, <1>3, <1>4

\* As long as no save fails, a rotation settles: once its invite has arrived
\* everybody left in the roster holds the newest key, if one is newest.
THEOREM Settled == Spec => []SettledAgree
BY IInvAlways, InvitedAgree, PTL
=============================================================================
