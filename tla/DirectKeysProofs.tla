-------------------------- MODULE DirectKeysProofs --------------------------
(***************************************************************************)
(* What DirectKeys guarantees for any set of peers, any number of keys and *)
(* messages, and whatever may happen besides the normal course.  Steps are *)
(* first reduced to what they do to one vault (VaultStep) and to the wire; *)
(* the invariants are then proved from these forms.                        *)
(***************************************************************************)
EXTENDS DirectKeys, SequenceLemmas, TLAPS

\* Peer p's vault becomes v in memory, and in the file unless the save fails.
VaultStep(p, v) ==
  /\ mem' = [mem EXCEPT ![p] = v]
  /\ disk' \in {disk, [disk EXCEPT ![p] = v]}

\* Nobody talks to himself: why a peer's own entry in its keys is idle.
NotSelf ==
  \A p \in Peers :
    /\ Range(wire[p][p]) = {}
    /\ \A v \in {mem[p], disk[p]} :
         p \notin v.friends \union v.pending /\ v.keys[p] = Pairwise

FriendInv == TypeOK /\ NotSelf /\ PendingIsNotFriend

\* Who does not rotate sends no KeyUpdate.
OnlyRotatorsSend ==
  \A p \in Peers \ Rotators, q \in Peers : \A pkt \in Range(wire[p][q]) :
    pkt.kind # "key"

OnePerEpoch(p, q) ==
  \A x, y \in KeysInUse(p, q) : x.epoch = y.epoch => x = y

\* The keys of a pair other than those p itself holds.
Others(p, q) ==
  {mem[q].keys[p], disk[q].keys[p]} \union OnWire(p, q) \union OnWire(q, p)

\* If q does not rotate, the file of p is ahead of whatever q has and whatever
\* is on its way, and the memory of p is ahead of its file.
Ahead(p, q) ==
  /\ disk[p].keys[q].epoch <= mem[p].keys[q].epoch
  /\ \A x \in Others(p, q) : x.epoch <= disk[p].keys[q].epoch

KeysInv ==
  /\ FriendInv
  /\ OnlyRotatorsSend
  /\ \A p \in Peers, q \in Peers \ Rotators : OnePerEpoch(p, q) /\ Ahead(p, q)

\* The packets of a sequence from one to another place carry no key.
NoKey(s, first, last) == \A j \in first..last : s[j].kind # "key"

\* The packets s from a peer with key own to a friend who holds held: the last
\* KeyUpdate brings own, and a message comes right when its key is in force.
Follows(s, own, held) ==
  /\ \A i \in 1..Len(s) :
       s[i].kind = "key" /\ NoKey(s, i + 1, Len(s)) => s[i].with = own
  /\ NoKey(s, 1, Len(s)) => own = held
  /\ \A i, j \in 1..Len(s) :
       /\ i < j /\ NoKey(s, i + 1, j)
       /\ s[i].kind = "key" /\ s[j].kind = "message"
       => s[j].msg.with = s[i].with
  /\ \A j \in 1..Len(s) :
       NoKey(s, 1, j) /\ s[j].kind = "message" => s[j].msg.with = held

\* A message travels between the two it names.
Addressed ==
  \A p, q \in Peers : \A pkt \in Range(wire[p][q]) :
    pkt.kind = "message" => pkt.msg.from = p /\ pkt.msg.to = q

\* What a peer sends to one who does not rotate arrives in force.
AllFollow ==
  \A p \in Peers, q \in Peers \ Rotators :
    Follows(wire[p][q], mem[p].keys[q], mem[q].keys[p])

OrderInv ==
  /\ KeysInv /\ Addressed
  /\ orderly => mem = disk /\ AllFollow

-----------------------------------------------------------------------------
(* Lemmas about vaults and the wire. *)

\* What the operators on vaults return.
LEMMA VaultOps ==
  ASSUME NEW v \in Vaults, NEW q \in Peers
  PROVE  /\ AddFriend(v, q) \in Vaults
         /\ AddFriend(v, q).friends = v.friends \union {q}
         /\ AddFriend(v, q).pending = v.pending \ {q}
         /\ AddFriend(v, q).keys = v.keys
         /\ AddPending(v, q) \in Vaults
         /\ AddPending(v, q).friends = v.friends
         /\ AddPending(v, q).pending \subseteq v.pending \union {q}
         /\ q \in v.friends => AddPending(v, q) = v
         /\ AddPending(v, q).keys = v.keys
  <1>1. /\ v.friends \subseteq Peers /\ v.pending \subseteq Peers
        /\ v.keys \in [Peers -> Keys] /\ v.stored \subseteq Messages
        /\ v = [friends |-> v.friends, pending |-> v.pending,
                keys |-> v.keys, stored |-> v.stored]
    BY DEF Vaults
  <1>2. AddFriend(v, q) = [friends |-> v.friends \union {q},
          pending |-> v.pending \ {q}, keys |-> v.keys, stored |-> v.stored]
    <2> DEFINE w == [v EXCEPT !.pending = v.pending \ {q}]
    <2>1. AddFriend(v, q) = [w EXCEPT !.friends = v.friends \union {q}]
      BY DEF AddFriend
    <2>2. w = [friends |-> v.friends, pending |-> v.pending \ {q},
               keys |-> v.keys, stored |-> v.stored]
      BY <1>1
    <2> HIDE DEF w
    <2> QED
      BY <2>1, <2>2
  <1>3. AddPending(v, q) = [friends |-> v.friends,
          pending |-> IF q \in v.friends THEN v.pending
                                         ELSE v.pending \union {q},
          keys |-> v.keys, stored |-> v.stored]
    BY <1>1 DEF AddPending
  <1>4. AddFriend(v, q) \in Vaults
    BY <1>1, <1>2 DEF Vaults
  <1>5. AddPending(v, q) \in Vaults
    BY <1>1, <1>3 DEF Vaults
  <1>6. q \in v.friends => AddPending(v, q) = v
    BY DEF AddPending
  <1> QED
    BY <1>2, <1>3, <1>4, <1>5, <1>6

\* Storing a key changes nothing else.
LEMMA SetKeyOps ==
  ASSUME NEW v \in Vaults, NEW q \in Peers, NEW k \in Keys
  PROVE  /\ SetDirectKey(v, q, k) \in Vaults
         /\ SetDirectKey(v, q, k).friends = v.friends
         /\ SetDirectKey(v, q, k).pending = v.pending
         /\ SetDirectKey(v, q, k).keys = [v.keys EXCEPT ![q] = k]
  <1>1. /\ v.friends \subseteq Peers /\ v.pending \subseteq Peers
        /\ v.keys \in [Peers -> Keys] /\ v.stored \subseteq Messages
        /\ v = [friends |-> v.friends, pending |-> v.pending,
                keys |-> v.keys, stored |-> v.stored]
    BY DEF Vaults
  <1>2. SetDirectKey(v, q, k) = [friends |-> v.friends, pending |-> v.pending,
          keys |-> [v.keys EXCEPT ![q] = k], stored |-> v.stored]
    BY <1>1 DEF SetDirectKey
  <1>3. [v.keys EXCEPT ![q] = k] \in [Peers -> Keys]
    BY <1>1
  <1> QED
    BY <1>1, <1>2, <1>3 DEF Vaults

\* Sending puts at most one packet more on its way, to somebody else.
LEMMA WirePost ==
  ASSUME FriendInv, NEW p \in Peers, NEW q \in Peers, p # q,
         NEW pkt \in Packets,
         wire' \in {wire, [wire EXCEPT ![p][q] = Append(@, pkt)]}
  PROVE  /\ wire' \in [Peers -> [Peers -> Seq(Packets)]]
         /\ \A r \in Peers : Range(wire'[r][r]) = {}
         /\ \A r, s \in Peers :
              Range(wire'[r][s]) \subseteq
                Range(wire[r][s])
                  \union (IF r = p /\ s = q THEN {pkt} ELSE {})
  <1> DEFINE t == Append(wire[p][q], pkt)
  <1>1. /\ wire \in [Peers -> [Peers -> Seq(Packets)]]
        /\ wire[p][q] \in Seq(Packets)
    BY DEF FriendInv, TypeOK
  <1>2. t \in Seq(Packets) /\ Range(t) = Range(wire[p][q]) \union {pkt}
    BY <1>1, AppendRange
  <1> HIDE DEF t
  <1>3. \A r, s \in Peers :
          wire'[r][s] \in {wire[r][s], IF r = p /\ s = q THEN t ELSE wire[r][s]}
    BY <1>1 DEF t
  <1>4. wire' \in [Peers -> [Peers -> Seq(Packets)]]
    <2>1. wire' \in {wire, [wire EXCEPT ![p][q] = t]}
      BY DEF t
    <2>2. [wire EXCEPT ![p][q] = t] \in [Peers -> [Peers -> Seq(Packets)]]
      BY <1>1, <1>2
    <2> QED
      BY <1>1, <2>1, <2>2
  <1>5. \A r \in Peers : Range(wire'[r][r]) = {}
    BY <1>3 DEF FriendInv, NotSelf
  <1> QED
    BY <1>2, <1>3, <1>4, <1>5

\* Receiving and losing packets puts none on its way.
LEMMA WireTake ==
  ASSUME TypeOK, NEW p \in Peers, NEW q \in Peers, NEW i \in DOMAIN wire[q][p],
         wire' \in {wire, [wire EXCEPT ![q][p] = RemoveAt(@, i)]}
  PROVE  /\ wire' \in [Peers -> [Peers -> Seq(Packets)]]
         /\ \A r, s \in Peers : Range(wire'[r][s]) \subseteq Range(wire[r][s])
         /\ wire[q][p][i] \in Range(wire[q][p]) /\ wire[q][p][i] \in Packets
  <1>1. /\ wire \in [Peers -> [Peers -> Seq(Packets)]]
        /\ wire[q][p] \in Seq(Packets)
    BY DEF TypeOK
  <1> DEFINE t == RemoveAt(wire[q][p], i)
  <1>2. t \in Seq(Packets) /\ Range(t) \subseteq Range(wire[q][p])
    BY <1>1, RemoveAtRange
  <1>3. wire[q][p][i] \in Range(wire[q][p]) /\ wire[q][p][i] \in Packets
    BY <1>1, RangeType DEF Range
  <1>4. CASE wire' = wire
    BY <1>1, <1>3, <1>4
  <1>5. CASE wire' = [wire EXCEPT ![q][p] = t]
    <2> HIDE DEF t
    <2>1. \A r, s \in Peers :
            wire'[r][s] = IF r = q /\ s = p THEN t ELSE wire[r][s]
      BY <1>1, <1>5
    <2>2. wire' \in [Peers -> [Peers -> Seq(Packets)]]
      BY <1>1, <1>2, <1>5
    <2> QED
      BY <1>2, <1>3, <2>1, <2>2
  <1> QED
    BY <1>4, <1>5

\* The keys on the wire are those of the packets.
LEMMA OnWireOf ==
  ASSUME NEW p \in Peers, NEW q \in Peers, NEW R,
         Range(wire'[p][q]) \subseteq Range(wire[p][q]) \union R
  PROVE  OnWire(p, q)' \subseteq
           OnWire(p, q)
             \union {pkt.with : pkt \in {x \in R : x.kind = "key"}}
             \union {pkt.msg.with : pkt \in {x \in R : x.kind = "message"}}
  BY DEF OnWire

-----------------------------------------------------------------------------
(* The steps, first the invariant of friends. *)

\* The initial state.
LEMMA InitFriends == Init => FriendInv
  <1> SUFFICES ASSUME Init PROVE FriendInv
    OBVIOUS
  <1>1. Pairwise \in Keys
    BY ConstantsAssumption DEF Pairwise, Keys
  <1>2. \A p \in Peers : NewVault(p) \in Vaults
    BY <1>1 DEF NewVault, Vaults
  <1>3. \A p \in Peers : mem[p] = NewVault(p) /\ disk[p] = NewVault(p)
    BY DEF Init
  <1>4. TypeOK
    BY <1>2, ConstantsAssumption DEF Init, TypeOK
  <1>5. NotSelf
    BY <1>3 DEF Init, NotSelf, NewVault, Range
  <1>6. \A p \in Peers : NewVault(p).friends \intersect NewVault(p).pending = {}
    BY DEF NewVault
  <1>7. PendingIsNotFriend
    BY <1>3, <1>6 DEF PendingIsNotFriend
  <1> QED
    BY <1>4, <1>5, <1>7 DEF FriendInv

\* A vault that holds no peer twice, and not its owner, may replace another.
LEMMA FriendStep ==
  ASSUME FriendInv, NEW p \in Peers, NEW v \in Vaults, VaultStep(p, v),
         v.friends \intersect v.pending = {},
         p \notin v.friends \union v.pending, v.keys[p] = Pairwise,
         wire' \in [Peers -> [Peers -> Seq(Packets)]],
         \A r \in Peers : Range(wire'[r][r]) = {},
         minted' \in 0..MaxMint, nsent' \in [Peers -> 0..MaxSend],
         unopened' \subseteq Messages, orderly' \in BOOLEAN
  PROVE  FriendInv'
  <1>1. mem \in [Peers -> Vaults] /\ disk \in [Peers -> Vaults]
    BY DEF FriendInv, TypeOK
  <1>2. /\ mem' \in [Peers -> Vaults] /\ disk' \in [Peers -> Vaults]
        /\ \A r \in Peers :
             /\ mem'[r] = IF r = p THEN v ELSE mem[r]
             /\ disk'[r] = disk[r] \/ (r = p /\ disk'[r] = v)
    BY <1>1 DEF VaultStep
  <1>3. TypeOK'
    BY <1>2 DEF TypeOK
  <1>4. NotSelf'
    BY <1>2 DEF FriendInv, NotSelf
  <1>5. PendingIsNotFriend'
    BY <1>2 DEF FriendInv, PendingIsNotFriend
  <1> QED
    BY <1>3, <1>4, <1>5 DEF FriendInv

\* What a vault satisfies before a step.
LEMMA VaultNow ==
  ASSUME FriendInv, NEW p \in Peers
  PROVE  /\ mem[p] \in Vaults /\ disk[p] \in Vaults
         /\ mem[p].friends \intersect mem[p].pending = {}
         /\ p \notin mem[p].friends \union mem[p].pending
         /\ mem[p].keys[p] = Pairwise
         /\ mem = [mem EXCEPT ![p] = mem[p]]
         /\ mem[p].keys \in [Peers -> Keys] /\ disk[p].keys \in [Peers -> Keys]
  BY DEF FriendInv, TypeOK, NotSelf, PendingIsNotFriend, Vaults

\* Steps after which everybody holds the keys of before, at most saved, and
\* only requests are new on the wire.
KeepsKeys ==
  /\ \A r \in Peers : /\ mem'[r].keys = mem[r].keys
                       /\ disk'[r].keys \in {disk[r].keys, mem[r].keys}
  /\ \A r, s \in Peers : \A x \in Range(wire'[r][s]) :
       x \in Range(wire[r][s]) \/ x.kind = "request"

\* A vault with the same keys may replace another.
LEMMA KeepsKeysStep ==
  ASSUME FriendInv, NEW p \in Peers, NEW v \in Vaults, VaultStep(p, v),
         v.keys = mem[p].keys,
         \A r, s \in Peers : \A x \in Range(wire'[r][s]) :
           x \in Range(wire[r][s]) \/ x.kind = "request"
  PROVE  KeepsKeys
  <1>1. mem \in [Peers -> Vaults] /\ disk \in [Peers -> Vaults]
    BY DEF FriendInv, TypeOK
  <1>2. \A r \in Peers :
          /\ mem'[r] = IF r = p THEN v ELSE mem[r]
          /\ disk'[r] = disk[r] \/ (r = p /\ disk'[r] = v)
    BY <1>1 DEF VaultStep
  <1> QED
    BY <1>2 DEF KeepsKeys

\* Importing a friend's token, and accepting a request.
LEMMA BefriendStep ==
  ASSUME FriendInv, NEW p \in Peers, NEW q \in Peers,
         ImportFriend(p, q) \/ AcceptRequest(p, q)
  PROVE  FriendInv' /\ KeepsKeys
  <1> DEFINE v == AddFriend(mem[p], q)
             pkt == [kind |-> "request"]
  <1>1. /\ VaultStep(p, v)
        /\ \/ wire' = [wire EXCEPT ![p][q] = Append(@, pkt)] /\ UNCHANGED orderly
           \/ UNCHANGED wire /\ orderly' = FALSE
        /\ UNCHANGED <<minted, nsent, unopened>>
    BY DEF ImportFriend, AcceptRequest, Save, Deliver, VaultStep
  <1>2. p # q
    BY VaultNow DEF ImportFriend, AcceptRequest
  <1>3. /\ v \in Vaults /\ v.keys = mem[p].keys
        /\ v.friends \intersect v.pending = {}
        /\ p \notin v.friends \union v.pending /\ v.keys[p] = Pairwise
    <2>1. mem[p] \in Vaults
      BY VaultNow
    <2>2. /\ v \in Vaults /\ v.keys = mem[p].keys
          /\ v.friends = mem[p].friends \union {q}
          /\ v.pending = mem[p].pending \ {q}
      BY <2>1, VaultOps
    <2> QED
      BY <1>2, <2>2, VaultNow
  <1>4. pkt \in Packets /\ pkt.kind = "request"
    BY DEF Packets
  <1> HIDE DEF v, pkt
  <1>5. /\ wire' \in [Peers -> [Peers -> Seq(Packets)]]
        /\ \A r \in Peers : Range(wire'[r][r]) = {}
        /\ \A r, s \in Peers : \A x \in Range(wire'[r][s]) :
             x \in Range(wire[r][s]) \/ x.kind = "request"
    <2>1. wire' \in {wire, [wire EXCEPT ![p][q] = Append(@, pkt)]}
      BY <1>1
    <2>2. /\ wire' \in [Peers -> [Peers -> Seq(Packets)]]
          /\ \A r \in Peers : Range(wire'[r][r]) = {}
          /\ \A r, s \in Peers :
               Range(wire'[r][s]) \subseteq
                 Range(wire[r][s])
                   \union (IF r = p /\ s = q THEN {pkt} ELSE {})
      BY <1>2, <1>4, <2>1, WirePost
    <2>3. \A r, s \in Peers : \A x \in Range(wire'[r][s]) :
            x \in Range(wire[r][s]) \/ x = pkt
      BY <2>2
    <2> QED
      BY <1>4, <2>2, <2>3
  <1>6. /\ minted' \in 0..MaxMint /\ nsent' \in [Peers -> 0..MaxSend]
        /\ unopened' \subseteq Messages /\ orderly' \in BOOLEAN
    BY <1>1 DEF FriendInv, TypeOK
  <1>7. FriendInv'
    BY <1>1, <1>3, <1>5, <1>6, FriendStep
  <1>8. KeepsKeys
    BY <1>1, <1>3, <1>5, KeepsKeysStep
  <1> QED
    BY <1>7, <1>8

\* Declining a request, and removing a friend.
LEMMA ForgetStep ==
  ASSUME FriendInv, NEW p \in Peers, NEW q \in Peers,
         DeclineRequest(p, q) \/ RemoveFriend(p, q)
  PROVE  FriendInv' /\ KeepsKeys
  <1>1. PICK v : /\ VaultStep(p, v)
                 /\ \/ v = [mem[p] EXCEPT !.pending = @ \ {q}]
                    \/ v = [mem[p] EXCEPT !.friends = @ \ {q}]
                 /\ orderly' \in {orderly, FALSE}
                 /\ UNCHANGED <<wire, minted, nsent, unopened>>
    BY DEF DeclineRequest, RemoveFriend, Save, VaultStep
  <1>2. /\ mem[p] \in Vaults
        /\ mem[p] = [friends |-> mem[p].friends, pending |-> mem[p].pending,
                     keys |-> mem[p].keys, stored |-> mem[p].stored]
    BY VaultNow DEF Vaults
  <1>3. /\ v \in Vaults /\ v.keys = mem[p].keys
        /\ v.friends \subseteq mem[p].friends
        /\ v.pending \subseteq mem[p].pending
    BY <1>1, <1>2 DEF Vaults
  <1>4. /\ v.friends \intersect v.pending = {}
        /\ p \notin v.friends \union v.pending /\ v.keys[p] = Pairwise
    BY <1>3, VaultNow
  <1>5. /\ wire' \in [Peers -> [Peers -> Seq(Packets)]]
        /\ \A r \in Peers : Range(wire'[r][r]) = {}
        /\ minted' \in 0..MaxMint /\ nsent' \in [Peers -> 0..MaxSend]
        /\ unopened' \subseteq Messages /\ orderly' \in BOOLEAN
    BY <1>1 DEF FriendInv, NotSelf, TypeOK
  <1>6. FriendInv'
    BY <1>1, <1>3, <1>4, <1>5, FriendStep
  <1>7. KeepsKeys
    BY <1>1, <1>3, KeepsKeysStep
  <1> QED
    BY <1>6, <1>7

\* Reopening reads the file.
LEMMA ReopenStep ==
  ASSUME FriendInv, NEW p \in Peers, Reopen(p)
  PROVE  FriendInv'
  <1>1. mem \in [Peers -> Vaults] /\ disk \in [Peers -> Vaults]
    BY DEF FriendInv, TypeOK
  <1>2. /\ \A r \in Peers : mem'[r] = IF r = p THEN disk[r] ELSE mem[r]
        /\ mem' \in [Peers -> Vaults]
        /\ UNCHANGED <<disk, wire, minted, nsent, unopened, orderly>>
    BY <1>1 DEF Reopen
  <1>3. TypeOK'
    BY <1>2 DEF FriendInv, TypeOK
  <1>4. NotSelf'
    BY <1>2 DEF FriendInv, NotSelf
  <1>5. PendingIsNotFriend'
    BY <1>2 DEF FriendInv, PendingIsNotFriend
  <1> QED
    BY <1>3, <1>4, <1>5 DEF FriendInv

\* The key and the vault that rotating makes.
NewKey(p, q) == [epoch |-> CurrentKey(mem[p], q).epoch + 1, key |-> minted + 1]
Rotated(p, q) == SetDirectKey(mem[p], q, NewKey(p, q))

\* Rotating: a key of the next epoch, sent only after it is saved.
LEMMA RotateStep ==
  ASSUME FriendInv, NEW p \in Peers, NEW q \in Peers, RotateDirect(p, q)
  PROVE  /\ FriendInv'
         /\ p # q /\ p \in Rotators /\ NewKey(p, q) \in Keys
         /\ mem' = [mem EXCEPT ![p] = Rotated(p, q)]
         /\ Rotated(p, q).keys = [mem[p].keys EXCEPT ![q] = NewKey(p, q)]
         /\ \/ /\ disk' = [disk EXCEPT ![p] = Rotated(p, q)]
               /\ \A r, s \in Peers :
                    Range(wire'[r][s]) \subseteq
                      Range(wire[r][s]) \union
                        (IF r = p /\ s = q
                           THEN {[kind |-> "key", with |-> NewKey(p, q)]}
                           ELSE {})
            \/ UNCHANGED <<disk, wire>>
  <1> DEFINE new == NewKey(p, q)
             v == Rotated(p, q)
             pkt == [kind |-> "key", with |-> new]
  <1>1. /\ p \in Rotators /\ q \in mem[p].friends /\ minted < MaxMint
        /\ mem' = [mem EXCEPT ![p] = v]
        /\ \/ /\ disk' = [disk EXCEPT ![p] = v]
              /\ wire' = [wire EXCEPT ![p][q] = Append(@, pkt)]
              /\ UNCHANGED orderly
           \/ UNCHANGED <<disk, wire>> /\ orderly' = FALSE
        /\ minted' = minted + 1
        /\ UNCHANGED <<nsent, unopened>>
    BY DEF RotateDirect, Save, Deliver, NewKey, Rotated
  <1>2. p # q
    BY <1>1, VaultNow
  <1>3. new \in Keys /\ minted' \in 0..MaxMint
    <2>1. mem[p].keys[q] \in Keys /\ minted \in 0..MaxMint
      BY VaultNow DEF FriendInv, TypeOK
    <2> QED
      BY <1>1, <2>1, ConstantsAssumption DEF Keys, NewKey, CurrentKey
  <1>4. /\ v \in Vaults /\ v.friends = mem[p].friends
        /\ v.pending = mem[p].pending
        /\ v.keys = [mem[p].keys EXCEPT ![q] = new]
    <2>1. mem[p] \in Vaults
      BY VaultNow
    <2> QED
      BY <1>3, <2>1, SetKeyOps DEF Rotated
  <1>5. /\ v.friends \intersect v.pending = {}
        /\ p \notin v.friends \union v.pending /\ v.keys[p] = Pairwise
    BY <1>2, <1>4, VaultNow
  <1>6. pkt \in Packets
    BY <1>3 DEF Packets
  <1> HIDE DEF v, new, pkt
  <1>7. wire' \in {wire, [wire EXCEPT ![p][q] = Append(@, pkt)]}
    BY <1>1
  <1>8. /\ wire' \in [Peers -> [Peers -> Seq(Packets)]]
        /\ \A r \in Peers : Range(wire'[r][r]) = {}
        /\ \A r, s \in Peers :
             Range(wire'[r][s]) \subseteq
               Range(wire[r][s])
                 \union (IF r = p /\ s = q THEN {pkt} ELSE {})
    BY <1>2, <1>6, <1>7, WirePost
  <1>9. /\ nsent' \in [Peers -> 0..MaxSend] /\ unopened' \subseteq Messages
        /\ orderly' \in BOOLEAN /\ VaultStep(p, v)
    BY <1>1 DEF FriendInv, TypeOK, VaultStep
  <1>10. FriendInv'
    BY <1>3, <1>4, <1>5, <1>8, <1>9, FriendStep
  <1> QED
    BY <1>1, <1>2, <1>3, <1>4, <1>8, <1>10 DEF v, new, pkt

\* The message that a user sends next.
NewMessage(p, q) == [from |-> p, to |-> q, n |-> nsent[p] + 1,
                     with |-> CurrentKey(mem[p], q)]

\* Sending: a message under the key in memory, which is saved before.
LEMMA SendStep ==
  ASSUME FriendInv, NEW p \in Peers, NEW q \in Peers, SendMessage(p, q)
  PROVE  /\ FriendInv'
         /\ p # q /\ mem' = mem
         /\ \/ /\ disk' = [disk EXCEPT ![p] = mem[p]]
               /\ \A r, s \in Peers :
                    Range(wire'[r][s]) \subseteq
                      Range(wire[r][s]) \union
                        (IF r = p /\ s = q
                           THEN {[kind |-> "message", msg |-> NewMessage(p, q)]}
                           ELSE {})
            \/ UNCHANGED <<disk, wire>>
  <1> DEFINE m == NewMessage(p, q)
             pkt == [kind |-> "message", msg |-> m]
  <1>1. /\ q \in mem[p].friends /\ nsent[p] < MaxSend
        /\ mem' = [mem EXCEPT ![p] = mem[p]]
        /\ \/ /\ disk' = [disk EXCEPT ![p] = mem[p]]
              /\ wire' = [wire EXCEPT ![p][q] = Append(@, pkt)]
              /\ UNCHANGED orderly
           \/ UNCHANGED <<disk, wire>> /\ orderly' = FALSE
        /\ nsent' = [nsent EXCEPT ![p] = @ + 1]
        /\ UNCHANGED <<minted, unopened>>
    BY DEF SendMessage, Save, Deliver, NewMessage
  <1>2. p # q /\ mem' = mem /\ mem[p] \in Vaults
    BY <1>1, VaultNow
  <1>3. m \in Messages /\ nsent[p] + 1 \in 0..MaxSend
    <2>1. mem[p].keys[q] \in Keys /\ nsent[p] \in 0..MaxSend
      BY VaultNow DEF FriendInv, TypeOK
    <2>2. nsent[p] + 1 \in 1..MaxSend /\ nsent[p] + 1 \in 0..MaxSend
      BY <1>1, <2>1, ConstantsAssumption
    <2> QED
      BY <2>1, <2>2 DEF Messages, NewMessage, CurrentKey
  <1>4. pkt \in Packets
    BY <1>3 DEF Packets
  <1> HIDE DEF pkt
  <1>5. wire' \in {wire, [wire EXCEPT ![p][q] = Append(@, pkt)]}
    BY <1>1
  <1>6. /\ wire' \in [Peers -> [Peers -> Seq(Packets)]]
        /\ \A r \in Peers : Range(wire'[r][r]) = {}
        /\ \A r, s \in Peers :
             Range(wire'[r][s]) \subseteq
               Range(wire[r][s])
                 \union (IF r = p /\ s = q THEN {pkt} ELSE {})
    BY <1>2, <1>4, <1>5, WirePost
  <1>7. /\ minted' \in 0..MaxMint /\ nsent' \in [Peers -> 0..MaxSend]
        /\ unopened' \subseteq Messages /\ orderly' \in BOOLEAN
        /\ VaultStep(p, mem[p])
    BY <1>1, <1>3 DEF FriendInv, TypeOK, VaultStep
  <1>8. FriendInv'
    BY <1>2, <1>6, <1>7, VaultNow, FriendStep
  <1> QED
    BY <1>1, <1>2, <1>6, <1>8 DEF pkt

\* What taking a packet from the wire leaves, and who sent it.
LEMMA TakeStep ==
  ASSUME FriendInv, NEW p \in Peers, NEW q \in Peers,
         NEW i \in Arrivals(q, p),
         wire' \in {wire, [wire EXCEPT ![q][p] = RemoveAt(@, i)]}
  PROVE  /\ wire' \in [Peers -> [Peers -> Seq(Packets)]]
         /\ \A r \in Peers : Range(wire'[r][r]) = {}
         /\ \A r, s \in Peers : Range(wire'[r][s]) \subseteq Range(wire[r][s])
         /\ wire[q][p][i] \in Range(wire[q][p]) /\ wire[q][p][i] \in Packets
         /\ p # q
  <1>1. i \in DOMAIN wire[q][p] /\ TypeOK
    BY DEF Arrivals, FriendInv
  <1>2. /\ wire' \in [Peers -> [Peers -> Seq(Packets)]]
        /\ \A r, s \in Peers : Range(wire'[r][s]) \subseteq Range(wire[r][s])
        /\ wire[q][p][i] \in Range(wire[q][p]) /\ wire[q][p][i] \in Packets
    BY <1>1, WireTake
  <1>3. \A r \in Peers : Range(wire[r][r]) = {}
    BY DEF FriendInv, NotSelf
  <1> QED
    BY <1>2, <1>3

\* Losing a packet.
LEMMA LoseStep ==
  ASSUME FriendInv, NEW p \in Peers, NEW q \in Peers, Lose(p, q)
  PROVE  FriendInv' /\ KeepsKeys
  <1>1. PICK i \in Arrivals(q, p) :
          wire' = [wire EXCEPT ![q][p] = RemoveAt(@, i)]
    BY DEF Lose
  <1>2. /\ wire' \in [Peers -> [Peers -> Seq(Packets)]]
        /\ \A r \in Peers : Range(wire'[r][r]) = {}
        /\ \A r, s \in Peers : Range(wire'[r][s]) \subseteq Range(wire[r][s])
    BY <1>1, TakeStep
  <1>3. UNCHANGED <<mem, disk, minted, nsent, unopened>> /\ orderly' = FALSE
    BY DEF Lose
  <1>4. TypeOK' /\ NotSelf' /\ PendingIsNotFriend'
    BY <1>2, <1>3 DEF FriendInv, TypeOK, NotSelf, PendingIsNotFriend
  <1> QED
    BY <1>2, <1>3, <1>4 DEF FriendInv, KeepsKeys

\* Receiving a request: pending only if its sender is not a friend yet.
LEMMA RequestStep ==
  ASSUME FriendInv, NEW p \in Peers, NEW q \in Peers, ReceiveRequest(p, q)
  PROVE  FriendInv' /\ KeepsKeys
  <1> DEFINE v == AddPending(mem[p], q)
  <1>1. PICK i \in Arrivals(q, p) :
          /\ \/ /\ mem' = [mem EXCEPT ![p] = v]
                /\ disk' \in {disk, [disk EXCEPT ![p] = v]}
             \/ v = mem[p] /\ UNCHANGED <<mem, disk>>
          /\ orderly' \in BOOLEAN
          /\ wire' \in {wire, [wire EXCEPT ![q][p] = RemoveAt(@, i)]}
          /\ UNCHANGED <<minted, nsent, unopened>>
    BY DEF ReceiveRequest, Save, Taken, InTurn
  <1>2. /\ wire' \in [Peers -> [Peers -> Seq(Packets)]]
        /\ \A r \in Peers : Range(wire'[r][r]) = {}
        /\ \A r, s \in Peers : Range(wire'[r][s]) \subseteq Range(wire[r][s])
        /\ p # q
    BY <1>1, TakeStep
  <1>3. mem[p] \in Vaults
    BY VaultNow
  <1>4. /\ v \in Vaults /\ v.keys = mem[p].keys /\ v.friends = mem[p].friends
        /\ v.pending \subseteq mem[p].pending \union {q}
        /\ q \in mem[p].friends => v = mem[p]
    BY <1>3, VaultOps
  <1>5. /\ v.friends \intersect v.pending = {}
        /\ p \notin v.friends \union v.pending /\ v.keys[p] = Pairwise
    BY <1>2, <1>4, VaultNow
  <1> HIDE DEF v
  <1>6. VaultStep(p, v)
    BY <1>1, VaultNow DEF VaultStep
  <1>7. /\ minted' \in 0..MaxMint /\ nsent' \in [Peers -> 0..MaxSend]
        /\ unopened' \subseteq Messages /\ orderly' \in BOOLEAN
    BY <1>1 DEF FriendInv, TypeOK
  <1>8. FriendInv'
    BY <1>2, <1>4, <1>5, <1>6, <1>7, FriendStep
  <1>9. KeepsKeys
    BY <1>2, <1>4, <1>6, KeepsKeysStep
  <1> QED
    BY <1>8, <1>9

\* Receiving a message: stored, or counted as unopened.
LEMMA MessageStep ==
  ASSUME FriendInv, NEW p \in Peers, NEW q \in Peers, ReceiveMessage(p, q)
  PROVE  FriendInv' /\ KeepsKeys
  <1>1. PICK i \in Arrivals(q, p) :
          LET m == wire[q][p][i].msg
              v == [mem[p] EXCEPT !.stored = @ \union {m}]
          IN
          /\ wire[q][p][i].kind = "message"
          /\ \/ /\ mem' = [mem EXCEPT ![p] = v]
                /\ disk' \in {disk, [disk EXCEPT ![p] = v]}
             \/ UNCHANGED <<mem, disk>>
          /\ unopened' \in {unopened, unopened \union {m}}
          /\ orderly' \in BOOLEAN
          /\ wire' \in {wire, [wire EXCEPT ![q][p] = RemoveAt(@, i)]}
          /\ UNCHANGED <<minted, nsent>>
    BY DEF ReceiveMessage, Save, Taken, InTurn
  <1> DEFINE m == wire[q][p][i].msg
  <1>2. /\ wire' \in [Peers -> [Peers -> Seq(Packets)]]
        /\ \A r \in Peers : Range(wire'[r][r]) = {}
        /\ \A r, s \in Peers : Range(wire'[r][s]) \subseteq Range(wire[r][s])
        /\ wire[q][p][i] \in Packets
    BY <1>1, TakeStep
  <1>3. m \in Messages
    BY <1>1, <1>2 DEF Packets
  <1>4. PICK v : /\ VaultStep(p, v)
                 /\ v \in {mem[p], [mem[p] EXCEPT !.stored = @ \union {m}]}
    BY <1>1, VaultNow DEF VaultStep
  <1>5. /\ mem[p] \in Vaults
        /\ mem[p] = [friends |-> mem[p].friends, pending |-> mem[p].pending,
                     keys |-> mem[p].keys, stored |-> mem[p].stored]
    BY VaultNow DEF Vaults
  <1>6. /\ v \in Vaults /\ v.keys = mem[p].keys
        /\ v.friends = mem[p].friends /\ v.pending = mem[p].pending
    BY <1>3, <1>4, <1>5 DEF Vaults
  <1>7. /\ v.friends \intersect v.pending = {}
        /\ p \notin v.friends \union v.pending /\ v.keys[p] = Pairwise
    BY <1>6, VaultNow
  <1>8. /\ minted' \in 0..MaxMint /\ nsent' \in [Peers -> 0..MaxSend]
        /\ unopened' \subseteq Messages /\ orderly' \in BOOLEAN
    BY <1>1, <1>3 DEF FriendInv, TypeOK
  <1>9. FriendInv'
    BY <1>2, <1>4, <1>6, <1>7, <1>8, FriendStep
  <1>10. KeepsKeys
    BY <1>2, <1>4, <1>6, KeepsKeysStep
  <1> QED
    BY <1>9, <1>10

\* Receiving a KeyUpdate: its key replaces the one held, unless its sender is
\* not a friend.
LEMMA KeyUpdateStep ==
  ASSUME FriendInv, NEW p \in Peers, NEW q \in Peers, ReceiveKeyUpdate(p, q)
  PROVE  /\ FriendInv' /\ p # q
         /\ \A r, s \in Peers : Range(wire'[r][s]) \subseteq Range(wire[r][s])
         /\ \E pkt \in Range(wire[q][p]), v \in Vaults :
              /\ pkt.kind = "key"
              /\ VaultStep(p, v)
              /\ v.keys \in {mem[p].keys, [mem[p].keys EXCEPT ![q] = pkt.with]}
  <1>1. PICK i \in Arrivals(q, p) :
          LET v == SetDirectKey(mem[p], q, wire[q][p][i].with)
          IN
          /\ wire[q][p][i].kind = "key"
          /\ \/ /\ mem' = [mem EXCEPT ![p] = v]
                /\ disk' \in {disk, [disk EXCEPT ![p] = v]}
             \/ UNCHANGED <<mem, disk>>
          /\ orderly' \in BOOLEAN
          /\ wire' \in {wire, [wire EXCEPT ![q][p] = RemoveAt(@, i)]}
          /\ UNCHANGED <<minted, nsent, unopened>>
    BY DEF ReceiveKeyUpdate, Adopt, Save, Taken, InTurn
  <1> DEFINE pkt == wire[q][p][i]
  <1>2. /\ wire' \in [Peers -> [Peers -> Seq(Packets)]]
        /\ \A r \in Peers : Range(wire'[r][r]) = {}
        /\ \A r, s \in Peers : Range(wire'[r][s]) \subseteq Range(wire[r][s])
        /\ pkt \in Packets /\ pkt \in Range(wire[q][p])
        /\ p # q
    BY <1>1, TakeStep
  <1>3. pkt.with \in Keys
    BY <1>1, <1>2 DEF Packets
  <1>4. PICK v : /\ VaultStep(p, v)
                 /\ \/ v = mem[p] /\ UNCHANGED <<mem, disk>>
                    \/ v = SetDirectKey(mem[p], q, pkt.with)
    BY <1>1, VaultNow DEF VaultStep
  <1>5. mem[p] \in Vaults
    BY VaultNow
  <1>6. /\ v \in Vaults
        /\ v.keys \in {mem[p].keys, [mem[p].keys EXCEPT ![q] = pkt.with]}
        /\ v.friends = mem[p].friends /\ v.pending = mem[p].pending
    <2> DEFINE u == SetDirectKey(mem[p], q, pkt.with)
    <2>1. /\ u \in Vaults /\ u.keys = [mem[p].keys EXCEPT ![q] = pkt.with]
          /\ u.friends = mem[p].friends /\ u.pending = mem[p].pending
      BY <1>3, <1>5, SetKeyOps
    <2> QED
      BY <1>4, <1>5, <2>1
  <1>7. /\ v.friends \intersect v.pending = {}
        /\ p \notin v.friends \union v.pending /\ v.keys[p] = Pairwise
    BY <1>2, <1>6, VaultNow
  <1>8. /\ minted' \in 0..MaxMint /\ nsent' \in [Peers -> 0..MaxSend]
        /\ unopened' \subseteq Messages /\ orderly' \in BOOLEAN
    BY <1>1 DEF FriendInv, TypeOK
  <1>9. FriendInv'
    BY <1>2, <1>4, <1>6, <1>7, <1>8, FriendStep
  <1> QED
    BY <1>1, <1>2, <1>4, <1>6, <1>9

\* Every step keeps the invariant of friends.
LEMMA FriendNext ==
  ASSUME FriendInv, [Next]_vars
  PROVE  FriendInv'
  <1>1. ASSUME NEW p \in Peers, NEW q \in Peers,
               ImportFriend(p, q) \/ AcceptRequest(p, q)
        PROVE  FriendInv'
    BY <1>1, BefriendStep
  <1>2. ASSUME NEW p \in Peers, NEW q \in Peers,
               DeclineRequest(p, q) \/ RemoveFriend(p, q)
        PROVE  FriendInv'
    BY <1>2, ForgetStep
  <1>3. ASSUME NEW p \in Peers, NEW q \in Peers, RotateDirect(p, q)
        PROVE  FriendInv'
    BY <1>3, RotateStep
  <1>4. ASSUME NEW p \in Peers, NEW q \in Peers, SendMessage(p, q)
        PROVE  FriendInv'
    BY <1>4, SendStep
  <1>5. ASSUME NEW p \in Peers, NEW q \in Peers, ReceiveRequest(p, q)
        PROVE  FriendInv'
    BY <1>5, RequestStep
  <1>6. ASSUME NEW p \in Peers, NEW q \in Peers, ReceiveKeyUpdate(p, q)
        PROVE  FriendInv'
    BY <1>6, KeyUpdateStep
  <1>7. ASSUME NEW p \in Peers, NEW q \in Peers, ReceiveMessage(p, q)
        PROVE  FriendInv'
    BY <1>7, MessageStep
  <1>8. ASSUME NEW p \in Peers, NEW q \in Peers, Lose(p, q)
        PROVE  FriendInv'
    BY <1>8, LoseStep
  <1>9. ASSUME NEW p \in Peers, Reopen(p)
        PROVE  FriendInv'
    BY <1>9, ReopenStep
  <1>10. CASE UNCHANGED vars
    BY <1>10 DEF vars, FriendInv, TypeOK, NotSelf, PendingIsNotFriend
  <1> QED
    BY <1>1, <1>2, <1>3, <1>4, <1>5, <1>6, <1>7, <1>8, <1>9, <1>10
    DEF Next, Receive

-----------------------------------------------------------------------------
(* The invariant of keys. *)

\* All keys in use are keys.
UseTyped ==
  /\ \A p, q \in Peers :
       /\ mem[p].keys[q] \in Keys /\ disk[p].keys[q] \in Keys
       /\ Others(p, q) \subseteq Keys
       /\ KeysInUse(p, q) =
            {mem[p].keys[q], disk[p].keys[q]} \union Others(p, q)
  /\ \A k \in Keys : k.epoch \in Nat

LEMMA UseTypes == FriendInv => UseTyped
  <1> SUFFICES ASSUME FriendInv PROVE UseTyped
    OBVIOUS
  <1>1. \A r, s \in Peers :
          mem[r].keys[s] \in Keys /\ disk[r].keys[s] \in Keys
    BY VaultNow
  <1>2. \A r, s \in Peers : OnWire(r, s) \subseteq Keys
    <2> SUFFICES ASSUME NEW r \in Peers, NEW s \in Peers
                 PROVE  OnWire(r, s) \subseteq Keys
      OBVIOUS
    <2>1. Range(wire[r][s]) \subseteq Packets
      <3>1. wire[r][s] \in Seq(Packets)
        BY DEF FriendInv, TypeOK
      <3> QED
        BY <3>1, RangeType
    <2>2. \A x \in Packets : /\ x.kind = "key" => x.with \in Keys
                             /\ x.kind = "message" => x.msg.with \in Keys
      BY DEF Packets, Messages
    <2> QED
      BY <2>1, <2>2 DEF OnWire
  <1>3. \A p, q \in Peers : Others(p, q) \subseteq Keys
    BY <1>1, <1>2 DEF Others
  <1>4. \A p, q \in Peers :
          KeysInUse(p, q) =
            {mem[p].keys[q], disk[p].keys[q]} \union Others(p, q)
    BY DEF KeysInUse, Others
  <1>5. \A k \in Keys : k.epoch \in Nat
    BY DEF Keys
  <1> QED
    BY <1>1, <1>3, <1>4, <1>5 DEF UseTyped

\* A pair of which only r may rotate: r may turn back to its file or move to a
\* later epoch, save, and then pass its key on.
PairMove(r, s) ==
  /\ disk'[r].keys[s] \in {disk[r].keys[s], mem'[r].keys[s]}
  /\ \/ mem'[r].keys[s] \in {mem[r].keys[s], disk[r].keys[s]}
     \/ mem'[r].keys[s].epoch > mem[r].keys[s].epoch
  /\ Others(r, s)' \subseteq Others(r, s) \union {disk'[r].keys[s]}

\* Such a move keeps one key per epoch, and r ahead.
LEMMA PairStep ==
  ASSUME FriendInv, FriendInv', NEW r \in Peers, NEW s \in Peers,
         OnePerEpoch(r, s), Ahead(r, s),
         PairMove(r, s)
  PROVE  OnePerEpoch(r, s)' /\ Ahead(r, s)'
  <1> DEFINE M == mem[r].keys[s]
             D == disk[r].keys[s]
             N == mem'[r].keys[s]
             E == disk'[r].keys[s]
             O == Others(r, s)
             P == Others(r, s)'
             Use == {M, D} \union O
  <1>1. /\ M \in Keys /\ D \in Keys /\ O \subseteq Keys
        /\ KeysInUse(r, s) = Use /\ \A k \in Keys : k.epoch \in Nat
    BY UseTypes DEF UseTyped
  <1>2. /\ N \in Keys /\ E \in Keys /\ P \subseteq Keys
        /\ KeysInUse(r, s)' = {N, E} \union P
    <2>1. UseTyped'
      BY UseTypes, PTL
    <2> QED
      BY <2>1 DEF UseTyped
  <1>3. D.epoch <= M.epoch /\ \A x \in O : x.epoch <= D.epoch
    BY DEF Ahead
  <1>4. \A x, y \in Use : x.epoch = y.epoch => x = y
    BY <1>1 DEF OnePerEpoch
  <1>5. /\ E \in {D, N}
        /\ N \in {M, D} \/ N.epoch > M.epoch
        /\ P \subseteq O \union {E}
    BY DEF PairMove
  <1> HIDE DEF M, D, N, E, O, P
  <1>6. D.epoch <= E.epoch /\ E.epoch <= N.epoch
    BY <1>1, <1>2, <1>3, <1>5
  <1>7. \A x \in P : x.epoch <= E.epoch
    BY <1>1, <1>2, <1>3, <1>5, <1>6
  <1>8. \A x, y \in {N, E} \union P : x.epoch = y.epoch => x = y
    <2>1. {N, E} \union P \subseteq Use \union {N}
      BY <1>5
    <2>2. N \in Use \/ \A x \in Use : x.epoch < N.epoch
      BY <1>1, <1>2, <1>3, <1>5
    <2>3. \A x, y \in Use \union {N} : x.epoch = y.epoch => x = y
      BY <1>1, <1>2, <1>4, <2>2
    <2> QED
      BY <2>1, <2>3
  <1> QED
    BY <1>2, <1>6, <1>7, <1>8 DEF OnePerEpoch, Ahead, N, E, P

Moves == \A r \in Peers, s \in Peers \ Rotators : PairMove(r, s)

\* The rest of the invariant of keys follows from the moves.
LEMMA MovesStep ==
  ASSUME KeysInv, FriendInv', OnlyRotatorsSend', Moves
  PROVE  KeysInv' /\ Moves
  <1>1. ASSUME NEW r \in Peers, NEW s \in Peers \ Rotators
        PROVE  OnePerEpoch(r, s)' /\ Ahead(r, s)'
    <2>1. FriendInv /\ OnePerEpoch(r, s) /\ Ahead(r, s) /\ PairMove(r, s)
      BY DEF KeysInv, Moves
    <2> QED
      BY <2>1, PairStep
  <1> QED
    BY <1>1 DEF KeysInv

\* Steps that keep the keys.
LEMMA KeepsKeysMoves ==
  ASSUME KeysInv, FriendInv', KeepsKeys
  PROVE  KeysInv' /\ Moves
  <1>1. OnlyRotatorsSend'
    BY DEF KeysInv, OnlyRotatorsSend, KeepsKeys
  <1>2. \A r, s \in Peers : OnWire(r, s)' \subseteq OnWire(r, s)
    BY DEF OnWire, KeepsKeys
  <1>3. \A r, s \in Peers : Others(r, s)' \subseteq Others(r, s)
    BY <1>2 DEF Others, KeepsKeys
  <1>4. \A r, s \in Peers :
          /\ mem'[r].keys[s] = mem[r].keys[s]
          /\ disk'[r].keys[s] \in {disk[r].keys[s], mem[r].keys[s]}
    BY DEF KeepsKeys
  <1>5. Moves
    BY <1>3, <1>4 DEF Moves, PairMove
  <1> QED
    BY <1>1, <1>5, MovesStep

\* Reopening.
LEMMA ReopenMoves ==
  ASSUME KeysInv, NEW p \in Peers, Reopen(p)
  PROVE  KeysInv' /\ Moves
  <1>1. FriendInv' /\ mem \in [Peers -> Vaults]
    BY ReopenStep DEF KeysInv, FriendInv, TypeOK
  <1>2. /\ \A r \in Peers : mem'[r] \in {mem[r], disk[r]}
        /\ UNCHANGED <<disk, wire>>
    BY <1>1 DEF Reopen
  <1>3. OnlyRotatorsSend'
    BY <1>2 DEF KeysInv, OnlyRotatorsSend
  <1>4. \A r, s \in Peers : Others(r, s)' \subseteq Others(r, s)
    BY <1>2 DEF Others, OnWire
  <1>5. Moves
    BY <1>2, <1>4 DEF Moves, PairMove
  <1> QED
    BY <1>1, <1>3, <1>5, MovesStep

\* Rotating: the only step that moves to a later epoch.
LEMMA RotateMoves ==
  ASSUME KeysInv, NEW p \in Peers, NEW q \in Peers, RotateDirect(p, q)
  PROVE  KeysInv' /\ Moves
  <1> DEFINE new == NewKey(p, q)
             v == Rotated(p, q)
             pkt == [kind |-> "key", with |-> new]
  <1>1. FriendInv /\ mem \in [Peers -> Vaults] /\ disk \in [Peers -> Vaults]
    BY DEF KeysInv, FriendInv, TypeOK
  <1>2. /\ FriendInv' /\ p # q /\ p \in Rotators /\ new \in Keys
        /\ mem' = [mem EXCEPT ![p] = v]
        /\ v.keys = [mem[p].keys EXCEPT ![q] = new]
        /\ \/ /\ disk' = [disk EXCEPT ![p] = v]
              /\ \A r, s \in Peers :
                   Range(wire'[r][s]) \subseteq
                     Range(wire[r][s])
                       \union (IF r = p /\ s = q THEN {pkt} ELSE {})
           \/ UNCHANGED <<disk, wire>>
    BY <1>1, RotateStep
  <1>3. pkt.kind = "key" /\ pkt.with = new
    OBVIOUS
  <1>4. new.epoch > mem[p].keys[q].epoch
    <2>1. mem[p].keys[q].epoch \in Nat
      BY <1>1, UseTypes DEF UseTyped
    <2> QED
      BY <2>1 DEF NewKey, CurrentKey
  <1>5. mem[p].keys \in [Peers -> Keys]
    BY <1>1, VaultNow
  <1> HIDE DEF new, v, pkt
  <1>6. \A r, s \in Peers :
          /\ mem'[r].keys[s] = IF r = p /\ s = q THEN new ELSE mem[r].keys[s]
          /\ disk'[r] = disk[r] \/ (r = p /\ disk'[r] = v)
    BY <1>1, <1>2, <1>5
  <1>7. OnlyRotatorsSend'
    BY <1>2 DEF KeysInv, OnlyRotatorsSend
  <1>8. \A r, s \in Peers :
          OnWire(r, s)' \subseteq
            OnWire(r, s) \union (IF r = p /\ s = q THEN {disk'[p].keys[q]} ELSE {})
    <2>1. CASE UNCHANGED <<disk, wire>>
      BY <2>1 DEF OnWire
    <2>2. CASE /\ disk' = [disk EXCEPT ![p] = v]
               /\ \A r, s \in Peers :
                    Range(wire'[r][s]) \subseteq
                      Range(wire[r][s])
                        \union (IF r = p /\ s = q THEN {pkt} ELSE {})
      <3>1. disk'[p].keys[q] = new
        BY <1>1, <1>2, <1>5, <2>2
      <3>2. pkt.kind # "message"
        BY <1>3
      <3>3. \A r, s \in Peers : \A x \in Range(wire'[r][s]) :
              x \in Range(wire[r][s]) \/ (r = p /\ s = q /\ x = pkt)
        BY <2>2
      <3> QED
        BY <1>3, <3>1, <3>2, <3>3 DEF OnWire
    <2> QED
      BY <1>2, <2>1, <2>2
  <1>9. Moves
    <2> SUFFICES ASSUME NEW r \in Peers, NEW s \in Peers \ Rotators
                 PROVE  PairMove(r, s)
      BY DEF Moves
    <2>1. /\ s # p
          /\ mem'[s] = mem[s] /\ disk'[s] = disk[s]
          /\ disk'[r] = disk[r] \/ disk'[r] = mem'[r]
      BY <1>1, <1>2
    <2>2. Others(r, s)' \subseteq Others(r, s) \union {disk'[r].keys[s]}
      BY <1>8, <2>1 DEF Others
    <2>3. \/ mem'[r].keys[s] = mem[r].keys[s]
          \/ mem'[r].keys[s].epoch > mem[r].keys[s].epoch
      BY <1>4, <1>6
    <2> QED
      BY <2>1, <2>2, <2>3 DEF PairMove
  <1> QED
    BY <1>2, <1>7, <1>9, MovesStep

\* Sending: the key of the message has just been saved.
LEMMA SendMoves ==
  ASSUME KeysInv, NEW p \in Peers, NEW q \in Peers, SendMessage(p, q)
  PROVE  KeysInv' /\ Moves
  <1> DEFINE m == NewMessage(p, q)
             pkt == [kind |-> "message", msg |-> m]
  <1>1. FriendInv /\ disk \in [Peers -> Vaults]
    BY DEF KeysInv, FriendInv, TypeOK
  <1>2. /\ FriendInv' /\ p # q /\ mem' = mem
        /\ \/ /\ disk' = [disk EXCEPT ![p] = mem[p]]
              /\ \A r, s \in Peers :
                   Range(wire'[r][s]) \subseteq
                     Range(wire[r][s])
                       \union (IF r = p /\ s = q THEN {pkt} ELSE {})
           \/ UNCHANGED <<disk, wire>>
    BY <1>1, SendStep
  <1>3. pkt.kind = "message" /\ pkt.msg.with = mem[p].keys[q]
    BY DEF NewMessage, CurrentKey
  <1> HIDE DEF pkt
  <1>4. \A r \in Peers : disk'[r] \in {disk[r], mem[r]}
    BY <1>1, <1>2
  <1>5. OnlyRotatorsSend'
    BY <1>2, <1>3 DEF KeysInv, OnlyRotatorsSend
  <1>6. \A r, s \in Peers :
          \/ OnWire(r, s)' \subseteq OnWire(r, s)
          \/ /\ r = p /\ s = q /\ disk'[p] = mem[p]
             /\ OnWire(r, s)' \subseteq OnWire(r, s) \union {mem[p].keys[q]}
    <2>1. CASE UNCHANGED <<disk, wire>>
      BY <2>1 DEF OnWire
    <2>2. CASE /\ disk' = [disk EXCEPT ![p] = mem[p]]
               /\ \A r, s \in Peers :
                    Range(wire'[r][s]) \subseteq
                      Range(wire[r][s])
                        \union (IF r = p /\ s = q THEN {pkt} ELSE {})
      <3>1. disk'[p] = mem[p]
        BY <1>1, <2>2
      <3>2. pkt.kind # "key"
        BY <1>3
      <3>3. \A r, s \in Peers : \A x \in Range(wire'[r][s]) :
              x \in Range(wire[r][s]) \/ (r = p /\ s = q /\ x = pkt)
        BY <2>2
      <3> QED
        BY <1>3, <3>1, <3>2, <3>3 DEF OnWire
    <2> QED
      BY <1>2, <2>1, <2>2
  <1>7. Moves
    <2> SUFFICES ASSUME NEW r \in Peers, NEW s \in Peers \ Rotators
                 PROVE  PairMove(r, s)
      BY DEF Moves
    <2>1. /\ mem'[s] = mem[s] /\ mem'[r] = mem[r]
          /\ disk'[s] \in {disk[s], mem[s]} /\ disk'[r] \in {disk[r], mem[r]}
      BY <1>2, <1>4
    <2>2. /\ OnWire(r, s)' \subseteq OnWire(r, s) \union {disk'[r].keys[s]}
          /\ OnWire(s, r)' \subseteq OnWire(s, r) \union {mem[s].keys[r]}
      BY <1>6
    <2>3. Others(r, s)' \subseteq Others(r, s) \union {disk'[r].keys[s]}
      BY <2>1, <2>2 DEF Others
    <2> QED
      BY <2>1, <2>3 DEF PairMove
  <1> QED
    BY <1>2, <1>5, <1>7, MovesStep

\* Receiving a KeyUpdate: its sender rotates, so only the pairs in which the
\* receiver does not are concerned, and to them the key is not new.
LEMMA KeyUpdateMoves ==
  ASSUME KeysInv, NEW p \in Peers, NEW q \in Peers, ReceiveKeyUpdate(p, q)
  PROVE  KeysInv' /\ Moves
  <1>1. FriendInv /\ mem \in [Peers -> Vaults] /\ disk \in [Peers -> Vaults]
    BY DEF KeysInv, FriendInv, TypeOK
  <1>2. /\ FriendInv' /\ p # q
        /\ \A r, s \in Peers : Range(wire'[r][s]) \subseteq Range(wire[r][s])
        /\ \E pkt \in Range(wire[q][p]), v \in Vaults :
             /\ pkt.kind = "key"
             /\ VaultStep(p, v)
             /\ v.keys \in {mem[p].keys, [mem[p].keys EXCEPT ![q] = pkt.with]}
    BY <1>1, KeyUpdateStep
  <1>3. PICK pkt \in Range(wire[q][p]), v \in Vaults :
             /\ pkt.kind = "key"
             /\ VaultStep(p, v)
             /\ v.keys \in {mem[p].keys, [mem[p].keys EXCEPT ![q] = pkt.with]}
    BY <1>2
  <1>4. q \in Rotators
    BY <1>3 DEF KeysInv, OnlyRotatorsSend
  <1>5. pkt.with \in OnWire(q, p)
    BY <1>3 DEF OnWire
  <1>6. OnlyRotatorsSend'
    BY <1>2 DEF KeysInv, OnlyRotatorsSend
  <1>7. \A r, s \in Peers : OnWire(r, s)' \subseteq OnWire(r, s)
    BY <1>2 DEF OnWire
  <1>8. mem[p].keys \in [Peers -> Keys]
    BY <1>1, VaultNow
  <1>9. \A r \in Peers :
          /\ mem'[r] = IF r = p THEN v ELSE mem[r]
          /\ disk'[r] = disk[r] \/ (r = p /\ disk'[r] = v)
    BY <1>1, <1>3 DEF VaultStep
  <1>10. /\ \A s \in Peers : s # q => v.keys[s] = mem[p].keys[s]
         /\ v.keys[q] \in {mem[p].keys[q], pkt.with}
    BY <1>3, <1>8
  <1>11. Moves
    <2> SUFFICES ASSUME NEW r \in Peers, NEW s \in Peers \ Rotators
                 PROVE  PairMove(r, s)
      BY DEF Moves
    <2>1. /\ mem'[r].keys[s] = mem[r].keys[s]
          /\ disk'[r].keys[s] \in {disk[r].keys[s], mem'[r].keys[s]}
      BY <1>4, <1>9, <1>10
    <2>2. /\ mem'[s].keys[r] \in Others(r, s)
          /\ disk'[s].keys[r] \in Others(r, s)
      <3>1. mem[s].keys[r] \in Others(r, s) /\ disk[s].keys[r] \in Others(r, s)
        BY DEF Others
      <3>2. s = p /\ r = q => pkt.with \in Others(r, s)
        BY <1>5 DEF Others
      <3> QED
        BY <1>9, <1>10, <3>1, <3>2
    <2>3. Others(r, s)' \subseteq Others(r, s)
      BY <1>7, <2>2 DEF Others
    <2> QED
      BY <2>1, <2>3 DEF PairMove
  <1> QED
    BY <1>2, <1>6, <1>11, MovesStep

\* The initial state: all keys are the pairwise ones.
LEMMA InitKeys == Init => KeysInv
  <1> SUFFICES ASSUME Init PROVE KeysInv
    OBVIOUS
  <1>1. FriendInv
    BY InitFriends
  <1>2. /\ \A p, q \in Peers : wire[p][q] = <<>>
        /\ \A p, q \in Peers : /\ mem[p].keys[q] = Pairwise
                               /\ disk[p].keys[q] = Pairwise
    BY DEF Init, NewVault
  <1>3. \A p, q \in Peers : Range(wire[p][q]) = {}
    BY <1>2 DEF Range
  <1>4. OnlyRotatorsSend
    BY <1>3 DEF OnlyRotatorsSend
  <1>5. \A p, q \in Peers : OnWire(p, q) = {}
    BY <1>3 DEF OnWire
  <1>6. \A p, q \in Peers : OnePerEpoch(p, q)
    BY <1>2, <1>5 DEF OnePerEpoch, KeysInUse
  <1>7. \A p, q \in Peers : Ahead(p, q)
    BY <1>2, <1>5 DEF Ahead, Others, Pairwise
  <1> QED
    BY <1>1, <1>4, <1>6, <1>7 DEF KeysInv

\* Every step keeps the invariant of keys.
LEMMA KeysNext ==
  ASSUME KeysInv, [Next]_vars
  PROVE  KeysInv' /\ Moves
  <1> USE DEF KeysInv
  <1>1. ASSUME NEW p \in Peers, NEW q \in Peers,
               ImportFriend(p, q) \/ AcceptRequest(p, q)
        PROVE  KeysInv' /\ Moves
    <2>1. FriendInv' /\ KeepsKeys
      BY <1>1, BefriendStep
    <2> QED
      BY <2>1, KeepsKeysMoves
  <1>2. ASSUME NEW p \in Peers, NEW q \in Peers,
               DeclineRequest(p, q) \/ RemoveFriend(p, q)
        PROVE  KeysInv' /\ Moves
    <2>1. FriendInv' /\ KeepsKeys
      BY <1>2, ForgetStep
    <2> QED
      BY <2>1, KeepsKeysMoves
  <1>3. ASSUME NEW p \in Peers, NEW q \in Peers, RotateDirect(p, q)
        PROVE  KeysInv' /\ Moves
    BY <1>3, RotateMoves
  <1>4. ASSUME NEW p \in Peers, NEW q \in Peers, SendMessage(p, q)
        PROVE  KeysInv' /\ Moves
    BY <1>4, SendMoves
  <1>5. ASSUME NEW p \in Peers, NEW q \in Peers, ReceiveRequest(p, q)
        PROVE  KeysInv' /\ Moves
    <2>1. FriendInv' /\ KeepsKeys
      BY <1>5, RequestStep
    <2> QED
      BY <2>1, KeepsKeysMoves
  <1>6. ASSUME NEW p \in Peers, NEW q \in Peers, ReceiveKeyUpdate(p, q)
        PROVE  KeysInv' /\ Moves
    BY <1>6, KeyUpdateMoves
  <1>7. ASSUME NEW p \in Peers, NEW q \in Peers, ReceiveMessage(p, q)
        PROVE  KeysInv' /\ Moves
    <2>1. FriendInv' /\ KeepsKeys
      BY <1>7, MessageStep
    <2> QED
      BY <2>1, KeepsKeysMoves
  <1>8. ASSUME NEW p \in Peers, NEW q \in Peers, Lose(p, q)
        PROVE  KeysInv' /\ Moves
    <2>1. FriendInv' /\ KeepsKeys
      BY <1>8, LoseStep
    <2> QED
      BY <2>1, KeepsKeysMoves
  <1>9. ASSUME NEW p \in Peers, Reopen(p)
        PROVE  KeysInv' /\ Moves
    BY <1>9, ReopenMoves
  <1>10. CASE UNCHANGED vars
    <2>1. FriendInv'
      BY FriendNext
    <2>2. KeepsKeys
      BY <1>10 DEF vars, KeepsKeys
    <2> QED
      BY <2>1, <2>2, KeepsKeysMoves
  <1> QED
    BY <1>1, <1>2, <1>3, <1>4, <1>5, <1>6, <1>7, <1>8, <1>9, <1>10
    DEF Next, Receive

-----------------------------------------------------------------------------
(* The order of keys and messages. *)

\* Sending a KeyUpdate with a key that becomes one's own.
LEMMA FollowsKey ==
  ASSUME NEW s \in Seq(Packets), NEW own, NEW held, NEW pkt \in Packets,
         Follows(s, own, held), pkt.kind = "key"
  PROVE  Follows(Append(s, pkt), pkt.with, held)
  <1> DEFINE t == Append(s, pkt)
             n == Len(s)
  <1>1. /\ n \in Nat /\ Len(t) = n + 1 /\ t[n + 1] = pkt
        /\ \A i \in 1..n : t[i] = s[i]
    OBVIOUS
  <1> HIDE DEF t, n
  <1>2. \A i \in 1..(n + 1) : NoKey(t, i + 1, n + 1) => i = n + 1
    BY <1>1 DEF NoKey
  <1>3. ~ NoKey(t, 1, n + 1)
    BY <1>1 DEF NoKey
  <1>4. \A i, j \in 1..n : NoKey(t, i + 1, j) => NoKey(s, i + 1, j)
    BY <1>1 DEF NoKey
  <1>5. \A j \in 1..n : NoKey(t, 1, j) => NoKey(s, 1, j)
    BY <1>1 DEF NoKey
  <1>6. \A i, j \in 1..(n + 1) :
          /\ i < j /\ NoKey(t, i + 1, j)
          /\ t[i].kind = "key" /\ t[j].kind = "message"
          => t[j].msg.with = t[i].with
    <2> SUFFICES ASSUME NEW i \in 1..(n + 1), NEW j \in 1..(n + 1),
                        i < j, NoKey(t, i + 1, j),
                        t[i].kind = "key", t[j].kind = "message"
                 PROVE  t[j].msg.with = t[i].with
      OBVIOUS
    <2>1. i \in 1..n /\ j \in 1..n
      BY <1>1
    <2> QED
      BY <1>1, <1>4, <2>1 DEF Follows, n
  <1>7. \A j \in 1..(n + 1) :
          NoKey(t, 1, j) /\ t[j].kind = "message" => t[j].msg.with = held
    <2> SUFFICES ASSUME NEW j \in 1..(n + 1), NoKey(t, 1, j), t[j].kind = "message"
                 PROVE  t[j].msg.with = held
      OBVIOUS
    <2>1. j \in 1..n
      BY <1>1
    <2> QED
      BY <1>1, <1>5, <2>1 DEF Follows, n
  <1> QED
    BY <1>1, <1>2, <1>3, <1>6, <1>7 DEF Follows, t

\* Sending anything else, a message under one's own key.
LEMMA FollowsOther ==
  ASSUME NEW s \in Seq(Packets), NEW own, NEW held, NEW pkt \in Packets,
         Follows(s, own, held), pkt.kind # "key",
         pkt.kind = "message" => pkt.msg.with = own
  PROVE  Follows(Append(s, pkt), own, held)
  <1> DEFINE t == Append(s, pkt)
             n == Len(s)
  <1>1. /\ n \in Nat /\ Len(t) = n + 1 /\ t[n + 1] = pkt
        /\ \A i \in 1..n : t[i] = s[i]
    OBVIOUS
  <1>2. /\ \A i \in 1..n : s[i].kind = "key" /\ NoKey(s, i + 1, n) => s[i].with = own
        /\ NoKey(s, 1, n) => own = held
    BY DEF Follows
  <1> HIDE DEF t, n
  <1>3. \A i, j \in 1..n : NoKey(t, i + 1, j) => NoKey(s, i + 1, j)
    BY <1>1 DEF NoKey
  <1>4. \A j \in 1..n : NoKey(t, 1, j) => NoKey(s, 1, j)
    BY <1>1 DEF NoKey
  <1>5. \A i \in 1..n : NoKey(t, i + 1, n + 1) => NoKey(s, i + 1, n)
    BY <1>1 DEF NoKey
  <1>6. NoKey(t, 1, n + 1) => NoKey(s, 1, n)
    BY <1>1 DEF NoKey
  <1>7. \A i \in 1..(n + 1) :
          t[i].kind = "key" /\ NoKey(t, i + 1, n + 1) => t[i].with = own
    <2> SUFFICES ASSUME NEW i \in 1..(n + 1), t[i].kind = "key", NoKey(t, i + 1, n + 1)
                 PROVE  t[i].with = own
      OBVIOUS
    <2>1. i \in 1..n
      BY <1>1
    <2> QED
      BY <1>1, <1>2, <1>5, <2>1
  <1>8. \A i, j \in 1..(n + 1) :
          /\ i < j /\ NoKey(t, i + 1, j)
          /\ t[i].kind = "key" /\ t[j].kind = "message"
          => t[j].msg.with = t[i].with
    <2> SUFFICES ASSUME NEW i \in 1..(n + 1), NEW j \in 1..(n + 1),
                        i < j, NoKey(t, i + 1, j),
                        t[i].kind = "key", t[j].kind = "message"
                 PROVE  t[j].msg.with = t[i].with
      OBVIOUS
    <2>1. i \in 1..n
      BY <1>1
    <2>2. CASE j \in 1..n
      BY <1>1, <1>3, <2>1, <2>2 DEF Follows, n
    <2>3. CASE j = n + 1
      BY <1>1, <1>2, <1>5, <2>1, <2>3
    <2> QED
      BY <1>1, <2>2, <2>3
  <1>9. \A j \in 1..(n + 1) :
          NoKey(t, 1, j) /\ t[j].kind = "message" => t[j].msg.with = held
    <2> SUFFICES ASSUME NEW j \in 1..(n + 1), NoKey(t, 1, j), t[j].kind = "message"
                 PROVE  t[j].msg.with = held
      OBVIOUS
    <2>1. CASE j \in 1..n
      BY <1>1, <1>4, <2>1 DEF Follows, n
    <2>2. CASE j = n + 1
      BY <1>1, <1>2, <1>6, <2>2
    <2> QED
      BY <1>1, <2>1, <2>2
  <1> QED
    BY <1>1, <1>2, <1>6, <1>7, <1>8, <1>9 DEF Follows, t

\* Handling the first packet, which stays or goes: its key becomes the one held.
LEMMA FollowsFirst ==
  ASSUME NEW s \in Seq(Packets), NEW own, NEW held, NEW now, 1 \in DOMAIN s,
         Follows(s, own, held),
         now = IF s[1].kind = "key" THEN s[1].with ELSE held
  PROVE  Follows(s, own, now) /\ Follows(RemoveAt(s, 1), own, now)
  <1> DEFINE t == RemoveAt(s, 1)
             n == Len(s)
  <1>1. n \in Nat /\ n >= 1
    OBVIOUS
  <1> HIDE DEF n
  <1>2. Len(t) = n - 1 /\ \A i \in 1..(n - 1) : t[i] = s[i + 1]
    <2>1. /\ Len(RemoveAt(s, 1)) = Len(s) - 1
          /\ \A i \in 1..(Len(s) - 1) : RemoveAt(s, 1)[i] = s[i + 1]
      <3>1. s \in Seq(Packets) /\ 1 \in DOMAIN s
        OBVIOUS
      <3> QED
        BY <3>1, RemoveHead
    <2> QED
      BY <2>1 DEF n
  <1>3. /\ \A i \in 1..n : s[i].kind = "key" /\ NoKey(s, i + 1, n) => s[i].with = own
        /\ NoKey(s, 1, n) => own = held
        /\ \A i, j \in 1..n :
             /\ i < j /\ NoKey(s, i + 1, j)
             /\ s[i].kind = "key" /\ s[j].kind = "message"
             => s[j].msg.with = s[i].with
        /\ \A j \in 1..n : NoKey(s, 1, j) /\ s[j].kind = "message" => s[j].msg.with = held
    BY DEF Follows, n
  <1> HIDE DEF t
  <1>4. s[1].kind = "key" => \A j \in 1..n : ~ NoKey(s, 1, j)
    BY <1>1 DEF NoKey
  <1>5. Follows(s, own, now)
    BY <1>1, <1>3, <1>4 DEF Follows, n
  <1>6. \A i \in 1..(n - 1) : NoKey(t, i + 1, n - 1) => NoKey(s, i + 2, n)
    <2> SUFFICES ASSUME NEW i \in 1..(n - 1), NoKey(t, i + 1, n - 1), NEW j \in (i + 2)..n
                 PROVE  s[j].kind # "key"
      BY DEF NoKey
    <2>1. j - 1 \in (i + 1)..(n - 1) /\ j - 1 \in 1..(n - 1) /\ (j - 1) + 1 = j
      BY <1>1
    <2> QED
      BY <1>2, <2>1 DEF NoKey
  <1>7. \A i \in 0..(n - 1), j \in 1..(n - 1) : NoKey(t, i + 1, j) => NoKey(s, i + 2, j + 1)
    <2> SUFFICES ASSUME NEW i \in 0..(n - 1), NEW j \in 1..(n - 1), NoKey(t, i + 1, j),
                        NEW k \in (i + 2)..(j + 1)
                 PROVE  s[k].kind # "key"
      BY DEF NoKey
    <2>1. k - 1 \in (i + 1)..j /\ k - 1 \in 1..(n - 1) /\ (k - 1) + 1 = k
      BY <1>1
    <2> QED
      BY <1>2, <2>1 DEF NoKey
  <1>8. NoKey(t, 1, n - 1) => NoKey(s, 2, n)
    <2> SUFFICES ASSUME NoKey(t, 1, n - 1), NEW k \in 2..n
                 PROVE  s[k].kind # "key"
      BY DEF NoKey
    <2>1. k - 1 \in 1..(n - 1) /\ (k - 1) + 1 = k
      BY <1>1
    <2> QED
      BY <1>2, <2>1 DEF NoKey
  <1>9. \A i \in 1..(n - 1) :
          t[i].kind = "key" /\ NoKey(t, i + 1, n - 1) => t[i].with = own
    <2> SUFFICES ASSUME NEW i \in 1..(n - 1), t[i].kind = "key", NoKey(t, i + 1, n - 1)
                 PROVE  t[i].with = own
      OBVIOUS
    <2>1. i + 1 \in 1..n /\ t[i] = s[i + 1] /\ NoKey(s, (i + 1) + 1, n)
      <3>1. (i + 1) + 1 = i + 2 /\ i + 1 \in 1..n
        BY <1>1
      <3> QED
        BY <1>2, <1>6, <3>1
    <2> QED
      BY <1>3, <2>1
  <1>10. NoKey(t, 1, n - 1) => own = now
    <2>1. CASE s[1].kind = "key"
      <3>1. 1 \in 1..n /\ 1 + 1 = 2
        BY <1>1
      <3> QED
        BY <1>3, <1>8, <2>1, <3>1
    <2>2. CASE s[1].kind # "key"
      <3>1. NoKey(s, 2, n) => NoKey(s, 1, n)
        BY <1>1, <2>2 DEF NoKey
      <3> QED
        BY <1>3, <1>8, <2>2, <3>1
    <2> QED
      BY <2>1, <2>2
  <1>11. \A i, j \in 1..(n - 1) :
          /\ i < j /\ NoKey(t, i + 1, j)
          /\ t[i].kind = "key" /\ t[j].kind = "message"
          => t[j].msg.with = t[i].with
    <2> SUFFICES ASSUME NEW i \in 1..(n - 1), NEW j \in 1..(n - 1),
                        i < j, NoKey(t, i + 1, j),
                        t[i].kind = "key", t[j].kind = "message"
                 PROVE  t[j].msg.with = t[i].with
      OBVIOUS
    <2>1. /\ i + 1 \in 1..n /\ j + 1 \in 1..n /\ i + 1 < j + 1 /\ (i + 1) + 1 = i + 2
          /\ i \in 0..(n - 1)
      BY <1>1
    <2>2. NoKey(s, (i + 1) + 1, j + 1)
      BY <1>7, <2>1
    <2> QED
      BY <1>2, <1>3, <2>1, <2>2
  <1>12. \A j \in 1..(n - 1) :
          NoKey(t, 1, j) /\ t[j].kind = "message" => t[j].msg.with = now
    <2> SUFFICES ASSUME NEW j \in 1..(n - 1), NoKey(t, 1, j), t[j].kind = "message"
                 PROVE  t[j].msg.with = now
      OBVIOUS
    <2>1. /\ j + 1 \in 1..n /\ 1 \in 1..n /\ 1 < j + 1 /\ 0 \in 0..(n - 1)
          /\ 0 + 1 = 1 /\ 0 + 2 = 2 /\ 1 + 1 = 2
      BY <1>1
    <2>2. NoKey(s, 2, j + 1) /\ t[j] = s[j + 1]
      BY <1>2, <1>7, <2>1
    <2>3. CASE s[1].kind = "key"
      BY <1>3, <2>1, <2>2, <2>3
    <2>4. CASE s[1].kind # "key"
      <3>1. NoKey(s, 1, j + 1)
        BY <2>2, <2>4 DEF NoKey
      <3> QED
        BY <1>3, <2>1, <2>2, <2>4, <3>1
    <2> QED
      BY <2>3, <2>4
  <1> QED
    BY <1>2, <1>5, <1>9, <1>10, <1>11, <1>12 DEF Follows, t

\* How a pair's packets change in a step that carries and adopts no key.
QuietWire(r, s) ==
  \/ wire'[r][s] = wire[r][s]
  \/ \E x \in Packets :
       /\ wire'[r][s] = Append(wire[r][s], x)
       /\ x.kind # "key"
       /\ x.kind = "message" => x.msg.with = mem[r].keys[s]
  \/ /\ 1 \in DOMAIN wire[r][s] /\ wire[r][s][1].kind # "key"
     /\ wire'[r][s] = RemoveAt(wire[r][s], 1)

\* Such a step leaves all packets in order.
LEMMA QuietFollows ==
  ASSUME FriendInv, AllFollow,
         \A r \in Peers : mem'[r].keys = mem[r].keys,
         \A r, s \in Peers : QuietWire(r, s)
  PROVE  AllFollow'
  <1> SUFFICES ASSUME NEW r \in Peers, NEW s \in Peers \ Rotators
               PROVE  Follows(wire'[r][s], mem[r].keys[s], mem[s].keys[r])
    BY DEF AllFollow
  <1>1. /\ wire[r][s] \in Seq(Packets)
        /\ Follows(wire[r][s], mem[r].keys[s], mem[s].keys[r])
        /\ QuietWire(r, s)
    BY DEF AllFollow, FriendInv, TypeOK
  <1>2. CASE wire'[r][s] = wire[r][s]
    BY <1>1, <1>2
  <1>3. CASE \E x \in Packets :
               /\ wire'[r][s] = Append(wire[r][s], x)
               /\ x.kind # "key"
               /\ x.kind = "message" => x.msg.with = mem[r].keys[s]
    BY <1>1, <1>3, FollowsOther
  <1>4. CASE /\ 1 \in DOMAIN wire[r][s] /\ wire[r][s][1].kind # "key"
             /\ wire'[r][s] = RemoveAt(wire[r][s], 1)
    BY <1>1, <1>4, FollowsFirst
  <1> QED
    BY <1>1, <1>2, <1>3, <1>4 DEF QuietWire

\* Sending a new key.
LEMMA KeySentFollows ==
  ASSUME FriendInv, AllFollow, NEW p \in Rotators, NEW q \in Peers, p # q,
         NEW x \in Packets, x.kind = "key",
         \A r, s \in Peers :
           wire'[r][s] = IF r = p /\ s = q THEN Append(wire[r][s], x)
                                           ELSE wire[r][s],
         \A r, s \in Peers :
           mem'[r].keys[s] = IF r = p /\ s = q THEN x.with ELSE mem[r].keys[s]
  PROVE  AllFollow'
  <1>1. p \in Peers /\ wire \in [Peers -> [Peers -> Seq(Packets)]]
    BY ConstantsAssumption DEF FriendInv, TypeOK
  <1> SUFFICES ASSUME NEW r \in Peers, NEW s \in Peers \ Rotators
               PROVE  Follows(wire'[r][s], mem'[r].keys[s], mem'[s].keys[r])
    BY DEF AllFollow
  <1>2. /\ wire[r][s] \in Seq(Packets)
        /\ Follows(wire[r][s], mem[r].keys[s], mem[s].keys[r])
    BY <1>1 DEF AllFollow
  <1>3. mem'[s].keys[r] = mem[s].keys[r]
    OBVIOUS
  <1>4. CASE r = p /\ s = q
    <2>1. wire'[r][s] = Append(wire[r][s], x) /\ mem'[r].keys[s] = x.with
      BY <1>1, <1>4
    <2> QED
      BY <1>2, <1>3, <2>1, FollowsKey
  <1>5. CASE ~ (r = p /\ s = q)
    <2>1. wire'[r][s] = wire[r][s] /\ mem'[r].keys[s] = mem[r].keys[s]
      BY <1>1, <1>5
    <2> QED
      BY <1>2, <1>3, <2>1
  <1> QED
    BY <1>4, <1>5

\* Adopting the key of the first packet, from a peer who rotates.
LEMMA KeyTakenFollows ==
  ASSUME FriendInv, AllFollow, NEW p \in Peers, NEW q \in Rotators,
         1 \in DOMAIN wire[q][p], wire[q][p][1].kind = "key",
         wire' \in {wire, [wire EXCEPT ![q][p] = RemoveAt(@, 1)]},
         \A r, s \in Peers :
           mem'[r].keys[s] = IF r = p /\ s = q THEN wire[q][p][1].with
                                               ELSE mem[r].keys[s]
  PROVE  AllFollow'
  <1>1. q \in Peers /\ wire \in [Peers -> [Peers -> Seq(Packets)]]
    BY ConstantsAssumption DEF FriendInv, TypeOK
  <1> SUFFICES ASSUME NEW r \in Peers, NEW s \in Peers \ Rotators
               PROVE  Follows(wire'[r][s], mem'[r].keys[s], mem'[s].keys[r])
    BY DEF AllFollow
  <1>2. /\ wire[r][s] \in Seq(Packets)
        /\ Follows(wire[r][s], mem[r].keys[s], mem[s].keys[r])
    BY <1>1 DEF AllFollow
  <1>3. mem'[r].keys[s] = mem[r].keys[s]
    OBVIOUS
  <1>4. CASE r = q /\ s = p
    <2>1. wire'[r][s] \in {wire[r][s], RemoveAt(wire[r][s], 1)}
      BY <1>1, <1>4
    <2>2. mem'[s].keys[r] = wire[r][s][1].with
      BY <1>1, <1>4
    <2>3. /\ Follows(wire[r][s], mem[r].keys[s], wire[r][s][1].with)
          /\ Follows(RemoveAt(wire[r][s], 1), mem[r].keys[s], wire[r][s][1].with)
      BY <1>2, <1>4, FollowsFirst
    <2> QED
      BY <1>3, <2>1, <2>2, <2>3
  <1>5. CASE ~ (r = q /\ s = p)
    <2>1. wire'[r][s] = wire[r][s] /\ mem'[s].keys[r] = mem[s].keys[r]
      BY <1>1, <1>5
    <2> QED
      BY <1>2, <1>3, <2>1
  <1> QED
    BY <1>4, <1>5

\* A vault that is saved leaves memory and file the same.
LEMMA SavedSame ==
  ASSUME mem = disk, NEW p, NEW v,
         mem' = [mem EXCEPT ![p] = v], disk' = [disk EXCEPT ![p] = v]
  PROVE  mem' = disk'
  OBVIOUS

\* When all goes well so far, importing, accepting and declining save, and
\* carry no key.
LEMMA BefriendQuiet ==
  ASSUME FriendInv, mem = disk, orderly', NEW p \in Peers, NEW q \in Peers,
         ImportFriend(p, q) \/ AcceptRequest(p, q) \/ DeclineRequest(p, q)
  PROVE  orderly /\ mem' = disk' /\ \A r, s \in Peers : QuietWire(r, s)
  <1> DEFINE pkt == [kind |-> "request"]
  <1>1. PICK v : /\ mem' = [mem EXCEPT ![p] = v] /\ disk' = [disk EXCEPT ![p] = v]
                 /\ orderly' = orderly
                 /\ \/ wire' = [wire EXCEPT ![p][q] = Append(@, pkt)]
                    \/ UNCHANGED wire
    BY DEF ImportFriend, AcceptRequest, DeclineRequest, Save, Deliver
  <1>2. pkt \in Packets /\ pkt.kind = "request"
    BY DEF Packets
  <1> HIDE DEF pkt
  <1>3. mem' = disk'
    BY <1>1, SavedSame
  <1>4. ASSUME wire' = [wire EXCEPT ![p][q] = Append(@, pkt)],
               NEW r \in Peers, NEW s \in Peers
        PROVE  QuietWire(r, s)
    <2>1. wire'[r][s] = IF r = p /\ s = q THEN Append(wire[p][q], pkt)
                                          ELSE wire[r][s]
      BY <1>4 DEF FriendInv, TypeOK
    <2> QED
      BY <1>2, <2>1 DEF QuietWire
  <1>5. ASSUME UNCHANGED wire, NEW r \in Peers, NEW s \in Peers
        PROVE  QuietWire(r, s)
    BY <1>5 DEF QuietWire
  <1> QED
    BY <1>1, <1>3, <1>4, <1>5

\* Sending carries the sender's own key.
LEMMA SendQuiet ==
  ASSUME FriendInv, mem = disk, orderly', NEW p \in Peers, NEW q \in Peers,
         SendMessage(p, q)
  PROVE  orderly /\ mem' = disk' /\ \A r, s \in Peers : QuietWire(r, s)
  <1> DEFINE m == NewMessage(p, q)
             pkt == [kind |-> "message", msg |-> m]
  <1>1. /\ mem' = [mem EXCEPT ![p] = mem[p]]
        /\ disk' = [disk EXCEPT ![p] = mem[p]]
        /\ wire' = [wire EXCEPT ![p][q] = Append(@, pkt)]
        /\ orderly' = orderly
        /\ nsent[p] < MaxSend
    BY DEF SendMessage, Save, Deliver, NewMessage
  <1>2. mem' = disk'
    BY <1>1, SavedSame
  <1>3. m \in Messages /\ m.with = mem[p].keys[q]
    <2>1. mem[p].keys[q] \in Keys /\ nsent[p] \in 0..MaxSend
      BY VaultNow DEF FriendInv, TypeOK
    <2>2. nsent[p] + 1 \in 1..MaxSend
      BY <1>1, <2>1, ConstantsAssumption
    <2> QED
      BY <2>1, <2>2 DEF Messages, NewMessage, CurrentKey
  <1>4. pkt \in Packets /\ pkt.kind = "message" /\ pkt.msg.with = mem[p].keys[q]
    BY <1>3 DEF Packets
  <1> HIDE DEF pkt, m
  <1>5. ASSUME NEW r \in Peers, NEW s \in Peers PROVE QuietWire(r, s)
    <2>1. wire'[r][s] = IF r = p /\ s = q THEN Append(wire[p][q], pkt)
                                          ELSE wire[r][s]
      BY <1>1 DEF FriendInv, TypeOK
    <2> QED
      BY <1>4, <2>1 DEF QuietWire
  <1> QED
    BY <1>1, <1>2, <1>5

\* Receiving a request or a message takes the first packet.
LEMMA ReceiveQuiet ==
  ASSUME FriendInv, mem = disk, orderly', NEW p \in Peers, NEW q \in Peers,
         ReceiveRequest(p, q) \/ ReceiveMessage(p, q)
  PROVE  orderly /\ mem' = disk' /\ \A r, s \in Peers : QuietWire(r, s)
  <1>1. PICK i \in Arrivals(q, p) :
          /\ wire[q][p][i].kind # "key"
          /\ \/ \E v : mem' = [mem EXCEPT ![p] = v] /\ disk' = [disk EXCEPT ![p] = v]
             \/ UNCHANGED <<mem, disk>>
          /\ orderly /\ i = 1
          /\ \/ wire' = [wire EXCEPT ![q][p] = RemoveAt(@, i)]
             \/ UNCHANGED wire
    <2>1. CASE ReceiveRequest(p, q)
      BY <2>1 DEF ReceiveRequest, Save, Taken, InTurn
    <2>2. CASE ReceiveMessage(p, q)
      BY <2>2 DEF ReceiveMessage, Save, Taken, InTurn
    <2> QED
      BY <2>1, <2>2
  <1>2. mem' = disk'
    BY <1>1, SavedSame
  <1>3. 1 \in DOMAIN wire[q][p]
    BY <1>1 DEF Arrivals
  <1>4. ASSUME wire' = [wire EXCEPT ![q][p] = RemoveAt(@, 1)],
               NEW r \in Peers, NEW s \in Peers
        PROVE  QuietWire(r, s)
    <2>1. wire'[r][s] = IF r = q /\ s = p THEN RemoveAt(wire[q][p], 1)
                                          ELSE wire[r][s]
      BY <1>4 DEF FriendInv, TypeOK
    <2> QED
      BY <1>1, <1>3, <2>1 DEF QuietWire
  <1>5. ASSUME UNCHANGED wire, NEW r \in Peers, NEW s \in Peers
        PROVE  QuietWire(r, s)
    BY <1>5 DEF QuietWire
  <1> QED
    BY <1>1, <1>2, <1>4, <1>5

\* Rotating, when all goes well.
LEMMA RotateFollows ==
  ASSUME FriendInv, mem = disk, AllFollow, orderly', NEW p \in Peers, NEW q \in Peers,
         RotateDirect(p, q)
  PROVE  orderly /\ mem' = disk' /\ AllFollow'
  <1> DEFINE pkt == [kind |-> "key", with |-> NewKey(p, q)]
  <1>1. /\ mem' = [mem EXCEPT ![p] = Rotated(p, q)]
        /\ disk' = [disk EXCEPT ![p] = Rotated(p, q)]
        /\ wire' = [wire EXCEPT ![p][q] = Append(@, pkt)]
        /\ orderly' = orderly
    BY DEF RotateDirect, Save, Deliver, Rotated, NewKey
  <1>2. /\ p # q /\ p \in Rotators /\ NewKey(p, q) \in Keys
        /\ Rotated(p, q).keys = [mem[p].keys EXCEPT ![q] = NewKey(p, q)]
    BY RotateStep
  <1>3. pkt \in Packets /\ pkt.kind = "key" /\ pkt.with = NewKey(p, q)
    BY <1>2 DEF Packets
  <1> HIDE DEF pkt
  <1>4. mem \in [Peers -> Vaults] /\ mem[p].keys \in [Peers -> Keys]
    BY VaultNow DEF FriendInv, TypeOK
  <1>5. \A r, s \in Peers :
          mem'[r].keys[s] = IF r = p /\ s = q THEN pkt.with ELSE mem[r].keys[s]
    BY <1>1, <1>2, <1>3, <1>4
  <1>6. \A r, s \in Peers :
          wire'[r][s] = IF r = p /\ s = q THEN Append(wire[r][s], pkt)
                                          ELSE wire[r][s]
    BY <1>1 DEF FriendInv, TypeOK
  <1>7. AllFollow'
    BY <1>2, <1>3, <1>5, <1>6, KeySentFollows
  <1> QED
    BY <1>1, <1>7, SavedSame

\* Receiving a KeyUpdate, when all goes well.
LEMMA KeyUpdateFollows ==
  ASSUME FriendInv, OnlyRotatorsSend, mem = disk, AllFollow, orderly',
         NEW p \in Peers, NEW q \in Peers, ReceiveKeyUpdate(p, q)
  PROVE  orderly /\ mem' = disk' /\ AllFollow'
  <1> DEFINE pkt == wire[q][p][1]
             v == SetDirectKey(mem[p], q, pkt.with)
  <1>1. /\ 1 \in Arrivals(q, p) /\ pkt.kind = "key"
        /\ mem' = [mem EXCEPT ![p] = v] /\ disk' = [disk EXCEPT ![p] = v]
        /\ orderly
        /\ wire' \in {wire, [wire EXCEPT ![q][p] = RemoveAt(@, 1)]}
    BY DEF ReceiveKeyUpdate, Adopt, Save, Taken, InTurn
  <1>2. /\ 1 \in DOMAIN wire[q][p] /\ pkt \in Packets /\ pkt \in Range(wire[q][p])
    BY <1>1, TakeStep DEF Arrivals
  <1>3. q \in Rotators
    BY <1>1, <1>2 DEF OnlyRotatorsSend
  <1>4. v.keys = [mem[p].keys EXCEPT ![q] = pkt.with]
    <2>1. pkt.with \in Keys /\ mem[p] \in Vaults
      BY <1>1, <1>2, VaultNow DEF Packets
    <2> QED
      BY <2>1, SetKeyOps
  <1> HIDE DEF v
  <1>5. mem \in [Peers -> Vaults] /\ mem[p].keys \in [Peers -> Keys]
    BY VaultNow DEF FriendInv, TypeOK
  <1>6. \A r, s \in Peers :
          mem'[r].keys[s] = IF r = p /\ s = q THEN pkt.with ELSE mem[r].keys[s]
    BY <1>1, <1>4, <1>5
  <1>7. AllFollow'
    BY <1>1, <1>2, <1>3, <1>6, KeyTakenFollows
  <1> QED
    BY <1>1, <1>7, SavedSame

\* Initially nothing is on its way.
LEMMA InitOrder == Init => OrderInv
  <1> SUFFICES ASSUME Init PROVE OrderInv
    OBVIOUS
  <1>1. /\ \A p, q \in Peers : wire[p][q] = <<>> /\ mem[p].keys[q] = Pairwise
        /\ mem = disk
    BY DEF Init, NewVault
  <1>2. Addressed
    BY <1>1 DEF Addressed, Range
  <1>3. \A k : Follows(<<>>, k, k)
    BY DEF Follows
  <1>4. AllFollow
    BY <1>1, <1>3 DEF AllFollow
  <1> QED
    BY <1>1, <1>2, <1>4, InitKeys DEF OrderInv

\* Every packet goes to the friend it is for.
LEMMA AddressedNext ==
  ASSUME KeysInv, Addressed, [Next]_vars
  PROVE  Addressed'
  <1> USE DEF KeysInv
  <1>1. ASSUME KeepsKeys PROVE Addressed'
    BY <1>1 DEF KeepsKeys, Addressed
  <1>2. ASSUME NEW p \in Peers, NEW q \in Peers,
               \/ ImportFriend(p, q) \/ AcceptRequest(p, q)
               \/ DeclineRequest(p, q) \/ RemoveFriend(p, q)
               \/ ReceiveRequest(p, q) \/ ReceiveMessage(p, q) \/ Lose(p, q)
        PROVE  Addressed'
    BY <1>1, <1>2, BefriendStep, ForgetStep, RequestStep, MessageStep, LoseStep
  <1>3. ASSUME NEW p \in Peers, NEW q \in Peers, RotateDirect(p, q)
        PROVE  Addressed'
    <2>1. \A r, s \in Peers : \A x \in Range(wire'[r][s]) :
            \/ x \in Range(wire[r][s])
            \/ x = [kind |-> "key", with |-> NewKey(p, q)]
      BY <1>3, RotateStep
    <2> QED
      BY <2>1 DEF Addressed
  <1>4. ASSUME NEW p \in Peers, NEW q \in Peers, SendMessage(p, q)
        PROVE  Addressed'
    <2>1. \A r, s \in Peers : \A x \in Range(wire'[r][s]) :
            \/ x \in Range(wire[r][s])
            \/ /\ r = p /\ s = q
               /\ x = [kind |-> "message", msg |-> NewMessage(p, q)]
      BY <1>4, SendStep
    <2>2. NewMessage(p, q).from = p /\ NewMessage(p, q).to = q
      BY DEF NewMessage
    <2> HIDE DEF KeysInv
    <2> QED
      BY <2>1, <2>2 DEF Addressed
  <1>5. ASSUME NEW p \in Peers, NEW q \in Peers, ReceiveKeyUpdate(p, q)
        PROVE  Addressed'
    <2>1. \A r, s \in Peers : Range(wire'[r][s]) \subseteq Range(wire[r][s])
      BY <1>5, KeyUpdateStep
    <2> QED
      BY <2>1 DEF Addressed
  <1>6. ASSUME NEW p \in Peers, Reopen(p) PROVE Addressed'
    BY <1>6 DEF Reopen, Addressed
  <1>7. CASE UNCHANGED vars
    BY <1>7 DEF vars, Addressed
  <1> QED
    BY <1>2, <1>3, <1>4, <1>5, <1>6, <1>7 DEF Next, Receive

\* The keys of memory, when nothing carries one.
LEMMA QuietNext ==
  ASSUME FriendInv, mem = disk, AllFollow, orderly',
         NEW p \in Peers, NEW q \in Peers,
         \/ ImportFriend(p, q) \/ AcceptRequest(p, q) \/ DeclineRequest(p, q)
         \/ SendMessage(p, q) \/ ReceiveRequest(p, q) \/ ReceiveMessage(p, q)
  PROVE  orderly /\ mem' = disk' /\ AllFollow'
  <1>1. orderly /\ mem' = disk' /\ \A r, s \in Peers : QuietWire(r, s)
    BY BefriendQuiet, SendQuiet, ReceiveQuiet
  <1>2. \A r \in Peers : mem'[r].keys = mem[r].keys
    <2>1. CASE SendMessage(p, q)
      BY <2>1, SendStep
    <2>2. CASE ~ SendMessage(p, q)
      <3>1. KeepsKeys
        BY <2>2, BefriendStep, ForgetStep, RequestStep, MessageStep
      <3> QED
        BY <3>1 DEF KeepsKeys
    <2> QED
      BY <2>1, <2>2
  <1>3. AllFollow'
    BY <1>1, <1>2, QuietFollows
  <1> QED
    BY <1>1, <1>3

\* What went wrong is not forgotten.
LEMMA OrderlyBefore ==
  ASSUME [Next]_vars, orderly'
  PROVE  orderly
  <1>1. ASSUME NEW p \in Peers, NEW q \in Peers,
               \/ ImportFriend(p, q) \/ AcceptRequest(p, q)
               \/ DeclineRequest(p, q) \/ RemoveFriend(p, q)
               \/ RotateDirect(p, q) \/ SendMessage(p, q)
        PROVE  orderly
    BY <1>1 DEF ImportFriend, AcceptRequest, DeclineRequest, RemoveFriend,
                RotateDirect, SendMessage, Save, Deliver
  <1>2. ASSUME NEW p \in Peers, NEW q \in Peers,
               \/ ReceiveRequest(p, q) \/ ReceiveKeyUpdate(p, q)
               \/ ReceiveMessage(p, q) \/ Lose(p, q)
        PROVE  orderly
    BY <1>2 DEF ReceiveRequest, ReceiveKeyUpdate, ReceiveMessage, Lose, Adopt,
                Save, InTurn
  <1>3. ASSUME NEW p \in Peers, Reopen(p) PROVE orderly
    BY <1>3 DEF Reopen
  <1>4. CASE UNCHANGED vars
    BY <1>4 DEF vars
  <1> QED
    BY <1>1, <1>2, <1>3, <1>4 DEF Next, Receive

\* While all goes well, memory and file agree and packets follow their keys.
LEMMA OrderlyNext ==
  ASSUME OrderInv, [Next]_vars, orderly'
  PROVE  orderly /\ mem' = disk' /\ AllFollow'
  <1> DEFINE Well == orderly /\ mem' = disk' /\ AllFollow'
  <1>1. FriendInv /\ OnlyRotatorsSend
    BY DEF OrderInv, KeysInv
  <1>2. orderly \in BOOLEAN /\ (orderly => mem = disk /\ AllFollow)
    BY <1>1 DEF OrderInv, FriendInv, TypeOK
  <1>3. orderly
    BY OrderlyBefore
  <1>4. mem = disk /\ AllFollow
    BY <1>2, <1>3
  <1>5. ASSUME NEW p \in Peers, NEW q \in Peers,
               \/ ImportFriend(p, q) \/ AcceptRequest(p, q)
               \/ DeclineRequest(p, q) \/ SendMessage(p, q)
               \/ ReceiveRequest(p, q) \/ ReceiveMessage(p, q)
        PROVE  Well
    BY <1>1, <1>4, <1>5, QuietNext
  <1>6. ASSUME NEW p \in Peers, NEW q \in Peers, RemoveFriend(p, q) \/ Lose(p, q)
        PROVE  Well
    <2>1. ~ orderly'
      BY <1>6 DEF RemoveFriend, Lose, Save
    <2> QED
      BY <2>1
  <1>7. ASSUME NEW p \in Peers, NEW q \in Peers, RotateDirect(p, q)
        PROVE  Well
    BY <1>1, <1>4, <1>7, RotateFollows
  <1>8. ASSUME NEW p \in Peers, NEW q \in Peers, ReceiveKeyUpdate(p, q)
        PROVE  Well
    BY <1>1, <1>4, <1>8, KeyUpdateFollows
  <1>9. ASSUME UNCHANGED <<mem, disk, wire>> PROVE Well
    BY <1>3, <1>4, <1>9 DEF AllFollow
  <1>10. ASSUME NEW p \in Peers, Reopen(p) PROVE Well
    <2>1. mem' = mem /\ UNCHANGED <<disk, wire>>
      BY <1>1, <1>4, <1>10, VaultNow DEF Reopen
    <2> QED
      BY <1>9, <2>1
  <1>11. ASSUME UNCHANGED vars PROVE Well
    BY <1>9, <1>11 DEF vars
  <1> HIDE DEF Well
  <1>12. Well
    BY <1>5, <1>6, <1>7, <1>8, <1>10, <1>11 DEF Next, Receive
  <1> QED
    BY <1>12 DEF Well

\* The invariant of order is kept by every step.
LEMMA OrderNext == OrderInv /\ [Next]_vars => OrderInv'
  <1> SUFFICES ASSUME OrderInv, [Next]_vars PROVE OrderInv'
    OBVIOUS
  <1>1. KeysInv' /\ Addressed'
    BY KeysNext, AddressedNext DEF OrderInv
  <1>2. orderly' => mem' = disk' /\ AllFollow'
    BY OrderlyNext
  <1> QED
    BY <1>1, <1>2 DEF OrderInv

-----------------------------------------------------------------------------
(* The theorems. *)

\* Friends, their keys and the wire keep the strengthened invariant, whatever
\* is removed, lost, repeated, overtaken or not saved.
THEOREM KeysInductive == Spec => []KeysInv
  <1>1. Init => KeysInv
    BY InitKeys
  <1>2. KeysInv /\ [Next]_vars => KeysInv'
    BY KeysNext
  <1> QED
    BY <1>1, <1>2, PTL DEF Spec

\* Vaults and wire stay well typed.
THEOREM TypeCorrect == Spec => []TypeOK
  <1>1. KeysInv => TypeOK
    BY DEF KeysInv, FriendInv
  <1> QED
    BY <1>1, KeysInductive, PTL

\* add_friend and add_pending keep friends and requests apart in every order.
THEOREM FriendsAreNotPending == Spec => []PendingIsNotFriend
  <1>1. KeysInv => PendingIsNotFriend
    BY DEF KeysInv, FriendInv
  <1> QED
    BY <1>1, KeysInductive, PTL

\* With at most one rotator an epoch of a conversation stands for one key.
\* (Without that hypothesis run KeysConcurrent refutes it.)
THEOREM EpochsNameKeys ==
  ASSUME \A p, q \in Rotators : p = q
  PROVE  Spec => []EpochNamesOneKey
  <1>1. KeysInv => EpochNamesOneKey
    <2> SUFFICES ASSUME KeysInv, NEW p \in Peers, NEW q \in Peers
                 PROVE  OnePerEpoch(p, q)
      BY DEF EpochNamesOneKey, OnePerEpoch
    <2>1. CASE q \notin Rotators
      BY <2>1 DEF KeysInv
    <2>2. CASE p \notin Rotators
      <3>1. OnePerEpoch(q, p)
        BY <2>2 DEF KeysInv
      <3>2. KeysInUse(q, p) = KeysInUse(p, q)
        BY DEF KeysInUse
      <3> QED
        BY <3>1, <3>2 DEF OnePerEpoch
    <2>3. CASE p \in Rotators /\ q \in Rotators
      <3>1. p = q
        BY <2>3
      <3>2. /\ Range(wire[p][p]) = {}
            /\ mem[p].keys[p] = Pairwise /\ disk[p].keys[p] = Pairwise
        BY DEF KeysInv, FriendInv, NotSelf
      <3>3. KeysInUse(p, p) = {Pairwise}
        BY <3>2 DEF KeysInUse, OnWire
      <3> QED
        BY <3>1, <3>3 DEF OnePerEpoch
    <2> QED
      BY <2>1, <2>2, <2>3
  <1> QED
    BY <1>1, KeysInductive, PTL

\* The file of a rotator never falls back to an earlier epoch.
THEOREM EpochsGrow == Spec => RotatorMonotonic
  <1> DEFINE Grow == \A p \in Rotators, q \in Peers \ Rotators :
                       disk'[p].keys[q].epoch >= disk[p].keys[q].epoch
  <1>1. KeysInv /\ [Next]_vars => [Grow]_vars
    <2> SUFFICES ASSUME KeysInv, [Next]_vars,
                        NEW p \in Rotators, NEW q \in Peers \ Rotators
                 PROVE  disk'[p].keys[q].epoch >= disk[p].keys[q].epoch
      OBVIOUS
    <2>1. p \in Peers /\ FriendInv /\ Ahead(p, q)
      BY ConstantsAssumption DEF KeysInv
    <2>2. PairMove(p, q)
      BY <2>1, KeysNext DEF Moves
    <2>3. /\ mem[p].keys[q].epoch \in Nat /\ disk[p].keys[q].epoch \in Nat
          /\ mem'[p].keys[q].epoch \in Nat
      <3>1. UseTyped
        BY <2>1, UseTypes
      <3>2. KeysInv'
        BY KeysNext
      <3>3. FriendInv'
        BY <3>2 DEF KeysInv
      <3>4. UseTyped'
        BY <3>3, UseTypes, PTL
      <3> QED
        BY <2>1, <3>1, <3>4 DEF UseTyped
    <2> QED
      BY <2>1, <2>2, <2>3 DEF Ahead, PairMove
  <1> QED
    BY <1>1, KeysInductive, PTL DEF RotatorMonotonic, Spec
\* The stronger invariant of the normal course: memory and file agree, and
\* packets arrive in the order of their keys, whatever else may still happen.
THEOREM OrderInductive == Spec => []OrderInv
  BY InitOrder, OrderNext, PTL DEF Spec

\* RotateDirect and the KeyUpdate handler settle: with at most one rotator, two
\* friends with no KeyUpdate between them hold the same key, as long as no save
\* failed, nobody was removed, and no packet was lost, early or overtaken.
THEOREM RotationSettles ==
  ASSUME \A p, q \in Rotators : p = q
  PROVE  Spec => []SettledAgree
  <1>1. OrderInv => SettledAgree
    <2> SUFFICES ASSUME OrderInv, NEW p \in Peers, NEW q \in Peers, orderly,
                        \A pkt \in Range(wire[p][q]) \union Range(wire[q][p]) :
                          pkt.kind # "key"
                 PROVE  mem[p].keys[q] = mem[q].keys[p]
      BY DEF SettledAgree
    <2>1. AllFollow /\ \A r, s \in Peers : wire[r][s] \in Seq(Packets)
      BY DEF OrderInv, KeysInv, FriendInv, TypeOK
    <2>2. ASSUME NEW r \in Peers, NEW s \in Peers \ Rotators,
                 \A pkt \in Range(wire[r][s]) : pkt.kind # "key"
          PROVE  mem[r].keys[s] = mem[s].keys[r]
      <3>1. /\ Follows(wire[r][s], mem[r].keys[s], mem[s].keys[r])
            /\ wire[r][s] \in Seq(Packets)
        BY <2>1 DEF AllFollow
      <3>2. NoKey(wire[r][s], 1, Len(wire[r][s]))
        BY <2>2, <3>1 DEF NoKey, Range
      <3> QED
        BY <3>1, <3>2 DEF Follows
    <2>3. CASE q \notin Rotators
      BY <2>2, <2>3
    <2>4. CASE p \notin Rotators
      <3>1. mem[q].keys[p] = mem[p].keys[q]
        BY <2>2, <2>4
      <3> QED
        BY <3>1
    <2>5. CASE p \in Rotators /\ q \in Rotators
      BY <2>5
    <2> QED
      BY <2>3, <2>4, <2>5
  <1> QED
    BY <1>1, OrderInductive, PTL

\* ReceiveMessage: in the normal course, with at most one rotator, a message
\* that the receiver cannot open is of an epoch it has left behind.
THEOREM UnopenedAreRetired ==
  ASSUME \A p, q \in Rotators : p = q
  PROVE  Spec => OnlyRetiredUnopened
  <1> DEFINE Retired == orderly' => \A m \in unopened' \ unopened :
                          m.with.epoch < mem[m.to].keys[m.from].epoch
  <1>1. OrderInv /\ [Next]_vars => [Retired]_vars
    <2> SUFFICES ASSUME OrderInv, [Next]_vars, orderly',
                        NEW m \in unopened' \ unopened
                 PROVE  m.with.epoch < mem[m.to].keys[m.from].epoch
      OBVIOUS
    <2>1. PICK p \in Peers, q \in Peers : ReceiveMessage(p, q)
      <3>1. unopened' # unopened
        OBVIOUS
      <3>2. ASSUME NEW r \in Peers, NEW t \in Peers,
                   \/ ImportFriend(r, t) \/ AcceptRequest(r, t)
                   \/ DeclineRequest(r, t) \/ RemoveFriend(r, t)
                   \/ RotateDirect(r, t) \/ SendMessage(r, t) \/ Lose(r, t)
            PROVE  unopened' = unopened
        BY <3>2 DEF ImportFriend, AcceptRequest, DeclineRequest,
                    RemoveFriend, RotateDirect, SendMessage, Lose
      <3>3. ASSUME NEW r \in Peers, NEW t \in Peers,
                   ReceiveRequest(r, t) \/ ReceiveKeyUpdate(r, t)
            PROVE  unopened' = unopened
        BY <3>3 DEF ReceiveRequest, ReceiveKeyUpdate
      <3>4. ASSUME NEW r \in Peers, Reopen(r) PROVE unopened' = unopened
        BY <3>4 DEF Reopen
      <3>5. UNCHANGED vars => unopened' = unopened
        BY DEF vars
      <3> QED
        BY <3>1, <3>2, <3>3, <3>4, <3>5 DEF Next, Receive
    <2>2. /\ 1 \in Arrivals(q, p) /\ wire[q][p][1].kind = "message"
          /\ m = wire[q][p][1].msg /\ ~ Opens(mem[p], q, m.with)
      BY <2>1 DEF ReceiveMessage, InTurn, Save
    <2>3. orderly
      BY OrderlyBefore
    <2>4. FriendInv /\ KeysInv /\ AllFollow /\ Addressed
      BY <2>3 DEF OrderInv, KeysInv
    <2>5. /\ 1 \in DOMAIN wire[q][p] /\ wire[q][p] \in Seq(Packets)
          /\ wire[q][p][1] \in Range(wire[q][p])
      BY <2>2, <2>4 DEF Arrivals, Range, FriendInv, TypeOK
    <2>6. m.from = q /\ m.to = p
      BY <2>2, <2>4, <2>5 DEF Addressed
    <2>7. m.with # mem[p].keys[q]
      BY <2>2 DEF Opens
    <2>8. p \in Rotators
      <3> SUFFICES ASSUME p \notin Rotators PROVE FALSE
        OBVIOUS
      <3>1. Follows(wire[q][p], mem[q].keys[p], mem[p].keys[q])
        BY <2>4 DEF AllFollow
      <3>2. NoKey(wire[q][p], 1, 1) /\ 1 \in 1..Len(wire[q][p])
        BY <2>2, <2>5 DEF NoKey
      <3> QED
        BY <2>2, <2>7, <3>1, <3>2 DEF Follows
    <2>9. p # q
      BY <2>4, <2>5 DEF FriendInv, NotSelf
    <2>10. q \in Peers \ Rotators
      BY <2>8, <2>9
    <2>11. OnePerEpoch(p, q) /\ Ahead(p, q) /\ UseTyped
      BY <2>4, <2>10, UseTypes DEF KeysInv
    <2>12. m.with \in OnWire(q, p)
      BY <2>2, <2>5 DEF OnWire
    <2>13. /\ m.with \in Others(p, q)
           /\ m.with \in KeysInUse(p, q) /\ mem[p].keys[q] \in KeysInUse(p, q)
      BY <2>12 DEF Others, KeysInUse
    <2>14. /\ m.with.epoch <= disk[p].keys[q].epoch
           /\ disk[p].keys[q].epoch <= mem[p].keys[q].epoch
           /\ m.with.epoch # mem[p].keys[q].epoch
      BY <2>7, <2>11, <2>13 DEF OnePerEpoch, Ahead
    <2>15. /\ m.with.epoch \in Nat /\ disk[p].keys[q].epoch \in Nat
           /\ mem[p].keys[q].epoch \in Nat
      BY <2>11, <2>13 DEF UseTyped
    <2> QED
      BY <2>6, <2>14, <2>15
  <1> QED
    BY <1>1, OrderInductive, PTL DEF OnlyRetiredUnopened, Spec
=============================================================================
