--------------------------- MODULE DeliveryProofs ---------------------------
(***************************************************************************)
(* What Delivery guarantees for any set of peers, any number of messages,  *)
(* poll loops and any pull limit.  The inductive invariant has two halves: *)
(* VaultInv, about the vaults and what was posted and shown, which only    *)
(* sending, receiving and the session commands can disturb; and Carried,   *)
(* which says that tasks, mailbox and poll loops carry nothing that was    *)
(* not posted.                                                             *)
(***************************************************************************)
EXTENDS Delivery, SequenceLemmas, TLAPS

VaultTypeOK ==
  /\ open \in [Peers -> BOOLEAN]
  /\ mem \in [Peers -> Vaults]
  /\ disk \in [Peers -> Vaults]
  /\ nsent \in [Peers -> 0..MaxSend]
  /\ posted \subseteq Packets
  /\ shown \in [Peers -> Seq(Packets)]

\* Every vault numbers at most as many messages as the user has given, and
\* while open the memory has counted at least as many as the file.
Counted ==
  \A p, q \in Peers :
    /\ mem[p].out[q] <= nsent[p]
    /\ disk[p].out[q] <= nsent[p]
    /\ open[p] => disk[p].out[q] <= mem[p].out[q]

\* The vault file has counted every message that left: why a number cannot
\* come back.
Numbered == \A m \in posted : m.seq < disk[m.from].out[m.to]

\* While open, the memory holds what the file holds: why a duplicate of a
\* stored message is recognised.
DiskInMem == \A p \in Peers : open[p] => Range(disk[p].in) \subseteq Range(mem[p].in)

\* Vaults hold only messages that were posted, to their owner.
Genuine ==
  \A p \in Peers : \A m \in Range(mem[p].in) \union Range(disk[p].in) :
    m \in posted /\ m.to = p

VaultInv ==
  /\ VaultTypeOK
  /\ Counted
  /\ Numbered
  /\ DiskInMem
  /\ Genuine
  /\ AtMostOnce
  /\ SeqNeverReused
  /\ ShownIsDurable

Carried ==
  /\ \A t \in sending : t[1] \in posted
  /\ \A r \in receiving : r[1] \in posted
  /\ \A p \in Peers : \A e \in box[p] : e.pkt \in posted /\ e.pkt.to = p
  /\ \A p \in Peers, l \in Loops : \A e \in poll[p][l].batch :
       e.pkt \in posted /\ e.pkt.to = p

LossesOK == refused \subseteq Packets /\ abandoned \subseteq Packets

IInv == TypeOK /\ VaultInv /\ Carried

-----------------------------------------------------------------------------
(* Lemmas about the operators. *)

\* A list without two messages of the same name still has none after a
\* message of a new name is appended.
LEMMA AppendNew ==
  ASSUME NEW s \in Seq(Packets), NEW m \in Packets,
         \A i, j \in DOMAIN s : SameName(s[i], s[j]) => i = j,
         \A n \in Range(s) : ~ SameName(n, m)
  PROVE  LET t == Append(s, m)
         IN  \A i, j \in DOMAIN t : SameName(t[i], t[j]) => i = j
  <1> DEFINE t == Append(s, m)
  <1> SUFFICES ASSUME NEW i \in DOMAIN t, NEW j \in DOMAIN t,
                      SameName(t[i], t[j])
               PROVE  i = j
    OBVIOUS
  <1>1. \A k \in DOMAIN t : k = Len(s) + 1 \/ (k \in DOMAIN s /\ t[k] = s[k])
    OBVIOUS
  <1>2. t[Len(s) + 1] = m
    OBVIOUS
  <1>3. \A k \in DOMAIN s : ~ SameName(s[k], m) /\ ~ SameName(m, s[k])
    BY DEF Range, SameName
  <1> QED
    BY <1>1, <1>2, <1>3

-----------------------------------------------------------------------------
(* The initial state. *)

LEMMA InitInv == Init => IInv
  <1> SUFFICES ASSUME Init PROVE IInv
    OBVIOUS
  <1>1. EmptyVault \in Vaults /\ Range(EmptyVault.in) = {}
    BY ConstantsAssumption DEF EmptyVault, Vaults, Range
  <1>2. TypeOK
    BY <1>1, ConstantsAssumption
    DEF Init, TypeOK, IdleLoop, LoopStates
  <1>3. Counted
    BY ConstantsAssumption DEF Init, Counted, EmptyVault
  <1>4. VaultInv
    BY <1>1, <1>2, <1>3
    DEF Init, VaultInv, TypeOK, VaultTypeOK, Numbered, DiskInMem, Genuine,
        AtMostOnce, SeqNeverReused, ShownIsDurable, EmptyVault, Range
  <1>5. Carried
    BY DEF Init, Carried, IdleLoop
  <1> QED
    BY <1>2, <1>4, <1>5 DEF IInv

-----------------------------------------------------------------------------
(* The vaults. *)

\* The invariant of the vaults reads no other variable.
LEMMA VaultFrame ==
  ASSUME VaultInv, UNCHANGED <<open, mem, disk, nsent, posted, shown>>
  PROVE  VaultInv'
  <1>1. VaultTypeOK'
    BY DEF VaultInv, VaultTypeOK
  <1>2. (Counted /\ Numbered /\ SeqNeverReused)'
    BY DEF VaultInv, Counted, Numbered, SeqNeverReused
  <1>3. (DiskInMem /\ ShownIsDurable)'
    BY DEF VaultInv, DiskInMem, ShownIsDurable
  <1>4. Genuine'
    BY DEF VaultInv, Genuine
  <1>5. AtMostOnce'
    BY DEF VaultInv, AtMostOnce
  <1> QED
    BY <1>1, <1>2, <1>3, <1>4, <1>5 DEF VaultInv

\* The parts of a vault, and the empty one.
LEMMA VaultFields ==
  /\ \A v \in Vaults :
       /\ v.out \in [Peers -> 0..MaxSend]
       /\ v.in \in Seq(Packets)
       /\ Range(v.in) \subseteq Packets
  /\ EmptyVault \in Vaults
  /\ EmptyVault.in = <<>>
  /\ Range(EmptyVault.in) = {}
  /\ \A q \in Peers : EmptyVault.out[q] = 0
  BY ConstantsAssumption DEF Vaults, EmptyVault, Range

\* Emptying the memory when the session closes, whatever the reason.
LEMMA CloseInv ==
  ASSUME VaultInv, NEW p \in Peers,
         open' = [open EXCEPT ![p] = FALSE],
         mem' = [mem EXCEPT ![p] = EmptyVault],
         UNCHANGED <<disk, nsent, posted, shown>>
  PROVE  VaultInv'
  <1> USE VaultFields
  <1>1. VaultTypeOK'
    BY DEF VaultInv, VaultTypeOK
  <1>2. \A r \in Peers : /\ mem'[r] = IF r = p THEN EmptyVault ELSE mem[r]
                         /\ open'[r] = IF r = p THEN FALSE ELSE open[r]
    BY DEF VaultInv, VaultTypeOK
  <1>3. Counted'
    BY <1>2, ConstantsAssumption DEF VaultInv, VaultTypeOK, Counted
  <1>4. (Numbered /\ SeqNeverReused /\ ShownIsDurable)'
    BY DEF VaultInv, Numbered, SeqNeverReused, ShownIsDurable
  <1>5. DiskInMem'
    BY <1>2 DEF VaultInv, DiskInMem
  <1>6. Genuine'
    <2>1. \A r \in Peers : Range(mem'[r].in) \subseteq Range(mem[r].in)
      BY <1>2
    <2> QED
      BY <2>1 DEF VaultInv, Genuine
  <1>7. AtMostOnce'
    BY <1>2 DEF VaultInv, AtMostOnce
  <1> QED
    BY <1>1, <1>3, <1>4, <1>5, <1>6, <1>7 DEF VaultInv

\* Unlocking reads the file into memory.
LEMMA UnlockInv ==
  ASSUME VaultInv, NEW p \in Peers, Unlock(p)
  PROVE  VaultInv'
  <1> USE DEF Unlock, mailbox, history
  <1>1. VaultTypeOK'
    BY DEF VaultInv, VaultTypeOK
  <1>2. \A r \in Peers : /\ mem'[r] = IF r = p THEN disk[r] ELSE mem[r]
                         /\ open'[r] = IF r = p THEN TRUE ELSE open[r]
    BY DEF VaultInv, VaultTypeOK
  <1>3. \A r, q \in Peers : disk[r].out[q] <= disk[r].out[q]
    BY VaultFields DEF VaultInv, VaultTypeOK
  <1>4. Counted'
    BY <1>2, <1>3 DEF VaultInv, Counted
  <1>5. (Numbered /\ SeqNeverReused /\ ShownIsDurable)'
    BY DEF VaultInv, Numbered, SeqNeverReused, ShownIsDurable
  <1>6. (DiskInMem /\ Genuine)'
    BY <1>2 DEF VaultInv, DiskInMem, Genuine
  <1>7. AtMostOnce'
    BY <1>2 DEF VaultInv, AtMostOnce
  <1> QED
    BY <1>1, <1>4, <1>5, <1>6, <1>7 DEF VaultInv

\* A save puts the memory into the file.
LEMMA SaveInv ==
  ASSUME VaultInv, NEW p \in Peers, SetSettings(p)
  PROVE  VaultInv'
  <1>1. /\ disk' = [disk EXCEPT ![p] = mem[p]]
        /\ open[p]
        /\ UNCHANGED <<open, mem, nsent, posted, shown>>
    BY DEF SetSettings, history
  <1>2. VaultTypeOK'
    BY <1>1 DEF VaultInv, VaultTypeOK
  <1>3. \A r \in Peers : disk'[r] = IF r = p THEN mem[r] ELSE disk[r]
    BY <1>1 DEF VaultInv, VaultTypeOK
  <1>4. \A r, q \in Peers : mem[r].out[q] \in Nat /\ disk[r].out[q] \in Nat
    <2>1. \A r \in Peers : mem[r] \in Vaults /\ disk[r] \in Vaults
      BY DEF VaultInv, VaultTypeOK
    <2> QED
      BY <2>1, VaultFields, ConstantsAssumption
  <1>5. Counted'
    BY <1>1, <1>3, <1>4 DEF VaultInv, Counted
  <1>6. Numbered'
    <2> SUFFICES ASSUME NEW n \in posted
                 PROVE  n.seq < disk'[n.from].out[n.to]
      BY <1>1 DEF Numbered
    <2>1. n.from \in Peers /\ n.to \in Peers /\ n.seq \in Nat
      BY DEF VaultInv, VaultTypeOK, Packets
    <2>2. n.seq < disk[n.from].out[n.to]
      BY DEF VaultInv, Numbered
    <2>3. open[n.from] => disk[n.from].out[n.to] <= mem[n.from].out[n.to]
      BY <2>1 DEF VaultInv, Counted
    <2> QED
      BY <1>1, <1>3, <1>4, <2>1, <2>2, <2>3
  <1>7. (DiskInMem /\ Genuine /\ SeqNeverReused)'
    BY <1>1, <1>3 DEF VaultInv, DiskInMem, Genuine, SeqNeverReused
  <1>8. AtMostOnce'
    BY <1>1, <1>3 DEF VaultInv, AtMostOnce
  <1>9. ShownIsDurable'
    BY <1>1, <1>3 DEF VaultInv, ShownIsDurable, DiskInMem
  <1> QED
    BY <1>2, <1>5, <1>6, <1>7, <1>8, <1>9 DEF VaultInv

\* A new message gets a number no posted message has.
LEMMA SendInv ==
  ASSUME VaultInv, NEW p \in Peers, NEW q \in Peers, SendMessage(p, q)
  PROVE  VaultInv'
  <1> DEFINE m == [from |-> p, to |-> q, seq |-> mem[p].out[q],
                   body |-> nsent[p] + 1]
             v == [mem[p] EXCEPT !.out[q] = @ + 1]
  <1>1. /\ mem[p] \in Vaults /\ disk[p] \in Vaults
        /\ mem[p].out[q] \in Nat /\ nsent[p] \in Nat
        /\ mem[p].out[q] <= nsent[p] /\ nsent[p] < MaxSend
        /\ disk[p].out[q] <= mem[p].out[q]
    BY ConstantsAssumption, VaultFields
    DEF VaultInv, VaultTypeOK, Counted, SendMessage, NextSeq
  <1>2. m \in Packets
    BY <1>1, ConstantsAssumption DEF Packets
  <1>3. v \in Vaults /\ v.in = mem[p].in /\ v.out[q] = mem[p].out[q] + 1
        /\ \A r \in Peers : r # q => v.out[r] = mem[p].out[r]
    <2>1. /\ mem[p].out \in [Peers -> 0..MaxSend]
          /\ v = [out |-> [mem[p].out EXCEPT ![q] = @ + 1], in |-> mem[p].in]
      <3>1. mem[p].out \in [Peers -> 0..MaxSend]
        BY <1>1, VaultFields
      <3>2. mem[p] = [out |-> mem[p].out, in |-> mem[p].in]
        BY <1>1 DEF Vaults
      <3> QED
        BY <3>1, <3>2
    <2>2. mem[p].out[q] + 1 \in 0..MaxSend
      BY <1>1, ConstantsAssumption
    <2>3. [mem[p].out EXCEPT ![q] = @ + 1] \in [Peers -> 0..MaxSend]
      BY <2>1, <2>2
    <2> QED
      BY <1>1, <2>1, <2>3 DEF Vaults
  <1>4. /\ nsent' = [nsent EXCEPT ![p] = @ + 1]
        /\ mem' = [mem EXCEPT ![p] = v]
        /\ open[p] /\ UNCHANGED <<open, shown>>
        /\ \/ disk' = [disk EXCEPT ![p] = v] /\ posted' = posted \union {m}
           \/ UNCHANGED <<disk, posted>>
    BY DEF SendMessage, NextSeq
  <1> HIDE DEF v
  <1>5. VaultTypeOK'
    <2>1. nsent[p] + 1 \in 0..MaxSend
      BY <1>1, ConstantsAssumption
    <2> QED
      BY <1>2, <1>3, <1>4, <2>1 DEF VaultInv, VaultTypeOK
  <1>6. \A r \in Peers :
          /\ mem'[r] = IF r = p THEN v ELSE mem[r]
          /\ disk'[r] = disk[r] \/ (r = p /\ disk'[r] = v)
          /\ nsent'[r] = IF r = p THEN nsent[r] + 1 ELSE nsent[r]
    BY <1>4 DEF VaultInv, VaultTypeOK
  <1>7. Counted'
    <2> SUFFICES ASSUME NEW r \in Peers, NEW s \in Peers
                 PROVE  /\ mem'[r].out[s] <= nsent'[r]
                        /\ disk'[r].out[s] <= nsent'[r]
                        /\ open'[r] => disk'[r].out[s] <= mem'[r].out[s]
      BY DEF Counted
    <2>1. /\ mem[r].out[s] \in Nat /\ disk[r].out[s] \in Nat
          /\ nsent[r] \in Nat
          /\ mem[r].out[s] <= nsent[r] /\ disk[r].out[s] <= nsent[r]
          /\ open[r] => disk[r].out[s] <= mem[r].out[s]
      BY VaultFields, ConstantsAssumption DEF VaultInv, VaultTypeOK, Counted
    <2> QED
      BY <1>3, <1>4, <1>6, <2>1
  <1>8. \A n \in posted : /\ n \in Packets
                          /\ n.seq \in Nat
                          /\ n.seq < disk[n.from].out[n.to]
    BY DEF VaultInv, VaultTypeOK, Numbered, Packets
  <1>9. Numbered'
    <2> SUFFICES ASSUME NEW n \in posted'
                 PROVE  n.seq < disk'[n.from].out[n.to]
      BY DEF Numbered
    <2>1. CASE n \in posted
      <3>1. n.from \in Peers /\ n.to \in Peers
        BY <1>8, <2>1 DEF Packets
      <3>2. disk[n.from].out[n.to] \in Nat /\ mem[n.from].out[n.to] \in Nat
            /\ (open[n.from] => disk[n.from].out[n.to] <= mem[n.from].out[n.to])
        <4>1. disk[n.from] \in Vaults /\ mem[n.from] \in Vaults
          BY <3>1 DEF VaultInv, VaultTypeOK
        <4>2. disk[n.from].out[n.to] \in 0..MaxSend
              /\ mem[n.from].out[n.to] \in 0..MaxSend
          BY <3>1, <4>1, VaultFields
        <4> QED
          BY <3>1, <4>2, ConstantsAssumption DEF VaultInv, Counted
      <3>3. CASE disk'[n.from] = disk[n.from]
        BY <1>8, <2>1, <3>3
      <3>4. CASE n.from = p /\ disk'[n.from] = v
        <4>1. v.out[n.to] >= mem[p].out[n.to]
          BY <1>3, <3>1, <3>2, <3>4
        <4>2. v.out[n.to] \in Nat
          BY <1>3, <3>1, <3>2, <3>4
        <4> QED
          BY <1>4, <1>8, <2>1, <3>2, <3>4, <4>1, <4>2
      <3> QED
        BY <1>6, <3>1, <3>3, <3>4
    <2>2. CASE n \notin posted
      <3>1. n = m /\ disk' = [disk EXCEPT ![p] = v]
        BY <1>4, <2>2
      <3>2. disk'[p] = v
        BY <3>1 DEF VaultInv, VaultTypeOK
      <3> QED
        BY <1>1, <1>3, <3>1, <3>2
    <2> QED
      BY <2>1, <2>2
  <1>10. SeqNeverReused'
    <2>1. \A n \in posted : ~ SameName(n, m) /\ ~ SameName(m, n)
      BY <1>1, <1>8, VaultFields, ConstantsAssumption DEF SameName
    <2> QED
      BY <1>4, <2>1 DEF VaultInv, SeqNeverReused
  <1>11. posted \subseteq posted' /\ \A r \in Peers : disk'[r].in \in {disk[r].in, mem[r].in}
    BY <1>3, <1>4, <1>6
  <1>12. DiskInMem'
    BY <1>3, <1>4, <1>6 DEF VaultInv, DiskInMem
  <1>13. Genuine'
    BY <1>3, <1>6, <1>11 DEF VaultInv, Genuine
  <1>14. AtMostOnce'
    <2> SUFFICES ASSUME NEW r \in Peers, NEW w \in {mem'[r], disk'[r]}
                 PROVE  \A i, j \in DOMAIN w.in : SameName(w.in[i], w.in[j]) => i = j
      BY DEF AtMostOnce
    <2>1. w.in \in {mem[r].in, disk[r].in}
      BY <1>3, <1>6
    <2> QED
      BY <2>1 DEF VaultInv, AtMostOnce
  <1>15. ShownIsDurable'
    BY <1>3, <1>4, <1>6 DEF VaultInv, ShownIsDurable, DiskInMem
  <1> QED
    BY <1>5, <1>7, <1>9, <1>10, <1>12, <1>13, <1>14, <1>15 DEF VaultInv

\* process_incoming stores a message under a name the vault does not hold yet.
LEMMA IncomingInv ==
  ASSUME VaultInv, NEW p \in Peers, NEW m \in posted, m.to = p,
         Incoming(p, m), UNCHANGED <<open, nsent, posted>>
  PROVE  VaultInv'
  <1> DEFINE v == [mem[p] EXCEPT !.in = Append(@, m)]
  <1>1. /\ mem[p] \in Vaults /\ disk[p] \in Vaults /\ m \in Packets
        /\ mem[p].in \in Seq(Packets) /\ shown[p] \in Seq(Packets)
    BY VaultFields DEF VaultInv, VaultTypeOK
  <1>2. CASE UNCHANGED <<mem, disk, shown>>
    BY <1>2, VaultFrame
  <1>3. CASE /\ open[p] /\ ~ HasIncoming(mem[p], m)
             /\ mem' = [mem EXCEPT ![p] = v]
             /\ \/ /\ disk' = [disk EXCEPT ![p] = v]
                   /\ shown' = [shown EXCEPT ![p] = Append(@, m)]
                \/ UNCHANGED <<disk, shown>>
    <2>1. /\ v \in Vaults
          /\ v.out = mem[p].out
          /\ v.in = Append(mem[p].in, m)
          /\ Range(v.in) = Range(mem[p].in) \union {m}
      <3>1. mem[p] = [out |-> mem[p].out, in |-> mem[p].in]
        BY <1>1 DEF Vaults
      <3>2. v = [out |-> mem[p].out, in |-> Append(mem[p].in, m)]
        BY <3>1
      <3>3. /\ Append(mem[p].in, m) \in Seq(Packets)
            /\ Range(Append(mem[p].in, m)) = Range(mem[p].in) \union {m}
        BY <1>1, AppendRange
      <3>4. mem[p].out \in [Peers -> 0..MaxSend]
        BY <1>1, VaultFields
      <3> QED
        BY <3>2, <3>3, <3>4 DEF Vaults
    <2> HIDE DEF v
    <2>2. \A r \in Peers :
            /\ mem'[r] = IF r = p THEN v ELSE mem[r]
            /\ disk'[r] = disk[r] \/ (r = p /\ disk'[r] = v)
            /\ shown'[r] = shown[r] \/
                 (r = p /\ disk'[r] = v /\ shown'[r] = Append(shown[r], m))
      BY <1>3 DEF VaultInv, VaultTypeOK
    <2>3. Append(shown[p], m) \in Seq(Packets)
          /\ Range(Append(shown[p], m)) = Range(shown[p]) \union {m}
      BY <1>1, AppendRange
    <2>4. VaultTypeOK'
      <3>0. mem \in [Peers -> Vaults] /\ disk \in [Peers -> Vaults]
        BY DEF VaultInv, VaultTypeOK
      <3>1. mem' \in [Peers -> Vaults] /\ disk' \in [Peers -> Vaults]
        BY <1>3, <2>1, <3>0
      <3>2. shown' \in [Peers -> Seq(Packets)]
        BY <1>3, <2>3 DEF VaultInv, VaultTypeOK
      <3> QED
        BY <3>1, <3>2 DEF VaultInv, VaultTypeOK
    <2>5. Counted'
      <3> SUFFICES ASSUME NEW r \in Peers, NEW s \in Peers
                   PROVE  /\ mem'[r].out[s] <= nsent'[r]
                          /\ disk'[r].out[s] <= nsent'[r]
                          /\ open'[r] => disk'[r].out[s] <= mem'[r].out[s]
        BY DEF Counted
      <3>1. mem'[r].out = mem[r].out
        BY <2>1, <2>2
      <3>2. disk'[r].out = disk[r].out \/ (r = p /\ disk'[r].out = mem[r].out)
        BY <2>1, <2>2
      <3>3. mem[r].out[s] \in Nat
        <4>1. mem[r] \in Vaults
          BY DEF VaultInv, VaultTypeOK
        <4> QED
          BY <4>1, VaultFields, ConstantsAssumption
      <3> QED
        BY <3>1, <3>2, <3>3 DEF VaultInv, Counted
    <2>6. Numbered'
      <3> SUFFICES ASSUME NEW n \in posted
                   PROVE  n.seq < disk'[n.from].out[n.to]
        BY DEF Numbered
      <3>1. n.from \in Peers /\ n.to \in Peers /\ n.seq \in Nat
        BY DEF VaultInv, VaultTypeOK, Packets
      <3>2. n.seq < disk[n.from].out[n.to]
        BY DEF VaultInv, Numbered
      <3>3. CASE disk'[n.from] = disk[n.from]
        BY <3>2, <3>3
      <3>4. CASE n.from = p /\ disk'[n.from] = v
        <4>1. disk[p].out[n.to] <= mem[p].out[n.to]
          BY <1>3, <3>1 DEF VaultInv, Counted
        <4>2. disk[p].out[n.to] \in Nat /\ mem[p].out[n.to] \in Nat
          BY <1>1, <3>1, VaultFields, ConstantsAssumption
        <4> QED
          BY <2>1, <3>1, <3>2, <3>4, <4>1, <4>2
      <3> QED
        BY <2>2, <3>1, <3>3, <3>4
    <2>7. DiskInMem'
      <3> SUFFICES ASSUME NEW r \in Peers, open[r]
                   PROVE  Range(disk'[r].in) \subseteq Range(mem'[r].in)
        BY DEF DiskInMem
      <3> QED
        BY <2>1, <2>2 DEF VaultInv, DiskInMem
    <2>8. Genuine'
      <3> SUFFICES ASSUME NEW r \in Peers,
                          NEW n \in Range(mem'[r].in) \union Range(disk'[r].in)
                   PROVE  n \in posted /\ n.to = r
        BY DEF Genuine
      <3>1. n \in Range(mem[r].in) \union Range(disk[r].in) \/ (n = m /\ r = p)
        <4>1. mem'[r].in = mem[r].in \/ (r = p /\ mem'[r].in = v.in)
          BY <2>2
        <4>2. disk'[r].in = disk[r].in \/ (r = p /\ disk'[r].in = v.in)
          BY <2>2
        <4> QED
          BY <2>1, <4>1, <4>2
      <3> QED
        BY <3>1 DEF VaultInv, Genuine
    <2>9. AtMostOnce'
      <3> SUFFICES ASSUME NEW r \in Peers, NEW w \in {mem'[r], disk'[r]}
                   PROVE  \A i, j \in DOMAIN w.in :
                            SameName(w.in[i], w.in[j]) => i = j
        BY DEF AtMostOnce
      <3>1. CASE w \in {mem[r], disk[r]}
        BY <3>1 DEF VaultInv, AtMostOnce
      <3>2. CASE w = v
        <4>1. \A n \in Range(mem[p].in) : ~ SameName(n, m)
          BY <1>3 DEF HasIncoming, SameName
        <4>2. \A i, j \in DOMAIN mem[p].in :
                SameName(mem[p].in[i], mem[p].in[j]) => i = j
          BY DEF VaultInv, AtMostOnce
        <4> QED
          BY <1>1, <2>1, <3>2, <4>1, <4>2, AppendNew
      <3> QED
        BY <2>2, <3>1, <3>2
    <2>10. SeqNeverReused'
      BY DEF VaultInv, SeqNeverReused
    <2>11. ShownIsDurable'
      <3> SUFFICES ASSUME NEW r \in Peers
                   PROVE  Range(shown'[r]) \subseteq Range(disk'[r].in)
        BY DEF ShownIsDurable
      <3>1. Range(shown[r]) \subseteq Range(disk[r].in)
        BY DEF VaultInv, ShownIsDurable
      <3>2. open[r] => Range(disk[r].in) \subseteq Range(mem[r].in)
        BY DEF VaultInv, DiskInMem
      <3>3. CASE shown'[r] = shown[r]
        BY <1>3, <2>1, <2>2, <3>1, <3>2, <3>3
      <3>4. CASE r = p /\ disk'[r] = v /\ shown'[r] = Append(shown[r], m)
        BY <1>3, <2>1, <2>3, <3>1, <3>2, <3>4
      <3> QED
        BY <2>2, <3>3, <3>4
    <2> QED
      BY <2>4, <2>5, <2>6, <2>7, <2>8, <2>9, <2>10, <2>11 DEF VaultInv
  <1> QED
    BY <1>2, <1>3 DEF Incoming, StoreIncoming

-----------------------------------------------------------------------------
(* Tasks, mailbox and poll loops. *)

TaskTypeOK ==
  /\ listening \in [Peers -> BOOLEAN]
  /\ poll \in [Peers -> [Loops -> LoopStates]]
  /\ sending \subseteq Packets \X SendStages
  /\ receiving \subseteq Packets \X ReceiveStages
  /\ box \in [Peers -> SUBSET Entries]
  /\ pushes \in Nat
  /\ parked \subseteq Packets

TaskInv == TaskTypeOK /\ Carried

\* The types split along the two halves of the invariant.
LEMMA Halves == IInv <=> VaultInv /\ TaskInv /\ LossesOK
  BY DEF IInv, TaskInv, TypeOK, VaultInv, VaultTypeOK, TaskTypeOK, LossesOK

\* One loop changes its state to a well-typed one that carries posted
\* packets to the loop's owner; the mailbox may lose entries.
LEMMA LoopFrame ==
  ASSUME TaskInv, NEW p \in Peers, NEW l \in Loops, NEW s \in LoopStates,
         \A e \in s.batch : e.pkt \in posted /\ e.pkt.to = p,
         poll' = [poll EXCEPT ![p][l] = s],
         NEW S \in SUBSET box[p],
         box' = box \/ box' = [box EXCEPT ![p] = S],
         UNCHANGED <<listening, sending, receiving, pushes, parked, posted>>
  PROVE  TaskInv'
  <1>1. TaskTypeOK'
    BY DEF TaskInv, TaskTypeOK
  <1>2. \A r \in Peers : box'[r] \subseteq box[r]
    BY DEF TaskInv, TaskTypeOK
  <1>3. \A r \in Peers, k \in Loops :
          poll'[r][k] = poll[r][k] \/ (r = p /\ k = l /\ poll'[r][k] = s)
    BY DEF TaskInv, TaskTypeOK
  <1>4. Carried'
    <2>1. \A r \in Peers : \A e \in box'[r] : e.pkt \in posted /\ e.pkt.to = r
      BY <1>2 DEF TaskInv, Carried
    <2>2. \A r \in Peers, k \in Loops : \A e \in poll'[r][k].batch :
            e.pkt \in posted /\ e.pkt.to = r
      BY <1>3 DEF TaskInv, Carried
    <2> QED
      BY <2>1, <2>2 DEF TaskInv, Carried
  <1> QED
    BY <1>1, <1>4 DEF TaskInv

\* A step of a task: packets change their stages, or are posted.
LEMMA TaskFrame ==
  ASSUME TaskInv,
         sending' \subseteq Packets \X SendStages,
         receiving' \subseteq Packets \X ReceiveStages,
         \A t \in sending' : t[1] \in posted',
         \A r \in receiving' : r[1] \in posted',
         posted \subseteq posted',
         UNCHANGED <<poll, box, pushes, parked>>,
         listening' \in [Peers -> BOOLEAN]
  PROVE  TaskInv'
  <1>1. TaskTypeOK'
    BY DEF TaskInv, TaskTypeOK
  <1>2. Carried'
    BY DEF TaskInv, Carried
  <1> QED
    BY <1>1, <1>2 DEF TaskInv

\* What a poll loop step of any kind preserves.
LEMMA LoopStepInv ==
  ASSUME VaultInv, TaskInv, NEW p \in Peers, NEW l \in Loops, LoopStep(p, l)
  PROVE  VaultInv' /\ TaskInv'
  <1>1. poll[p][l] \in LoopStates /\ box[p] \subseteq Entries
    BY DEF TaskInv, TaskTypeOK
  <1>2. /\ \A e \in box[p] : e.pkt \in posted /\ e.pkt.to = p
        /\ \A e \in poll[p][l].batch : e.pkt \in posted /\ e.pkt.to = p
    BY DEF TaskInv, Carried
  <1>3. CASE CheckUnlocked(p, l)
    <2> DEFINE s == [poll[p][l] EXCEPT !.pc = IF open[p] THEN "pull" ELSE "off"]
    <2>1. s \in LoopStates /\ s.batch = poll[p][l].batch
      BY <1>1 DEF LoopStates
    <2>2. poll' = [poll EXCEPT ![p][l] = s]
      BY <1>3 DEF CheckUnlocked
    <2>3. /\ UNCHANGED <<open, mem, disk, nsent, posted, shown>>
          /\ UNCHANGED <<listening, sending, receiving, box, pushes, parked>>
      BY <1>3 DEF CheckUnlocked, vaults, mailbox, history
    <2> HIDE DEF s
    <2> QED
      BY <1>2, <2>1, <2>2, <2>3, LoopFrame, VaultFrame
  <1>4. CASE Pull(p, l)
    <2> DEFINE s == [pc |-> "work", batch |-> Oldest(box[p], PullLimit),
                     done |-> {}]
    <2>1. s \in LoopStates /\ s.batch \subseteq box[p]
      BY <1>1 DEF LoopStates, Oldest
    <2> QED
      BY <1>2, <1>4, <2>1, LoopFrame, VaultFrame DEF Pull, vaults, mailbox, history
  <1>5. CASE PullFails(p, l)
    <2> DEFINE s == [poll[p][l] EXCEPT !.pc = "top"]
    <2>1. s \in LoopStates /\ s.batch = poll[p][l].batch
      BY <1>1 DEF LoopStates
    <2>2. poll' = [poll EXCEPT ![p][l] = s]
      BY <1>5 DEF PullFails
    <2>3. /\ UNCHANGED <<open, mem, disk, nsent, posted, shown>>
          /\ UNCHANGED <<listening, sending, receiving, box, pushes, parked>>
      BY <1>5 DEF PullFails, vaults, mailbox, history
    <2> HIDE DEF s
    <2> QED
      BY <1>2, <2>1, <2>2, <2>3, LoopFrame, VaultFrame
  <1>6. CASE HandleEntry(p, l)
    <2>1. PICK e \in Oldest(poll[p][l].batch, 1) :
            /\ poll' = [poll EXCEPT ![p][l].batch = @ \ {e},
                                    ![p][l].done = @ \union {e}]
            /\ Incoming(p, e.pkt)
      BY <1>6 DEF HandleEntry
    <2>2. e \in poll[p][l].batch
      BY <2>1 DEF Oldest
    <2> DEFINE s == [poll[p][l] EXCEPT !.batch = @ \ {e},
                                      !.done = @ \union {e}]
    <2>3. s \in LoopStates /\ s.batch \subseteq poll[p][l].batch
      BY <1>1, <2>2 DEF LoopStates
    <2>4. poll' = [poll EXCEPT ![p][l] = s]
      BY <2>1 DEF TaskInv, TaskTypeOK
    <2>5. TaskInv'
      BY <1>2, <1>6, <2>3, <2>4, LoopFrame DEF HandleEntry, mailbox, history
    <2>6. VaultInv'
      BY <1>2, <1>6, <2>1, <2>2, IncomingInv DEF HandleEntry
    <2> QED
      BY <2>5, <2>6
  <1>7. CASE Ack(p, l)
    <2> DEFINE s == [IdleLoop EXCEPT !.pc = "top"]
    <2>1. s \in LoopStates /\ s.batch = {}
      BY DEF LoopStates, IdleLoop
    <2>2. box[p] \ poll[p][l].done \in SUBSET box[p]
      OBVIOUS
    <2> QED
      BY <1>7, <2>1, <2>2, LoopFrame, VaultFrame DEF Ack, AckIds, vaults, history
  <1> QED
    BY <1>3, <1>4, <1>5, <1>6, <1>7 DEF LoopStep

\* What a step of a deliver task or of an accepted connection preserves.
LEMMA TaskStepInv ==
  ASSUME VaultInv, TaskInv, NEW m \in Packets, TaskStep(m)
  PROVE  VaultInv' /\ TaskInv'
  <1>1. /\ sending \subseteq Packets \X SendStages
        /\ receiving \subseteq Packets \X ReceiveStages
        /\ \A t \in sending : t[1] \in posted
        /\ \A r \in receiving : r[1] \in posted
        /\ listening \in [Peers -> BOOLEAN]
    BY DEF TaskInv, TaskTypeOK, Carried
  <1>2. m.to \in Peers
    BY DEF Packets
  <1>3. CASE Dial(m) \/ DirectFails(m) \/ AckArrives(m) \/ ReadFrame(m)
             \/ ReadBreaks(m) \/ CloseSeen(m)
    <2>1. /\ sending' \subseteq Packets \X SendStages
          /\ \A t \in sending' : t[1] \in posted
      BY <1>1, <1>3
      DEF Dial, DirectFails, AckArrives, ReadFrame, ReadBreaks, CloseSeen,
          Move, SendStages
    <2>2. /\ receiving' \subseteq Packets \X ReceiveStages
          /\ \A r \in receiving' : r[1] \in posted
      BY <1>1, <1>3
      DEF Dial, DirectFails, AckArrives, ReadFrame, ReadBreaks, CloseSeen,
          Move, ReceiveStages
    <2>3. UNCHANGED <<open, mem, disk, nsent, posted, shown, listening, poll,
                      box, pushes, parked>>
      BY <1>3
      DEF Dial, DirectFails, AckArrives, ReadFrame, ReadBreaks, CloseSeen,
          vaults, loops, mailbox, history
    <2> QED
      BY <1>1, <2>1, <2>2, <2>3, TaskFrame, VaultFrame
  <1>4. CASE ProcessDirect(m)
    <2>1. m \in posted
      BY <1>1, <1>4 DEF ProcessDirect
    <2>2. VaultInv'
      BY <1>2, <1>4, <2>1, IncomingInv DEF ProcessDirect
    <2>3. receiving' \subseteq receiving /\ UNCHANGED <<sending, posted,
             listening, poll, box, pushes, parked>>
      BY <1>4 DEF ProcessDirect, loops, mailbox, history
    <2> QED
      BY <1>1, <2>2, <2>3, TaskFrame
  <1>5. CASE Park(m)
    <2>1. /\ UNCHANGED <<open, mem, disk, nsent, posted, shown, listening,
                         poll, receiving>>
          /\ m \in posted
          /\ sending' \subseteq sending
          /\ \/ UNCHANGED <<box, pushes, parked>>
             \/ /\ box' = [box EXCEPT ![m.to] =
                              @ \union {[id |-> pushes, pkt |-> m]}]
                /\ pushes' = pushes + 1
                /\ parked' = parked \union {m}
      BY <1>1, <1>5 DEF Park, vaults, loops, mailbox, history
    <2>2. TaskTypeOK'
      BY <1>2, <2>1 DEF TaskInv, TaskTypeOK, Entries
    <2>3. \A p \in Peers : \A e \in box'[p] :
            e \in box[p] \/ (e.pkt = m /\ p = m.to)
      BY <1>2, <2>1 DEF TaskInv, TaskTypeOK
    <2>4. Carried'
      BY <2>1, <2>3 DEF TaskInv, Carried
    <2> QED
      BY <2>1, <2>2, <2>4, VaultFrame DEF TaskInv
  <1> QED
    BY <1>3, <1>4, <1>5 DEF TaskStep

\* What a session command, a message or a crash preserves.
LEMMA PeerStepInv ==
  ASSUME VaultInv, TaskInv, NEW p \in Peers, PeerStep(p)
  PROVE  VaultInv' /\ TaskInv'
  <1>1. /\ sending \subseteq Packets \X SendStages
        /\ receiving \subseteq Packets \X ReceiveStages
        /\ \A t \in sending : t[1] \in posted
        /\ \A r \in receiving : r[1] \in posted
        /\ listening \in [Peers -> BOOLEAN]
        /\ poll \in [Peers -> [Loops -> LoopStates]]
    BY DEF TaskInv, TaskTypeOK, Carried
  <1>2. CASE Unlock(p)
    <2>1. PICK l \in Loops : poll' = [poll EXCEPT ![p][l].pc = "top"]
      BY <1>2 DEF Unlock
    <2> DEFINE s == [poll[p][l] EXCEPT !.pc = "top"]
    <2>a. s \in LoopStates /\ s.batch = poll[p][l].batch
      <3>1. poll[p][l] \in LoopStates
        BY <1>1
      <3> QED
        BY <3>1 DEF LoopStates
    <2>b. poll' = [poll EXCEPT ![p][l] = s]
      BY <2>1
    <2> HIDE DEF s
    <2>2. \A r \in Peers, k \in Loops :
            poll'[r][k].batch = poll[r][k].batch
      BY <1>1, <2>a, <2>b
    <2>3. poll' \in [Peers -> [Loops -> LoopStates]]
      BY <1>1, <2>a, <2>b
    <2>4. listening' \in [Peers -> BOOLEAN]
          /\ UNCHANGED <<sending, receiving, box, pushes, parked, posted>>
      BY <1>1, <1>2 DEF Unlock, mailbox, history
    <2>5. TaskTypeOK'
      BY <2>3, <2>4 DEF TaskInv, TaskTypeOK
    <2>6. Carried'
      BY <2>2, <2>4 DEF TaskInv, Carried
    <2> QED
      BY <1>2, <2>5, <2>6, UnlockInv DEF TaskInv
  <1>3. CASE Lock(p)
    <2>1. VaultInv'
      BY <1>3, CloseInv DEF Lock, history
    <2>2. UNCHANGED <<listening, poll, sending, receiving, box, pushes, parked,
                      posted>>
      BY <1>3 DEF Lock, loops, mailbox, history
    <2> QED
      BY <1>1, <2>1, <2>2, TaskFrame
  <1>4. CASE Crash(p)
    <2>1. VaultInv'
      BY <1>4, CloseInv DEF Crash
    <2>2. \A r \in Peers, k \in Loops :
            poll'[r][k] = poll[r][k] \/ (r = p /\ poll'[r][k] = IdleLoop)
      BY <1>1, <1>4 DEF Crash
    <2>3. IdleLoop \in LoopStates /\ IdleLoop.batch = {}
      BY DEF IdleLoop, LoopStates
    <2>4. poll' \in [Peers -> [Loops -> LoopStates]]
          /\ listening' \in [Peers -> BOOLEAN]
      BY <1>1, <1>4, <2>3 DEF Crash
    <2>5. /\ sending' \subseteq sending /\ receiving' \subseteq receiving
          /\ UNCHANGED <<box, pushes, parked, posted>>
      BY <1>4 DEF Crash, mailbox, history
    <2>6. TaskTypeOK'
      BY <2>4, <2>5 DEF TaskInv, TaskTypeOK
    <2>7. Carried'
      BY <2>2, <2>3, <2>5 DEF TaskInv, Carried
    <2> QED
      BY <2>1, <2>6, <2>7 DEF TaskInv
  <1>5. CASE HandshakeFails(p)
    <2>1. /\ UNCHANGED <<open, mem, disk, nsent, posted, shown, poll, sending,
                         receiving, box, pushes, parked>>
          /\ listening' \in [Peers -> BOOLEAN]
      BY <1>1, <1>5 DEF HandshakeFails, vaults, mailbox, history
    <2> QED
      BY <1>1, <2>1, TaskFrame, VaultFrame
  <1>6. ASSUME NEW q \in Peers, SendMessage(p, q)
        PROVE  VaultInv' /\ TaskInv'
    <2>1. VaultInv'
      BY <1>6, SendInv
    <2>2. /\ UNCHANGED <<poll, box, pushes, parked, listening, receiving>>
          /\ posted \subseteq posted'
          /\ \A t \in sending' :
               t \in sending \/ (t[1] \in posted' /\ t = <<t[1], "dial">>)
      BY <1>6 DEF SendMessage, NextSeq, loops, mailbox, history
    <2>3. posted' \subseteq Packets
      BY <2>1 DEF VaultInv, VaultTypeOK
    <2>4. sending' \subseteq Packets \X SendStages
      BY <1>1, <2>2, <2>3 DEF SendStages
    <2> QED
      BY <1>1, <2>1, <2>2, <2>4, TaskFrame
  <1>7. CASE SetSettings(p)
    <2>1. VaultInv'
      BY <1>7, SaveInv
    <2>2. UNCHANGED <<listening, poll, sending, receiving, box, pushes, parked,
                      posted>>
      BY <1>7 DEF SetSettings, loops, mailbox, history
    <2> QED
      BY <1>1, <2>1, <2>2, TaskFrame
  <1> QED
    BY <1>2, <1>3, <1>4, <1>5, <1>6, <1>7 DEF PeerStep

\* Only messages that were on their way are turned down or abandoned.
LEMMA LossesStep ==
  ASSUME VaultInv, TaskInv, LossesOK, [Next]_vars
  PROVE  LossesOK'
  <1> USE DEF LossesOK
  <1>1. /\ sending \subseteq Packets \X SendStages
        /\ receiving \subseteq Packets \X ReceiveStages
        /\ \A p \in Peers, l \in Loops : \A e \in poll[p][l].batch :
             e.pkt \in Packets
    <2>1. posted \subseteq Packets
      BY DEF VaultInv, VaultTypeOK
    <2> QED
      BY <2>1 DEF TaskInv, TaskTypeOK, Carried
  <1>2. \A p, m : Incoming(p, m) => refused' \subseteq refused \union {m}
    BY DEF Incoming, StoreIncoming
  <1>3. ASSUME NEW p \in Peers, PeerStep(p) PROVE LossesOK'
    <2>1. CASE Crash(p)
      <3>1. /\ \A t \in sending : t[1] \in Packets
            /\ \A r \in receiving : r[1] \in Packets
        BY <1>1
      <3> QED
        BY <2>1, <3>1 DEF Crash
    <2>2. CASE ~ Crash(p)
      BY <1>3, <2>2 DEF PeerStep, Unlock, Lock, HandshakeFails, SetSettings,
                        SendMessage, history
    <2> QED
      BY <2>1, <2>2
  <1>4. ASSUME NEW m \in Packets, TaskStep(m) PROVE LossesOK'
    <2>1. CASE ProcessDirect(m)
      BY <1>2, <2>1 DEF ProcessDirect
    <2>2. CASE Park(m)
      BY <2>2 DEF Park
    <2>3. CASE Dial(m) \/ DirectFails(m) \/ AckArrives(m) \/ ReadFrame(m)
               \/ ReadBreaks(m) \/ CloseSeen(m)
      BY <2>3 DEF Dial, DirectFails, AckArrives, ReadFrame, ReadBreaks,
                  CloseSeen, history
    <2> QED
      BY <1>4, <2>1, <2>2, <2>3 DEF TaskStep
  <1>5. ASSUME NEW p \in Peers, NEW l \in Loops, LoopStep(p, l) PROVE LossesOK'
    <2>1. CASE HandleEntry(p, l)
      <3>1. PICK e \in poll[p][l].batch : Incoming(p, e.pkt)
        BY <2>1 DEF HandleEntry, Oldest
      <3>2. UNCHANGED abandoned
        BY <2>1 DEF HandleEntry
      <3> QED
        BY <1>1, <1>2, <3>1, <3>2
    <2>2. CASE CheckUnlocked(p, l) \/ Pull(p, l) \/ PullFails(p, l) \/ Ack(p, l)
      BY <2>2 DEF CheckUnlocked, Pull, PullFails, Ack, history
    <2> QED
      BY <1>5, <2>1, <2>2 DEF LoopStep
  <1>6. CASE UNCHANGED vars
    BY <1>6 DEF vars
  <1> QED
    BY <1>3, <1>4, <1>5, <1>6 DEF Next

-----------------------------------------------------------------------------
(* The theorems. *)

LEMMA StepInv == IInv /\ [Next]_vars => IInv'
  <1> SUFFICES ASSUME VaultInv, TaskInv, LossesOK, [Next]_vars
               PROVE  VaultInv' /\ TaskInv'
    <2>1. VaultInv' /\ TaskInv' /\ LossesOK' => IInv'
      BY DEF IInv, TaskInv, TypeOK, VaultInv, VaultTypeOK, TaskTypeOK, LossesOK
    <2> QED
      BY <2>1, Halves, LossesStep
  <1>1. CASE Next
    BY <1>1, PeerStepInv, TaskStepInv, LoopStepInv DEF Next
  <1>2. CASE UNCHANGED vars
    <2>1. VaultInv'
      BY <1>2, VaultFrame DEF vars
    <2>2. TaskInv'
      BY <1>2, TaskFrame DEF vars, TaskInv, TaskTypeOK, Carried
    <2> QED
      BY <2>1, <2>2
  <1> QED
    BY <1>1, <1>2

\* The inductive invariant holds throughout.
THEOREM Inductive == Spec => []IInv
  BY InitInv, StepInv, PTL DEF Spec

\* Every variable keeps its type.
THEOREM TypeCorrect == Spec => []TypeOK
  <1>1. IInv => TypeOK
    BY DEF IInv
  <1> QED
    BY <1>1, Inductive, PTL

\* No vault ever holds a message twice, however many connections and poll
\* loops bring it, whatever fails.
THEOREM DeliversAtMostOnce == Spec => []AtMostOnce
  <1>1. IInv => AtMostOnce
    BY DEF IInv, VaultInv
  <1> QED
    BY <1>1, Inductive, PTL

\* No number is given to two messages that leave a peer, through failed
\* saves, locks and restarts.
THEOREM NumbersAreUnique == Spec => []SeqNeverReused
  <1>1. IInv => SeqNeverReused
    BY DEF IInv, VaultInv
  <1> QED
    BY <1>1, Inductive, PTL

\* What the user was shown is in the vault file.
THEOREM ShowsOnlyDurable == Spec => []ShownIsDurable
  <1>1. IInv => ShownIsDurable
    BY DEF IInv, VaultInv
  <1> QED
    BY <1>1, Inductive, PTL

-----------------------------------------------------------------------------
(* Delivery implements Channel. *)

\* Handling a packet shows it to the user for the first time, or nothing.
LEMMA IncomingShows ==
  ASSUME VaultInv, NEW m \in posted, Incoming(m.to, m), UNCHANGED posted
  PROVE  Promise!Show(m) \/ UNCHANGED shown
  <1>1. m \in Packets /\ m.to \in Peers
    BY DEF VaultInv, VaultTypeOK, Packets
  <1> SUFFICES ASSUME /\ open[m.to]
                      /\ ~ HasIncoming(mem[m.to], m)
                      /\ shown' = [shown EXCEPT ![m.to] = Append(@, m)]
               PROVE  Promise!Show(m)
    BY DEF Incoming, StoreIncoming
  <1>2. Range(shown[m.to]) \subseteq Range(mem[m.to].in)
    BY <1>1 DEF VaultInv, ShownIsDurable, DiskInMem
  <1>3. \A n \in Range(shown[m.to]) : ~ Promise!SameName(m, n)
    BY <1>2 DEF HasIncoming, Promise!SameName
  <1> QED
    BY <1>3 DEF Promise!Show, Promise!Range, Range

LEMMA StepImplements ==
  ASSUME IInv, IInv', [Next]_vars
  PROVE  [Promise!Next]_<<posted, shown>>
  <1>0. VaultInv /\ TaskInv /\ VaultInv'
    BY Halves DEF IInv
  <1>1. ASSUME NEW p \in Peers, PeerStep(p)
        PROVE  [Promise!Next]_<<posted, shown>>
    <2>1. CASE Unlock(p) \/ Lock(p) \/ Crash(p) \/ HandshakeFails(p)
               \/ SetSettings(p)
      BY <2>1 DEF Unlock, Lock, Crash, HandshakeFails, SetSettings, history
    <2>2. ASSUME NEW q \in Peers, SendMessage(p, q)
          PROVE  [Promise!Next]_<<posted, shown>>
      <3>1. PICK m : posted' = posted \union {m} \/ posted' = posted
        BY <2>2 DEF SendMessage, NextSeq
      <3>2. UNCHANGED shown
        BY <2>2 DEF SendMessage, NextSeq
      <3>3. CASE posted' = posted
        BY <3>2, <3>3
      <3>4. CASE posted' = posted \union {m} /\ m \notin posted
        <4>1. m \in Packets
          BY <1>0, <3>4 DEF VaultInv, VaultTypeOK
        <4>2. \A n \in posted : ~ Promise!SameName(m, n)
          BY <1>0, <3>4 DEF VaultInv, SeqNeverReused, SameName, Promise!SameName
        <4> QED
          BY <3>2, <3>4, <4>1, <4>2 DEF Promise!Post, Promise!Next
      <3> QED
        BY <3>1, <3>3, <3>4
    <2> QED
      BY <1>1, <2>1, <2>2 DEF PeerStep
  <1>2. ASSUME NEW m \in Packets, TaskStep(m)
        PROVE  [Promise!Next]_<<posted, shown>>
    <2>1. CASE ProcessDirect(m)
      <3>1. m \in posted
        BY <1>0, <2>1 DEF ProcessDirect, TaskInv, Carried
      <3>2. UNCHANGED posted /\ (Promise!Show(m) \/ UNCHANGED shown)
        BY <1>0, <2>1, <3>1, IncomingShows DEF ProcessDirect
      <3> QED
        BY <3>2 DEF Promise!Next
    <2>2. CASE ~ ProcessDirect(m)
      BY <1>2, <2>2
      DEF TaskStep, Dial, DirectFails, AckArrives, Park, ReadFrame, ReadBreaks,
          CloseSeen, history
    <2> QED
      BY <2>1, <2>2
  <1>3. ASSUME NEW p \in Peers, NEW l \in Loops, LoopStep(p, l)
        PROVE  [Promise!Next]_<<posted, shown>>
    <2>1. CASE HandleEntry(p, l)
      <3>1. PICK e \in poll[p][l].batch : Incoming(p, e.pkt)
        BY <2>1 DEF HandleEntry, Oldest
      <3>2. e.pkt \in posted /\ e.pkt.to = p
        BY <1>0 DEF TaskInv, Carried
      <3>3. UNCHANGED posted
        BY <2>1 DEF HandleEntry
      <3>4. Promise!Show(e.pkt) \/ UNCHANGED shown
        BY <1>0, <3>1, <3>2, <3>3, IncomingShows
      <3>5. e.pkt \in Packets
        BY <1>0, <3>2 DEF VaultInv, VaultTypeOK
      <3> QED
        BY <3>3, <3>4, <3>5 DEF Promise!Next
    <2>2. CASE ~ HandleEntry(p, l)
      BY <1>3, <2>2 DEF LoopStep, CheckUnlocked, Pull, PullFails, Ack, AckIds, history
    <2> QED
      BY <2>1, <2>2
  <1>4. CASE UNCHANGED vars
    BY <1>4 DEF vars
  <1> QED
    BY <1>1, <1>2, <1>3, <1>4 DEF Next

\* To its two users, delivery is a channel that shows each message at most
\* once and none that was not posted.
THEOREM Implements == Spec => ImplementsChannel
  <1>1. Init => Promise!Init
    BY DEF Init, Promise!Init
  <1>2. IInv /\ IInv' /\ [Next]_vars => [Promise!Next]_Promise!cvars
    BY StepImplements DEF Promise!cvars
  <1> QED
    BY <1>1, <1>2, Inductive, PTL DEF Spec, ImplementsChannel, Promise!Spec

-----------------------------------------------------------------------------
(* No message goes astray unnoticed. *)

\* A handled message is in the file of its addressee or was turned down.
Settled(m) == Stored(m) \/ m \in refused

\* What a vault holds in memory and what a poll loop is about to ack is
\* settled: why a duplicate may be dropped and a batch acked.
Accounted ==
  /\ \A p \in Peers : \A m \in Range(mem[p].in) : Settled(m)
  /\ \A p \in Peers, l \in Loops : \A e \in poll[p][l].done : Settled(e.pkt)
  /\ ParkedUntilHandled
  /\ NeverDropped

\* A step that keeps what the files hold and what was turned down or abandoned.
Grows ==
  /\ \A r \in Peers : Range(disk[r].in) \subseteq Range(disk'[r].in)
  /\ refused \subseteq refused'
  /\ abandoned \subseteq abandoned'

\* A step after which every message a task carried is still carried, or has
\* reached the mailbox, or is settled or abandoned; a new one has its task.
HandsOn ==
  /\ \A m \in posted' : m \in posted \/ <<m, "dial">> \in sending'
  /\ \A m \in posted, s \in SendStages : <<m, s>> \in sending =>
       \/ \E t \in SendStages : <<m, t>> \in sending'
       \/ \E t \in {"close", "ready"} : <<m, t>> \in receiving'
       \/ InBox(m)' \/ m \in abandoned'
  /\ \A m \in posted, s \in {"close", "ready"} : <<m, s>> \in receiving =>
       \/ \E t \in {"close", "ready"} : <<m, t>> \in receiving'
       \/ Settled(m)' \/ m \in abandoned'

\* A step that leaves in the mailbox what is not settled.
KeepsParked ==
  /\ \A r \in Peers : \A e \in box[r] : e \in box'[r] \/ Settled(e.pkt)'
  /\ \A m \in parked' : m \in parked \/ InBox(m)'

LEMMA TasksFrame ==
  ASSUME UNCHANGED <<sending, receiving, posted>>
  PROVE  HandsOn
  BY DEF HandsOn

LEMMA ParkedFrame ==
  ASSUME UNCHANGED <<box, parked>>
  PROVE  KeepsParked
  BY DEF KeepsParked

LEMMA SettledStays ==
  ASSUME Grows, NEW m \in Packets, Settled(m)
  PROVE  Settled(m)'
  BY DEF Grows, Settled, Stored, Packets

\* process_incoming settles the packet and unsettles none.
LEMMA IncomingSettles ==
  ASSUME VaultInv, NEW p \in Peers, NEW m \in posted, m.to = p,
         \A n \in Range(mem[p].in) : Settled(n),
         Incoming(p, m), abandoned \subseteq abandoned'
  PROVE  /\ Grows
         /\ Settled(m)'
         /\ \A r \in Peers : \A n \in Range(mem'[r].in) :
              n = m \/ n \in Range(mem[r].in)
  <1>1. /\ mem[p] \in Vaults /\ m \in Packets /\ mem[p].in \in Seq(Packets)
        /\ open[p] => Range(disk[p].in) \subseteq Range(mem[p].in)
    BY VaultFields DEF VaultInv, VaultTypeOK, DiskInMem
  <1>2. CASE ~ open[p]
    BY <1>2 DEF Incoming, StoreIncoming, Grows, Settled
  <1>3. CASE open[p] /\ HasIncoming(mem[p], m)
    <2>1. PICK n \in Range(mem[p].in) :
            n.from = m.from /\ n.to = m.to /\ n.seq = m.seq
      BY <1>3 DEF HasIncoming
    <2>2. n = m
      BY <2>1 DEF VaultInv, Genuine, SeqNeverReused, SameName
    <2>3. UNCHANGED <<mem, disk, refused>>
      BY <1>3 DEF Incoming
    <2>4. Grows
      BY <2>3 DEF Grows
    <2> QED
      BY <1>1, <2>1, <2>2, <2>3, <2>4, SettledStays
  <1>4. CASE open[p] /\ ~ HasIncoming(mem[p], m)
    <2> DEFINE v == [mem[p] EXCEPT !.in = Append(@, m)]
    <2>1. v.in = Append(mem[p].in, m)
      <3>1. mem[p] = [out |-> mem[p].out, in |-> mem[p].in]
        BY <1>1 DEF Vaults
      <3> QED
        BY <3>1
    <2>2. Range(v.in) = Range(mem[p].in) \union {m}
      BY <1>1, <2>1, AppendRange
    <2>3. /\ mem' = [mem EXCEPT ![p] = v]
          /\ \/ disk' = [disk EXCEPT ![p] = v] /\ refused' = refused
             \/ disk' = disk /\ refused' = refused \union {m}
      BY <1>4 DEF Incoming, StoreIncoming
    <2> HIDE DEF v
    <2>4. \A r \in Peers : mem'[r] = IF r = p THEN v ELSE mem[r]
      BY <2>3 DEF VaultInv, VaultTypeOK
    <2>5. \A r \in Peers : disk'[r] = disk[r] \/ (r = p /\ disk'[r] = v)
      BY <2>3 DEF VaultInv, VaultTypeOK
    <2>6. Grows
      BY <1>1, <1>4, <2>2, <2>3, <2>5 DEF Grows
    <2>7. Settled(m)'
      BY <2>2, <2>3 DEF Settled, Stored, VaultInv, VaultTypeOK
    <2> QED
      BY <2>2, <2>4, <2>6, <2>7
  <1> QED
    BY <1>2, <1>3, <1>4

\* A step keeps every message accounted for when it settles nothing anew but
\* what it puts into memory or into an ack, leaves in the mailbox what is not
\* settled, and hands on the messages that the tasks carry.
LEMMA AccountedGrows ==
  ASSUME Accounted, parked \subseteq Packets, posted \subseteq Packets, Grows,
         \A r \in Peers : \A m \in Range(mem'[r].in) :
           Settled(m)' \/ (m \in Range(mem[r].in) /\ m \in Packets),
         \A r \in Peers, k \in Loops : \A e \in poll'[r][k].done :
           Settled(e.pkt)' \/ (e \in poll[r][k].done /\ e.pkt \in Packets),
         KeepsParked, HandsOn
  PROVE  Accounted'
  <1>1. \A m \in Packets : Settled(m) => Settled(m)'
    BY SettledStays
  <1>2. \A m \in Packets : InBox(m) => (InBox(m) \/ Settled(m))'
    <2> SUFFICES ASSUME NEW m \in Packets, InBox(m)
                 PROVE  InBox(m)' \/ Settled(m)'
      OBVIOUS
    <2>1. PICK e \in box[m.to] : e.pkt = m
      BY DEF InBox
    <2>2. m.to \in Peers
      BY DEF Packets
    <2> QED
      BY <2>1, <2>2 DEF InBox, KeepsParked
  <1>3. \A p \in Peers : \A m \in Range(mem'[p].in) : Settled(m)'
    BY <1>1 DEF Accounted
  <1>4. \A p \in Peers, l \in Loops : \A e \in poll'[p][l].done : Settled(e.pkt)'
    BY <1>1 DEF Accounted
  <1>5. ParkedUntilHandled'
    <2>1. \A m \in parked : (InBox(m) \/ Settled(m))'
      BY <1>1, <1>2 DEF Accounted, ParkedUntilHandled, Settled
    <2> QED
      BY <2>1 DEF ParkedUntilHandled, Settled, KeepsParked
  <1>6. NeverDropped'
    <2> DEFINE
      Held(m) == \/ Settled(m) \/ InBox(m)
                 \/ \E s \in SendStages : <<m, s>> \in sending
                 \/ \E s \in {"close", "ready"} : <<m, s>> \in receiving
                 \/ m \in abandoned
    <2>1. \A m \in posted : Held(m)
      BY DEF Accounted, NeverDropped, Settled
    <2>2. \A m \in posted : Held(m)'
      BY <1>1, <1>2, <2>1 DEF Grows, HandsOn
    <2>3. \A m \in posted' : Held(m)'
      BY <2>2 DEF SendStages, HandsOn
    <2> QED
      BY <2>3 DEF NeverDropped, Settled
  <1> QED
    BY <1>3, <1>4, <1>5, <1>6 DEF Accounted

LEMMA AccountedStep ==
  ASSUME IInv, Accounted, [Next]_vars
  PROVE  Accounted'
  <1>0. VaultInv /\ TaskInv /\ TaskTypeOK /\ VaultTypeOK /\ LossesOK
    BY Halves DEF TaskInv, VaultInv
  <1>1. /\ parked \subseteq Packets /\ posted \subseteq Packets
        /\ \A p \in Peers : \A m \in Range(mem[p].in) : m \in Packets
        /\ \A p \in Peers, l \in Loops :
             /\ poll[p][l] \in LoopStates
             /\ \A e \in poll[p][l].done : e.pkt \in Packets
    <2>1. \A p \in Peers, l \in Loops : poll[p][l] \in LoopStates
      BY <1>0 DEF TaskTypeOK
    <2>2. \A p \in Peers, l \in Loops : \A e \in poll[p][l].done : e.pkt \in Packets
      BY <2>1 DEF LoopStates, Entries
    <2>3. \A p \in Peers : mem[p] \in Vaults
      BY <1>0 DEF VaultTypeOK
    <2>4. \A p \in Peers : \A m \in Range(mem[p].in) : m \in Packets
      BY <2>3, VaultFields
    <2> QED
      BY <1>0, <2>1, <2>2, <2>4 DEF TaskTypeOK, VaultTypeOK
  <1>2. ASSUME NEW p \in Peers, Unlock(p) PROVE Accounted'
    <2>1. PICK l \in Loops : poll' = [poll EXCEPT ![p][l].pc = "top"]
      BY <1>2 DEF Unlock
    <2>2. \A r \in Peers, k \in Loops : poll'[r][k].done = poll[r][k].done
      <3>1. [poll[p][l] EXCEPT !.pc = "top"].done = poll[p][l].done
        BY <1>1 DEF LoopStates
      <3> QED
        BY <1>0, <2>1, <3>1 DEF TaskTypeOK
    <2>3. /\ mem' = [mem EXCEPT ![p] = disk[p]]
          /\ UNCHANGED <<disk, sending, receiving, box, parked, posted,
                         refused, abandoned>>
      BY <1>2 DEF Unlock, mailbox, history
    <2>4. \A r \in Peers : mem'[r] = IF r = p THEN disk[r] ELSE mem[r]
      BY <1>0, <2>3 DEF VaultTypeOK
    <2>5. \A m \in Range(disk[p].in) : Settled(m)'
      BY <1>0, <2>3 DEF VaultInv, Genuine, Settled, Stored
    <2>6. \A r \in Peers : \A m \in Range(mem'[r].in) :
            Settled(m)' \/ (m \in Range(mem[r].in) /\ m \in Packets)
      BY <1>1, <2>4, <2>5
    <2>7. Grows /\ HandsOn /\ KeepsParked
      BY <2>3, TasksFrame, ParkedFrame DEF Grows
    <2> QED
      BY <1>1, <2>2, <2>6, <2>7, AccountedGrows
  <1>3. ASSUME NEW p \in Peers, Lock(p) PROVE Accounted'
    <2>1. /\ mem' = [mem EXCEPT ![p] = EmptyVault]
          /\ UNCHANGED <<disk, poll, sending, receiving, box, parked, posted,
                         refused, abandoned>>
      BY <1>3 DEF Lock, loops, mailbox, history
    <2>2. \A r \in Peers : Range(mem'[r].in) \subseteq Range(mem[r].in)
      BY <1>0, <2>1, VaultFields DEF VaultTypeOK
    <2>3. Grows /\ HandsOn /\ KeepsParked
      BY <2>1, TasksFrame, ParkedFrame DEF Grows
    <2> QED
      BY <1>1, <2>1, <2>2, <2>3, AccountedGrows
  <1>4. ASSUME NEW p \in Peers, Crash(p) PROVE Accounted'
    <2>1. /\ mem' = [mem EXCEPT ![p] = EmptyVault]
          /\ poll' = [poll EXCEPT ![p] = [l \in Loops |-> IdleLoop]]
          /\ UNCHANGED <<disk, box, parked, posted, refused>>
      BY <1>4 DEF Crash, mailbox
    <2>2. \A r \in Peers : Range(mem'[r].in) \subseteq Range(mem[r].in)
      BY <1>0, <2>1, VaultFields DEF VaultTypeOK
    <2>3. \A r \in Peers, k \in Loops : poll'[r][k].done \subseteq poll[r][k].done
      BY <1>0, <2>1 DEF TaskTypeOK, IdleLoop
    <2>4. abandoned \subseteq abandoned'
      BY <1>4 DEF Crash
    <2>5. \A m \in posted, s \in SendStages : <<m, s>> \in sending =>
            <<m, s>> \in sending' \/ m \in abandoned'
      BY <1>4 DEF Crash
    <2>6. \A m \in posted, s \in {"close", "ready"} : <<m, s>> \in receiving =>
            <<m, s>> \in receiving' \/ m \in abandoned'
      <3>1. receiving' = {r \in receiving : r[1].to # p}
            /\ {r[1] : r \in {r \in receiving : r[1].to = p /\ r[2] # "read"}}
                 \subseteq abandoned'
        BY <1>4 DEF Crash
      <3> SUFFICES ASSUME NEW m \in posted, NEW s \in {"close", "ready"},
                          <<m, s>> \in receiving, m.to = p
                   PROVE  m \in abandoned'
        BY <3>1
      <3>2. <<m, s>>[1].to = p /\ <<m, s>>[2] # "read"
        OBVIOUS
      <3>3. <<m, s>> \in {r \in receiving : r[1].to = p /\ r[2] # "read"}
        BY <3>2
      <3>4. <<m, s>>[1] = m
        OBVIOUS
      <3> QED
        BY <3>1, <3>3, <3>4
    <2>7. HandsOn
      BY <2>1, <2>5, <2>6 DEF HandsOn
    <2>8. Grows /\ KeepsParked
      BY <2>1, <2>4, ParkedFrame DEF Grows
    <2> QED
      BY <1>1, <2>2, <2>3, <2>7, <2>8, AccountedGrows
  <1>5. ASSUME NEW p \in Peers, NEW q \in Peers, SendMessage(p, q)
        PROVE  Accounted'
    <2> DEFINE v == [mem[p] EXCEPT !.out[q] = @ + 1]
    <2>1. /\ mem' = [mem EXCEPT ![p] = v]
          /\ disk' = [disk EXCEPT ![p] = v] \/ disk' = disk
          /\ open[p]
          /\ UNCHANGED <<poll, receiving, box, parked, refused, abandoned>>
      BY <1>5 DEF SendMessage, NextSeq, loops, mailbox
    <2>2. v.in = mem[p].in
      <3>1. mem[p] = [out |-> mem[p].out, in |-> mem[p].in]
        BY <1>0 DEF VaultTypeOK, Vaults
      <3> QED
        BY <3>1
    <2> HIDE DEF v
    <2>3. \A r \in Peers : mem'[r].in = mem[r].in
      BY <1>0, <2>1, <2>2 DEF VaultTypeOK
    <2>4. \A r \in Peers : disk'[r].in = disk[r].in
                           \/ (r = p /\ disk'[r].in = mem[r].in)
      BY <1>0, <2>1, <2>2 DEF VaultTypeOK
    <2>5. Range(disk[p].in) \subseteq Range(mem[p].in)
      BY <1>0, <2>1 DEF VaultInv, DiskInMem
    <2>6. Grows /\ KeepsParked
      BY <2>1, <2>4, <2>5, ParkedFrame DEF Grows
    <2>7. sending \subseteq sending'
          /\ \A m \in posted' : m \in posted \/ <<m, "dial">> \in sending'
      BY <1>5 DEF SendMessage, NextSeq
    <2>8. HandsOn
      BY <2>1, <2>7 DEF HandsOn
    <2> QED
      BY <1>1, <2>1, <2>3, <2>6, <2>8, AccountedGrows
  <1>6. ASSUME NEW m \in Packets, ProcessDirect(m) PROVE Accounted'
    <2>1. m \in posted /\ m.to \in Peers
      BY <1>0, <1>6 DEF ProcessDirect, TaskInv, Carried, Packets
    <2>2. /\ UNCHANGED <<poll, sending, box, parked, posted, abandoned>>
          /\ receiving' = receiving \ {<<m, "ready">>}
      BY <1>6 DEF ProcessDirect, loops, mailbox
    <2>3. /\ Grows /\ Settled(m)'
          /\ \A r \in Peers : \A n \in Range(mem'[r].in) :
               n = m \/ n \in Range(mem[r].in)
      BY <1>0, <1>6, <2>1, <2>2, IncomingSettles DEF ProcessDirect, Accounted
    <2>4. HandsOn
      BY <2>2, <2>3 DEF HandsOn
    <2>5. KeepsParked
      BY <2>2, ParkedFrame
    <2> QED
      BY <1>1, <2>2, <2>3, <2>4, <2>5, AccountedGrows
  <1>7. ASSUME NEW m \in Packets, Park(m) PROVE Accounted'
    <2>1. /\ UNCHANGED <<mem, disk, poll, receiving, posted, refused>>
          /\ sending' = sending \ {<<m, "park">>}
          /\ \/ /\ box' = [box EXCEPT ![m.to] =
                              @ \union {[id |-> pushes, pkt |-> m]}]
                /\ parked' = parked \union {m}
                /\ UNCHANGED abandoned
             \/ /\ abandoned' = abandoned \union {m}
                /\ UNCHANGED <<box, parked>>
      BY <1>7 DEF Park, vaults, loops, mailbox
    <2>2. \A r \in Peers : box[r] \subseteq box'[r]
      BY <1>0, <2>1 DEF TaskTypeOK
    <2>3. InBox(m)' \/ (m \in abandoned' /\ parked' = parked)
      <3>1. CASE box' = [box EXCEPT ![m.to] =
                           @ \union {[id |-> pushes, pkt |-> m]}]
        <4>1. [id |-> pushes, pkt |-> m] \in box'[m.to]
          BY <1>0, <3>1 DEF TaskTypeOK, Packets
        <4> QED
          BY <4>1 DEF InBox
      <3> QED
        BY <2>1, <3>1
    <2>4. KeepsParked
      BY <2>1, <2>2, <2>3 DEF KeepsParked
    <2>5. HandsOn
      BY <2>1, <2>3 DEF HandsOn
    <2>6. Grows
      BY <2>1 DEF Grows
    <2> QED
      BY <1>1, <2>1, <2>4, <2>5, <2>6, AccountedGrows
  <1>8. ASSUME NEW m \in Packets,
               Dial(m) \/ DirectFails(m) \/ AckArrives(m) \/ ReadFrame(m)
               \/ ReadBreaks(m) \/ CloseSeen(m)
        PROVE  Accounted'
    <2>1. UNCHANGED <<mem, disk, poll, box, parked, posted, refused, abandoned>>
      BY <1>8 DEF Dial, DirectFails, AckArrives, ReadFrame, ReadBreaks,
                  CloseSeen, vaults, loops, mailbox, history
    <2>2. HandsOn
      <3>1. \A n \in posted, s \in SendStages : <<n, s>> \in sending =>
              \/ \E t \in SendStages : <<n, t>> \in sending'
              \/ \E t \in {"close", "ready"} : <<n, t>> \in receiving'
        BY <1>8 DEF Dial, DirectFails, AckArrives, ReadFrame, ReadBreaks,
                    CloseSeen, Move, SendStages
      <3>2. \A n \in posted, s \in {"close", "ready"} : <<n, s>> \in receiving =>
              \E t \in {"close", "ready"} : <<n, t>> \in receiving'
        BY <1>8 DEF Dial, DirectFails, AckArrives, ReadFrame, ReadBreaks,
                    CloseSeen, Move
      <3> QED
        BY <2>1, <3>1, <3>2 DEF HandsOn
    <2>3. Grows /\ KeepsParked
      BY <2>1, ParkedFrame DEF Grows
    <2> QED
      BY <1>1, <2>1, <2>2, <2>3, AccountedGrows
  <1>9. ASSUME NEW p \in Peers, NEW l \in Loops, HandleEntry(p, l) PROVE Accounted'
    <2>1. PICK e \in poll[p][l].batch :
            /\ poll' = [poll EXCEPT ![p][l].batch = @ \ {e},
                                    ![p][l].done = @ \union {e}]
            /\ Incoming(p, e.pkt)
      BY <1>9 DEF HandleEntry, Oldest
    <2>2. UNCHANGED <<sending, receiving, box, parked, posted, abandoned>>
      BY <1>9 DEF HandleEntry, mailbox
    <2>3. e.pkt \in posted /\ e.pkt.to = p
      BY <1>0 DEF TaskInv, Carried
    <2>4. /\ Grows /\ Settled(e.pkt)'
          /\ \A r \in Peers : \A n \in Range(mem'[r].in) :
               n = e.pkt \/ n \in Range(mem[r].in)
      BY <1>0, <2>1, <2>2, <2>3, IncomingSettles DEF Accounted
    <2> DEFINE s == [poll[p][l] EXCEPT !.batch = @ \ {e},
                                      !.done = @ \union {e}]
    <2>5. s.done = poll[p][l].done \union {e}
      BY <1>1 DEF LoopStates
    <2>6. poll' = [poll EXCEPT ![p][l] = s]
      BY <1>0, <2>1 DEF TaskTypeOK
    <2> HIDE DEF s
    <2>7. \A r \in Peers, k \in Loops :
            \A d \in poll'[r][k].done : d \in poll[r][k].done \/ d = e
      BY <1>0, <2>5, <2>6 DEF TaskTypeOK
    <2>8. HandsOn /\ KeepsParked
      BY <2>2, TasksFrame, ParkedFrame
    <2> QED
      BY <1>1, <2>4, <2>7, <2>8, AccountedGrows
  <1>10. ASSUME NEW p \in Peers, NEW l \in Loops, Ack(p, l) PROVE Accounted'
    <2>1. /\ UNCHANGED <<mem, disk, sending, receiving, parked, posted, refused,
                         abandoned>>
          /\ poll' = [poll EXCEPT ![p][l] = [IdleLoop EXCEPT !.pc = "top"]]
          /\ box' = box \/ box' = [box EXCEPT ![p] = @ \ poll[p][l].done]
      BY <1>10 DEF Ack, AckIds, vaults, history
    <2>2. \A r \in Peers : \A e \in box[r] : e \in box'[r] \/ e \in poll[p][l].done
      BY <1>0, <2>1 DEF TaskTypeOK
    <2>3. [IdleLoop EXCEPT !.pc = "top"].done = {}
      BY DEF IdleLoop
    <2>4. \A r \in Peers, k \in Loops : poll'[r][k].done \subseteq poll[r][k].done
      BY <1>0, <2>1, <2>3 DEF TaskTypeOK
    <2>5. Grows /\ HandsOn
      BY <2>1, TasksFrame DEF Grows
    <2>6. \A e \in poll[p][l].done : Settled(e.pkt)'
      BY <1>1, <2>5, SettledStays DEF Accounted
    <2>7. KeepsParked
      BY <2>1, <2>2, <2>6 DEF KeepsParked
    <2> QED
      BY <1>1, <2>1, <2>4, <2>5, <2>7, AccountedGrows
  <1>11. ASSUME NEW p \in Peers, NEW l \in Loops,
                CheckUnlocked(p, l) \/ Pull(p, l) \/ PullFails(p, l)
         PROVE  Accounted'
    <2>1. UNCHANGED <<mem, disk, sending, receiving, box, parked, posted, refused,
                      abandoned>>
      BY <1>11 DEF CheckUnlocked, Pull, PullFails, vaults, mailbox, history
    <2>2. PICK s : /\ poll' = [poll EXCEPT ![p][l] = s]
                   /\ s.done \subseteq poll[p][l].done
      <3>1. CASE Pull(p, l)
        <4> DEFINE t == [pc |-> "work", batch |-> Oldest(box[p], PullLimit),
                         done |-> {}]
        <4>1. poll' = [poll EXCEPT ![p][l] = t] /\ t.done = {}
          BY <3>1 DEF Pull
        <4> HIDE DEF t
        <4> QED
          BY <4>1
      <3>2. CASE CheckUnlocked(p, l) \/ PullFails(p, l)
        <4>1. PICK c : poll' = [poll EXCEPT ![p][l].pc = c]
          BY <3>2 DEF CheckUnlocked, PullFails
        <4>2. [poll[p][l] EXCEPT !.pc = c].done = poll[p][l].done
          BY <1>1 DEF LoopStates
        <4>3. poll' = [poll EXCEPT ![p][l] = [poll[p][l] EXCEPT !.pc = c]]
          BY <4>1
        <4> QED
          BY <4>2, <4>3
      <3> QED
        BY <1>11, <3>1, <3>2
    <2>3. \A r \in Peers, k \in Loops : poll'[r][k].done \subseteq poll[r][k].done
      BY <1>0, <2>2 DEF TaskTypeOK
    <2>4. Grows /\ HandsOn /\ KeepsParked
      BY <2>1, TasksFrame, ParkedFrame DEF Grows
    <2> QED
      BY <1>1, <2>1, <2>3, <2>4, AccountedGrows
  <1>12. ASSUME UNCHANGED <<mem, disk, poll, sending, receiving, box, parked,
                            posted, refused, abandoned>>
         PROVE  Accounted'
    <2>1. Grows /\ HandsOn /\ KeepsParked
      BY <1>12, TasksFrame, ParkedFrame DEF Grows
    <2> QED
      BY <1>1, <1>12, <2>1, AccountedGrows
  <1>13. ASSUME NEW p \in Peers, HandshakeFails(p) PROVE Accounted'
    BY <1>12, <1>13 DEF HandshakeFails, vaults, mailbox, history
  <1>14. CASE UNCHANGED vars
    BY <1>12, <1>14 DEF vars
  <1>15. ASSUME NEW p \in Peers, SetSettings(p) PROVE Accounted'
    <2>1. /\ disk' = [disk EXCEPT ![p] = mem[p]]
          /\ open[p]
          /\ UNCHANGED <<mem, poll, sending, receiving, box, parked, posted,
                         refused, abandoned>>
      BY <1>15 DEF SetSettings, loops, mailbox, history
    <2>2. \A r \in Peers : disk'[r] = IF r = p THEN mem[r] ELSE disk[r]
      BY <1>0, <2>1 DEF VaultTypeOK
    <2>3. Range(disk[p].in) \subseteq Range(mem[p].in)
      BY <1>0, <2>1 DEF VaultInv, DiskInMem
    <2>4. Grows /\ HandsOn /\ KeepsParked
      BY <2>1, <2>2, <2>3, TasksFrame, ParkedFrame DEF Grows
    <2> QED
      BY <1>1, <2>1, <2>4, AccountedGrows
  <1> QED
    BY <1>2, <1>3, <1>4, <1>5, <1>6, <1>7, <1>8, <1>9, <1>10, <1>11, <1>13,
       <1>14, <1>15
    DEF Next, PeerStep, TaskStep, LoopStep

\* Every posted message is accounted for throughout.
THEOREM AllAccounted == Spec => []Accounted
  <1>1. Init => Accounted
    BY DEF Init, Accounted, ParkedUntilHandled, NeverDropped, IdleLoop,
           EmptyVault, Range
  <1>2. IInv /\ Accounted /\ [Next]_vars => Accounted'
    BY AccountedStep
  <1> QED
    BY <1>1, <1>2, Inductive, PTL DEF Spec

\* A packet the mailbox has accepted stays there until the receiver has
\* stored it or turned it down, through crashes, locks, lost acks, failed
\* pulls and several poll loops at once.
THEOREM MailboxKeepsUntilHandled == Spec => []ParkedUntilHandled
  <1>1. Accounted => ParkedUntilHandled
    BY DEF Accounted
  <1> QED
    BY <1>1, AllAccounted, PTL

\* No hand-over drops a message: what was posted is stored, parked or carried
\* by a task, unless the receiver turned it down, its push failed or a process
\* ended with it.
THEOREM NothingDropped == Spec => []NeverDropped
  <1>1. Accounted => NeverDropped
    BY DEF Accounted
  <1> QED
    BY <1>1, AllAccounted, PTL
=============================================================================
