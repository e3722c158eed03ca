------------------------------ MODULE Delivery ------------------------------
(***************************************************************************)
(* How a 1:1 text message travels (net.rs, commands.rs, core/mailbox.rs,   *)
(* core/transport.rs, core/vault.rs, core/session.rs).                     *)
(*                                                                         *)
(* send_message stores the message in the sender's vault and spawns a task *)
(* that tries a direct QUIC delivery; when that fails or times out, the    *)
(* task parks the sealed packet in the addressee's mailbox.  The receiver  *)
(* has two ways in: a task per accepted connection, and a loop that polls  *)
(* the mailbox.  Both end in process_incoming, which drops duplicates,     *)
(* stores the message, saves the vault and tells the UI.                   *)
(*                                                                         *)
(* The peers are friends of each other and use the identity key (epoch 0), *)
(* so every packet opens; module DirectKeys is about the keys.             *)
(***************************************************************************)
EXTENDS Naturals, FiniteSets, Sequences, Functions

CONSTANTS
  Peers,      \* accounts
  Senders,    \* the peers whose users send
  MaxSend,    \* bound: messages a user sends
  Loops,      \* bound: poll loops of one process alive at the same time
  PullLimit,  \* Config.pull_limit of the mailbox
  Events      \* what may happen besides the normal course, see AllEvents

AllEvents ==
  { "lock",       \* the user locks the app
    "crash",      \* the process ends, orderly or not
    "save",       \* vault::save returns an error
    "push",       \* the mailbox refuses a packet or is unreachable
    "pull",       \* a pull fails
    "ack",        \* an ack fails
    "handshake" } \* an incoming connection fails in its handshake

ASSUME ConstantsAssumption ==
  /\ Senders \subseteq Peers
  /\ MaxSend \in Nat
  /\ PullLimit \in Nat \ {0}
  /\ Events \subseteq AllEvents

VARIABLES
  open,       \* peer -> the session holds the decrypted vault
  mem,        \* peer -> the decrypted vault (EmptyVault while locked)
  disk,       \* peer -> the vault file
  listening,  \* peer -> an accept loop is running
  poll,       \* peer -> loop -> what that poll loop is doing
  sending,    \* <<packet, stage>>: the deliver tasks
  receiving,  \* <<packet, stage>>: the connections of recv_frame
  box,        \* peer -> the entries parked for it
  pushes,     \* the mailbox's SEQ counter
  parked,     \* history: the packets the mailbox has accepted
  nsent,      \* history: peer -> send_message commands given
  posted,     \* history: the packets of the commands that returned Ok
  shown,      \* history: peer -> the packets of its MESSAGE_EVENTs, in order
  refused,    \* history: the packets process_incoming returned an error for
  abandoned   \* history: the packets whose task was killed or could not park

vaults   == <<open, mem, disk>>
loops    == <<listening, poll>>
mailbox  == <<box, pushes, parked>>
history  == <<nsent, posted, shown, refused, abandoned>>
vars == <<open, mem, disk, listening, poll, sending, receiving, box, pushes,
          parked, nsent, posted, shown, refused, abandoned>>

Packets == [from : Peers, to : Peers, seq : 0..MaxSend, body : 1..MaxSend]
Entries == [id : Nat, pkt : Packets]
Vaults  == [out : [Peers -> 0..MaxSend], in : Seq(Packets)]

SendStages    == {"dial", "wait", "park"}
ReceiveStages == {"read", "close", "ready"}
IdleLoop == [pc |-> "off", batch |-> {}, done |-> {}]
LoopStates ==
  [pc : {"off", "top", "pull", "work"},
   batch : SUBSET Entries, done : SUBSET Entries]

TypeOK ==
  /\ open \in [Peers -> BOOLEAN]
  /\ mem \in [Peers -> Vaults]
  /\ disk \in [Peers -> Vaults]
  /\ listening \in [Peers -> BOOLEAN]
  /\ poll \in [Peers -> [Loops -> LoopStates]]
  /\ sending \subseteq Packets \X SendStages
  /\ receiving \subseteq Packets \X ReceiveStages
  /\ box \in [Peers -> SUBSET Entries]
  /\ pushes \in Nat
  /\ parked \subseteq Packets
  /\ nsent \in [Peers -> 0..MaxSend]
  /\ posted \subseteq Packets
  /\ shown \in [Peers -> Seq(Packets)]
  /\ refused \subseteq Packets
  /\ abandoned \subseteq Packets

EmptyVault == [out |-> [q \in Peers |-> 0], in |-> <<>>]

Init ==
  /\ open = [p \in Peers |-> FALSE]
  /\ mem = [p \in Peers |-> EmptyVault]
  /\ disk = [p \in Peers |-> EmptyVault]
  /\ listening = [p \in Peers |-> FALSE]
  /\ poll = [p \in Peers |-> [l \in Loops |-> IdleLoop]]
  /\ sending = {}
  /\ receiving = {}
  /\ box = [p \in Peers |-> {}]
  /\ pushes = 0
  /\ parked = {}
  /\ nsent = [p \in Peers |-> 0]
  /\ posted = {}
  /\ shown = [p \in Peers |-> <<>>]
  /\ refused = {}
  /\ abandoned = {}

-----------------------------------------------------------------------------
(* The session: unlock, lock, and the end of the process.                  *)

\* Locked: the transport handle and the vault come and go together, and a
\* poll loop and an accept loop are started each time.  Old ones may still
\* be running; a second accept loop is indistinguishable from one.
Unlock(p) ==
  \E l \in Loops :
    /\ ~ open[p]
    /\ poll[p][l].pc = "off"
    /\ open' = [open EXCEPT ![p] = TRUE]
    /\ mem' = [mem EXCEPT ![p] = disk[p]]
    /\ listening' = [listening EXCEPT ![p] = TRUE]
    /\ poll' = [poll EXCEPT ![p][l].pc = "top"]
    /\ UNCHANGED <<disk, sending, receiving, mailbox, history>>

\* The accept loop and the poll loops are not told, and tasks go on.
Lock(p) ==
  /\ "lock" \in Events
  /\ open[p]
  /\ open' = [open EXCEPT ![p] = FALSE]
  /\ mem' = [mem EXCEPT ![p] = EmptyVault]
  /\ UNCHANGED <<disk, loops, sending, receiving, mailbox, history>>

\* Only the vault file survives; so does what is on the mailbox.
Crash(p) ==
  /\ "crash" \in Events
  /\ open' = [open EXCEPT ![p] = FALSE]
  /\ mem' = [mem EXCEPT ![p] = EmptyVault]
  /\ listening' = [listening EXCEPT ![p] = FALSE]
  /\ poll' = [poll EXCEPT ![p] = [l \in Loops |-> IdleLoop]]
  /\ sending' = {t \in sending : t[1].from # p}
  /\ receiving' = {r \in receiving : r[1].to # p}
  /\ abandoned' = abandoned
       \union {t[1] : t \in {t \in sending : t[1].from = p}}
       \union {r[1] : r \in {r \in receiving : r[1].to = p /\ r[2] # "read"}}
  /\ UNCHANGED <<disk, mailbox, nsent, posted, shown, refused>>

-----------------------------------------------------------------------------
(* The sender.                                                             *)

\* next_seq: the number of outgoing messages stored for the conversation.
\* (Mutants: the incoming ones are counted; the last number is used again.)
CountIncoming(v, q) == Cardinality({i \in DOMAIN v.in : v.in[i].from = q})
LastSeq(v, q) == v.out[q] - 1
NextSeq(v, q) == v.out[q]

\* send_message: number the message by the outgoing ones stored, add it,
\* save, and only then spawn deliver.  A failed save ends the command with
\* an error; the message stays in memory.
SendMessage(p, q) ==
  LET m == [from |-> p, to |-> q, seq |-> NextSeq(mem[p], q),
            body |-> nsent[p] + 1]
      v == [mem[p] EXCEPT !.out[q] = @ + 1]
  IN
  /\ p \in Senders
  /\ p # q
  /\ open[p]
  /\ nsent[p] < MaxSend
  /\ nsent' = [nsent EXCEPT ![p] = @ + 1]
  /\ mem' = [mem EXCEPT ![p] = v]
  /\ \/ /\ disk' = [disk EXCEPT ![p] = v]
        /\ posted' = posted \union {m}
        /\ sending' = sending \union {<<m, "dial">>}
     \/ /\ "save" \in Events
        /\ UNCHANGED <<disk, posted, sending>>
  /\ UNCHANGED <<open, loops, receiving, mailbox, shown, refused, abandoned>>

\* set_settings, like every command that saves: what an earlier failed save left
\* in memory gets into the file.
SetSettings(p) ==
  /\ open[p]
  /\ disk' = [disk EXCEPT ![p] = mem[p]]
  /\ UNCHANGED <<open, mem, loops, sending, receiving, mailbox, history>>

Move(tasks, m, from, to) == (tasks \ {<<m, from>>}) \union {<<m, to>>}

\* deliver: the transport reaches a peer that accepts, and the frame is
\* written; the task then awaits the acknowledgement.  The task's clone of
\* the transport outlives a lock, so the sender need not be unlocked any more.
Dial(m) ==
  /\ <<m, "dial">> \in sending
  /\ listening[m.to]
  /\ sending' = Move(sending, m, "dial", "wait")
  /\ receiving' = receiving \union {<<m, "read">>}
  /\ UNCHANGED <<vaults, loops, mailbox, history>>

\* (Mutant: a frame that was written is taken for delivered.)
GiveUpWaiting(m) ==
  /\ \/ /\ <<m, "dial">> \in sending
        /\ sending' = Move(sending, m, "dial", "park")
     \/ /\ <<m, "wait">> \in sending
        /\ sending' = sending \ {<<m, "wait">>}
  /\ UNCHANGED <<vaults, loops, receiving, mailbox, history>>

\* No transport, an unreachable peer, a broken connection or the timeout:
\* at any time before the acknowledgement is in, deliver gives up on the
\* direct path.
DirectFails(m) ==
  /\ \E s \in {"dial", "wait"} :
       /\ <<m, s>> \in sending
       /\ sending' = Move(sending, m, s, "park")
  /\ UNCHANGED <<vaults, loops, receiving, mailbox, history>>

AckArrives(m) ==
  /\ <<m, "wait">> \in sending
  /\ <<m, "close">> \in receiving
  /\ sending' = sending \ {<<m, "wait">>}
  /\ UNCHANGED <<vaults, loops, receiving, mailbox, history>>

\* The fallback; its failure is only logged.
Park(m) ==
  /\ <<m, "park">> \in sending
  /\ sending' = sending \ {<<m, "park">>}
  /\ \/ /\ box' = [box EXCEPT ![m.to] = @ \union {[id |-> pushes, pkt |-> m]}]
        /\ pushes' = pushes + 1
        /\ parked' = parked \union {m}
        /\ UNCHANGED abandoned
     \/ /\ "push" \in Events
        /\ abandoned' = abandoned \union {m}
        /\ UNCHANGED mailbox
  /\ UNCHANGED <<vaults, loops, receiving, nsent, posted, shown, refused>>

-----------------------------------------------------------------------------
(* The receiver.                                                           *)

\* (Mutant: only what is older than the newest stored is a duplicate.)
HasNewer(v, m) ==
  \E n \in Range(v.in) : n.from = m.from /\ n.to = m.to /\ n.seq > m.seq

HasIncoming(v, m) ==
  \E n \in Range(v.in) : n.from = m.from /\ n.to = m.to /\ n.seq = m.seq

\* (Mutant: the UI is told though the save failed.)
StoreAndShow(p, m) ==
  LET v == [mem[p] EXCEPT !.in = Append(@, m)]
  IN
  /\ mem' = [mem EXCEPT ![p] = v]
  /\ shown' = [shown EXCEPT ![p] = Append(@, m)]
  /\ \/ disk' = [disk EXCEPT ![p] = v] /\ UNCHANGED refused
     \/ /\ "save" \in Events
        /\ refused' = refused \union {m}
        /\ UNCHANGED disk

\* Add the message, save, and only then tell the UI.
StoreIncoming(p, m) ==
  LET v == [mem[p] EXCEPT !.in = Append(@, m)]
  IN
  /\ mem' = [mem EXCEPT ![p] = v]
  /\ \/ /\ disk' = [disk EXCEPT ![p] = v]
        /\ shown' = [shown EXCEPT ![p] = Append(@, m)]
        /\ UNCHANGED refused
     \/ /\ "save" \in Events
        /\ refused' = refused \union {m}
        /\ UNCHANGED <<disk, shown>>

\* emit_inbound and process_incoming, under the session mutex: refused while
\* locked, dropped when stored already, else stored, saved and shown.  The
\* caller does not learn which.
Incoming(p, m) ==
  \/ /\ ~ open[p]
     /\ refused' = refused \union {m}
     /\ UNCHANGED <<mem, disk, shown>>
  \/ /\ open[p]
     /\ HasIncoming(mem[p], m)
     /\ UNCHANGED <<mem, disk, shown, refused>>
  \/ /\ open[p]
     /\ ~ HasIncoming(mem[p], m)
     /\ StoreIncoming(p, m)

\* recv_frame: the frame is read and acknowledged ...
ReadFrame(m) ==
  /\ <<m, "read">> \in receiving
  /\ receiving' = Move(receiving, m, "read", "close")
  /\ UNCHANGED <<vaults, loops, sending, mailbox, history>>

\* ... or the connection breaks first ...
ReadBreaks(m) ==
  /\ <<m, "read">> \in receiving
  /\ receiving' = receiving \ {<<m, "read">>}
  /\ UNCHANGED <<vaults, loops, sending, mailbox, history>>

\* ... and recv_frame returns when the connection has closed, because the
\* sender closed it or because it broke.
CloseSeen(m) ==
  /\ <<m, "close">> \in receiving
  /\ receiving' = Move(receiving, m, "close", "ready")
  /\ UNCHANGED <<vaults, loops, sending, mailbox, history>>

ProcessDirect(m) ==
  /\ <<m, "ready">> \in receiving
  /\ receiving' = receiving \ {<<m, "ready">>}
  /\ Incoming(m.to, m)
  /\ UNCHANGED <<open, loops, sending, mailbox, nsent, posted, abandoned>>

\* Transport::accept turns a failed handshake into None, which ends the loop.
HandshakeFails(p) ==
  /\ "handshake" \in Events
  /\ listening[p]
  /\ listening' = [listening EXCEPT ![p] = FALSE]
  /\ UNCHANGED <<vaults, poll, sending, receiving, mailbox, history>>

-----------------------------------------------------------------------------
(* The poll loop.                                                          *)

CheckUnlocked(p, l) ==
  /\ poll[p][l].pc = "top"
  /\ poll' = [poll EXCEPT ![p][l].pc = IF open[p] THEN "pull" ELSE "off"]
  /\ UNCHANGED <<vaults, listening, sending, receiving, mailbox, history>>

\* The first k entries in arrival order.
Oldest(entries, k) ==
  {e \in entries : Cardinality({f \in entries : f.id < e.id}) < k}

Pull(p, l) ==
  /\ poll[p][l].pc = "pull"
  /\ poll' = [poll EXCEPT ![p][l] =
       [pc |-> "work", batch |-> Oldest(box[p], PullLimit), done |-> {}]]
  /\ UNCHANGED <<vaults, listening, sending, receiving, mailbox, history>>

\* (Mutant: a failed pull ends the loop.)
PullFailsForGood(p, l) ==
  /\ "pull" \in Events
  /\ poll[p][l].pc = "pull"
  /\ poll' = [poll EXCEPT ![p][l].pc = "off"]
  /\ UNCHANGED <<vaults, listening, sending, receiving, mailbox, history>>

PullFails(p, l) ==
  /\ "pull" \in Events
  /\ poll[p][l].pc = "pull"
  /\ poll' = [poll EXCEPT ![p][l].pc = "top"]
  /\ UNCHANGED <<vaults, listening, sending, receiving, mailbox, history>>

\* Each entry is handled, whatever comes of it, and its id noted for the ack.
HandleEntry(p, l) ==
  /\ poll[p][l].pc = "work"
  /\ \E e \in Oldest(poll[p][l].batch, 1) :
       /\ poll' = [poll EXCEPT ![p][l].batch = @ \ {e},
                               ![p][l].done = @ \union {e}]
       /\ Incoming(p, e.pkt)
  /\ UNCHANGED <<open, listening, sending, receiving, mailbox, nsent, posted,
                 abandoned>>

\* The ids of the ack.  (Mutant: all there is by now.)
AckAll(p, l) == box[p]
AckIds(p, l) == poll[p][l].done

Ack(p, l) ==
  /\ poll[p][l].pc = "work"
  /\ poll[p][l].batch = {}
  /\ \/ box' = [box EXCEPT ![p] = @ \ AckIds(p, l)]
     \/ /\ "ack" \in Events
        /\ UNCHANGED box
  /\ poll' = [poll EXCEPT ![p][l] = [IdleLoop EXCEPT !.pc = "top"]]
  /\ UNCHANGED <<vaults, listening, sending, receiving, pushes, parked, history>>

-----------------------------------------------------------------------------
PeerStep(p) ==
  \/ Unlock(p) \/ Lock(p) \/ Crash(p) \/ HandshakeFails(p) \/ SetSettings(p)
  \/ \E q \in Peers : SendMessage(p, q)

TaskStep(m) ==
  \/ Dial(m) \/ DirectFails(m) \/ AckArrives(m) \/ Park(m)
  \/ ReadFrame(m) \/ ReadBreaks(m) \/ CloseSeen(m) \/ ProcessDirect(m)

LoopStep(p, l) ==
  \/ CheckUnlocked(p, l) \/ Pull(p, l) \/ PullFails(p, l)
  \/ HandleEntry(p, l) \/ Ack(p, l)

Next ==
  \/ \E p \in Peers : PeerStep(p)
  \/ \E m \in Packets : TaskStep(m)
  \/ \E p \in Peers, l \in Loops : LoopStep(p, l)

Spec == Init /\ [][Next]_vars

(* Fairness.  Tasks run; the tokio timers fire; a request that is repeated
   every two seconds succeeds now and then; a user who is locked out unlocks
   now and then.  Nothing makes the direct path work. *)
Fairness ==
  /\ \A m \in Packets :
       /\ WF_vars(DirectFails(m)) /\ WF_vars(Park(m))
       /\ WF_vars(CloseSeen(m)) /\ WF_vars(ProcessDirect(m))
  /\ \A p \in Peers : WF_vars(Unlock(p))
  /\ \A p \in Peers, l \in Loops :
       /\ WF_vars(CheckUnlocked(p, l)) /\ SF_vars(Pull(p, l))
       /\ WF_vars(HandleEntry(p, l))
       /\ WF_vars(Ack(p, l)) /\ SF_vars(Ack(p, l) /\ box' # box)

FairSpec == Spec /\ Fairness

-----------------------------------------------------------------------------
(* Properties.                                                             *)

SameName(m, n) == m.from = n.from /\ m.to = n.to /\ m.seq = n.seq

\* A vault, in memory or on disk, never holds the same message twice, though
\* it may come in by a direct connection and by several poll loops at once
\* (has_incoming, net.rs "Dedup").
AtMostOnce ==
  \A p \in Peers : \A v \in {mem[p], disk[p]} :
    \A i, j \in DOMAIN v.in : SameName(v.in[i], v.in[j]) => i = j

\* next_seq counts stored messages, so failed saves, locks and restarts make
\* it go back; still no number is given to two messages that leave the
\* peer, or the receiver would take the second for a duplicate.
SeqNeverReused ==
  \A m, n \in posted : SameName(m, n) => m = n

\* A message the UI has been told of is in the vault file, whatever happens
\* to the process afterwards (the save in process_incoming precedes the event).
ShownIsDurable ==
  \A p \in Peers : Range(shown[p]) \subseteq Range(disk[p].in)

Stored(m) == m \in Range(disk[m.to].in)
InBox(m)  == \E e \in box[m.to] : e.pkt = m

\* core/mailbox.rs: a client acks its parked messages "once stored".  (It
\* acks what it refused, too: a run refutes this.)
ParkedUntilStored ==
  \A m \in parked : InBox(m) \/ Stored(m)

\* What the mailbox has accepted stays there until the receiver has stored it,
\* or has had it in its hands and turned it down: the poll loop acks whatever
\* it handled, through crashes, lost acks and failed pulls.
ParkedUntilHandled ==
  \A m \in parked : InBox(m) \/ Stored(m) \/ m \in refused

\* A message whose command returned Ok is stored by the receiver, waits in
\* the mailbox, or some task still carries it: the hand-overs between deliver,
\* recv_frame, the mailbox and the poll loop leave no gap.  It gets lost in
\* three ways only: process_incoming fails after the sender or the mailbox
\* let go of it, a push fails, or a process ends with the task in it.
NeverDropped ==
  \A m \in posted :
    \/ Stored(m) \/ InBox(m)
    \/ \E s \in SendStages : <<m, s>> \in sending
    \/ \E s \in {"close", "ready"} : <<m, s>> \in receiving
    \/ m \in refused \/ m \in abandoned

\* Every message whose command returned Ok reaches the receiver's vault file.
EventuallyStored == \A m \in Packets : m \in posted ~> Stored(m)

\* Transport::accept: "the next inbound connection, or None when the endpoint
\* is closing".  An unlocked account can be reached directly.
AcceptsWhileOpen == \A p \in Peers : open[p] => listening[p]

\* Delivery keeps the promise of Channel: no message is shown twice to the user
\* and none that was not sent, whatever fails and whichever way it came.
Promise == INSTANCE Channel WITH
  Peers <- Peers, Packets <- Packets, posted <- posted, shown <- shown
ImplementsChannel == Promise!Spec
=============================================================================
