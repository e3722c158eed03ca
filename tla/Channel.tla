------------------------------ MODULE Channel ------------------------------
(***************************************************************************)
(* What message delivery promises the two users of a 1:1 conversation: a   *)
(* peer posts messages, each under a sequence number of its own, and a     *)
(* posted message is shown to its addressee at most once.  It may be late, *)
(* it may overtake another, it may be lost; it is never shown twice and    *)
(* nothing that was not posted is ever shown.                              *)
(*                                                                         *)
(* This module mentions neither connections, mailbox nor vault: Delivery   *)
(* is shown to implement it.                                               *)
(***************************************************************************)
EXTENDS Sequences, Functions

CONSTANTS
  Peers,    \* accounts
  Packets   \* messages, records with the fields from, to, seq and body

VARIABLES
  posted,   \* the set of messages the senders' commands reported as sent
  shown     \* per peer, the messages shown to the user, in order

cvars == <<posted, shown>>

\* Two messages answer to the same name: conversation, sender and number.
SameName(m, n) == m.from = n.from /\ m.to = n.to /\ m.seq = n.seq

Init ==
  /\ posted = {}
  /\ shown = [p \in Peers |-> <<>>]

Post(m) ==
  /\ \A n \in posted : ~ SameName(m, n)
  /\ posted' = posted \union {m}
  /\ UNCHANGED shown

Show(m) ==
  /\ m \in posted
  /\ \A n \in Range(shown[m.to]) : ~ SameName(m, n)
  /\ shown' = [shown EXCEPT ![m.to] = Append(@, m)]
  /\ UNCHANGED posted

Next == \E m \in Packets : Post(m) \/ Show(m)

Spec == Init /\ [][Next]_cvars
=============================================================================
