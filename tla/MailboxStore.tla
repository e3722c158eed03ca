---------------------------- MODULE MailboxStore ----------------------------
(***************************************************************************)
(* One identity's directory of the mailbox service (services/mailbox,      *)
(* store.rs and the push, pull and ack handlers of lib.rs) and the poll    *)
(* loops that empty it.  The handlers run on several threads and the store *)
(* takes no lock: a push is seen by a pull between its steps, and a pull   *)
(* reads files that an ack may be deleting.                                *)
(***************************************************************************)
EXTENDS Naturals, FiniteSets, Sequences, Functions

CONSTANTS
  MaxPush,    \* bound: push requests
  MaxClock,   \* bound: milliseconds on the clock
  Suffixes,   \* the random ends of file names
  Clients,    \* poll loops that pull and ack this identity's mail
  PullLimit,  \* Config.pull_limit
  Events      \* what may happen besides the normal course, see AllEvents

AllEvents ==
  { "restart",   \* the service is restarted
    "clock",     \* the system clock is set back
    "lost" }     \* a request or its answer is lost

ASSUME ConstantsAssumption ==
  /\ MaxPush \in Nat /\ MaxClock \in Nat
  /\ Suffixes \subseteq Nat
  /\ PullLimit \in Nat \ {0}
  /\ Events \subseteq AllEvents

VARIABLES
  clock,     \* SystemTime::now in milliseconds
  SEQ,       \* the process-wide counter
  push,      \* push request -> where the handler is, and the name it chose
  files,     \* push request -> content of its file, for the files there are
  client,    \* client -> its pull or ack and the handler serving it
  accepted,  \* history: pushes answered with an id
  before,    \* history: push -> pushes answered before it began
  stale,     \* history: pushes named before the clock was last set back
  got,       \* history: pushes a client received whole
  torn       \* history: pushes a client received before they were written

vars == <<clock, SEQ, push, files, client, accepted, before, stale,
          got, torn>>

Pushes == 1..MaxPush
Contents == {"empty", "whole"}
Idle == [pc |-> "idle", todo |-> {}, reply |-> <<>>]

TypeOK ==
  /\ clock \in 0..MaxClock
  /\ SEQ \in 0..MaxPush
  /\ push \in [Pushes ->
       [pc : {"new", "counted", "created", "done", "dead"},
        ts : 0..MaxClock, seq : 0..MaxPush, suffix : Suffixes \union {0}]]
  /\ DOMAIN files \subseteq Pushes /\ Range(files) \subseteq Contents
  /\ client \in [Clients ->
       [pc : {"idle", "read", "ack"},
        todo : SUBSET Pushes,
        reply : UNION {[1..n -> Pushes \X Contents] : n \in 0..PullLimit}]]
  /\ accepted \subseteq Pushes
  /\ before \in [Pushes -> SUBSET Pushes]
  /\ stale \subseteq Pushes
  /\ got \subseteq Pushes /\ torn \subseteq Pushes

Init ==
  /\ clock = 0
  /\ SEQ = 0
  /\ push = [m \in Pushes |->
              [pc |-> "new", ts |-> 0, seq |-> 0, suffix |-> 0]]
  /\ files = [m \in {} |-> "empty"]
  /\ client = [c \in Clients |-> Idle]
  /\ accepted = {}
  /\ before = [m \in Pushes |-> {}]
  /\ stale = {}
  /\ got = {}
  /\ torn = {}

history == <<accepted, before, stale, got, torn>>

-----------------------------------------------------------------------------
(* Store::push. *)

\* Requests are numbered in the order they begin.
Count(m) ==
  /\ push[m].pc = "new"
  /\ \A n \in Pushes : n < m => push[n].pc # "new"
  /\ push' = [push EXCEPT ![m].pc = "counted", ![m].seq = SEQ]
  /\ SEQ' = SEQ + 1
  /\ before' = [before EXCEPT ![m] = accepted]
  /\ UNCHANGED <<clock, files, client, accepted, stale, got, torn>>

\* The id is formatted and fs::write creates the file; its random end makes
\* the name a new one ...
Create(m) ==
  /\ push[m].pc = "counted"
  /\ \E r \in Suffixes :
       /\ \A n \in DOMAIN files :
            <<push[n].ts, push[n].seq, push[n].suffix>> # <<clock, push[m].seq, r>>
       /\ push' = [push EXCEPT ![m].pc = "created", ![m].ts = clock,
                               ![m].suffix = r]
  /\ files' = [n \in DOMAIN files \union {m} |->
                 IF n = m THEN "empty" ELSE files[n]]
  /\ before' = [before EXCEPT ![m] = @ \ stale]
  /\ UNCHANGED <<clock, SEQ, client, accepted, stale, got, torn>>

\* ... and then fills it, and the handler answers.  Filling a file that an
\* ack has deleted succeeds and leaves nothing.
Write(m) ==
  /\ push[m].pc = "created"
  /\ push' = [push EXCEPT ![m].pc = "done"]
  /\ files' = [n \in DOMAIN files |-> IF n = m THEN "whole" ELSE files[n]]
  /\ accepted' = accepted \union {m}
  /\ UNCHANGED <<clock, SEQ, client, before, stale, got, torn>>

-----------------------------------------------------------------------------
(* Store::pull and what the client does with the answer. *)

\* The order of the file names: <timestamp>-<counter>-<random>.  (Mutant: no
\* counter.)
TimeBefore(m, n) ==
  \/ push[m].ts < push[n].ts
  \/ push[m].ts = push[n].ts /\ push[m].suffix < push[n].suffix

NameBefore(m, n) ==
  \/ push[m].ts < push[n].ts
  \/ /\ push[m].ts = push[n].ts
     /\ \/ push[m].seq < push[n].seq
        \/ push[m].seq = push[n].seq /\ push[m].suffix < push[n].suffix

\* (Mutant: cut one too late.)
FirstAndNext(set, k) ==
  {m \in set : Cardinality({n \in set : NameBefore(n, m)}) <= k}

First(set, k) ==
  {m \in set : Cardinality({n \in set : NameBefore(n, m)}) < k}

\* read_dir, sort, truncate.
List(c) ==
  /\ client[c].pc = "idle"
  /\ client' = [client EXCEPT ![c] =
       [pc |-> "read", todo |-> First(DOMAIN files, PullLimit), reply |-> <<>>]]
  /\ UNCHANGED <<clock, SEQ, push, files, history>>

\* (Mutant: reading a file removes it.)
ReadTakes(c) ==
  /\ client[c].pc = "read"
  /\ \E m \in First(client[c].todo, 1) :
       /\ client' = [client EXCEPT ![c] =
            IF m \in DOMAIN files
              THEN [@ EXCEPT !.todo = @ \ {m},
                             !.reply = Append(@, <<m, files[m]>>)]
              ELSE Idle]
       /\ files' = Restrict(files, DOMAIN files \ {m})
  /\ UNCHANGED <<clock, SEQ, push, history>>

\* Files are read one by one in that order; one that is gone by now fails the
\* whole pull.
Read(c) ==
  /\ client[c].pc = "read"
  /\ \E m \in First(client[c].todo, 1) :
       client' = [client EXCEPT ![c] =
         IF m \in DOMAIN files
           THEN [pc |-> "read", todo |-> @.todo \ {m},
                 reply |-> Append(@.reply, <<m, files[m]>>)]
           ELSE Idle]
  /\ UNCHANGED <<clock, SEQ, push, files, history>>

\* The answer arrives; the poll loop handles every payload and will ack all.
Receive(c) ==
  LET msgs == Range(client[c].reply)
  IN
  /\ client[c].pc = "read"
  /\ client[c].todo = {}
  /\ client' = [client EXCEPT ![c] =
       [pc |-> "ack", todo |-> {x[1] : x \in msgs}, reply |-> <<>>]]
  /\ got' = got \union {x[1] : x \in {y \in msgs : y[2] = "whole"}}
  /\ torn' = torn \union {x[1] : x \in {y \in msgs : y[2] = "empty"}}
  /\ UNCHANGED <<clock, SEQ, push, files, accepted, before, stale>>

\* A pull's answer, or an ack, does not get through.  The handler of a pull
\* runs to its end all the same.
Lost(c) ==
  /\ "lost" \in Events
  /\ \/ client[c].pc = "ack"
     \/ client[c].pc = "read" /\ client[c].todo = {}
  /\ client' = [client EXCEPT ![c] = Idle]
  /\ UNCHANGED <<clock, SEQ, push, files, history>>

-----------------------------------------------------------------------------
(* Store::ack: the named files are deleted one by one; one that is gone is
   skipped. *)

\* (Mutant: the ids do not have the form that ack accepts.)
DeleteNone(c) ==
  /\ client[c].pc = "ack"
  /\ \E m \in client[c].todo :
       client' = [client EXCEPT ![c].todo = @ \ {m}]
  /\ UNCHANGED <<clock, SEQ, push, files, history>>

Delete(c) ==
  /\ client[c].pc = "ack"
  /\ \E m \in client[c].todo :
       /\ client' = [client EXCEPT ![c].todo = @ \ {m}]
       /\ files' = Restrict(files, DOMAIN files \ {m})
  /\ UNCHANGED <<clock, SEQ, push, history>>

Acked(c) ==
  /\ client[c].pc = "ack"
  /\ client[c].todo = {}
  /\ client' = [client EXCEPT ![c] = Idle]
  /\ UNCHANGED <<clock, SEQ, push, files, history>>

-----------------------------------------------------------------------------
Tick ==
  /\ clock < MaxClock
  /\ clock' = clock + 1
  /\ UNCHANGED <<SEQ, push, files, client, history>>

ClockSetBack ==
  /\ "clock" \in Events
  /\ clock > 0
  /\ clock' = clock - 1
  /\ stale' = {m \in Pushes : push[m].pc \notin {"new", "counted"}}
  /\ UNCHANGED <<SEQ, push, files, client, accepted, before, got, torn>>

\* The counter starts over, handlers are gone and what they have done stays.
\* A restart takes more than a millisecond.
Restart ==
  /\ "restart" \in Events
  /\ clock < MaxClock
  /\ clock' = clock + 1
  /\ SEQ' = 0
  /\ push' = [m \in Pushes |->
       IF push[m].pc \in {"counted", "created"}
         THEN [push[m] EXCEPT !.pc = "dead"] ELSE push[m]]
  /\ client' = [c \in Clients |-> Idle]
  /\ UNCHANGED <<files, history>>

Next ==
  \/ \E m \in Pushes : Count(m) \/ Create(m) \/ Write(m)
  \/ \E c \in Clients :
       List(c) \/ Read(c) \/ Receive(c) \/ Lost(c) \/ Delete(c) \/ Acked(c)
  \/ Tick \/ ClockSetBack \/ Restart

Spec == Init /\ [][Next]_vars

(* Handlers run; a client that keeps asking for its mail gets it now and then,
   and one that keeps acking it has a file deleted now and then.  The clock is
   not set back for ever; without that Restart, bounded by the clock, might
   also happen for ever. *)
Fairness ==
  /\ \A m \in Pushes : WF_vars(Create(m)) /\ WF_vars(Write(m))
  /\ \A c \in Clients :
       /\ WF_vars(List(c)) /\ WF_vars(Read(c)) /\ WF_vars(Receive(c))
       /\ SF_vars(Receive(c) /\ client[c].reply # <<>>)
       /\ SF_vars(Delete(c)) /\ WF_vars(Acked(c))
  /\ <>[][~ ClockSetBack]_vars

FairSpec == Spec /\ Fairness

-----------------------------------------------------------------------------
(* Properties. *)

\* "Oldest first": a message is not delivered ahead of one whose push had been
\* answered before its own began, unless that one has been acked or the clock
\* was set back between their two names.  It takes the counter (same
\* millisecond), the sort and the cut at PullLimit together.
NoOvertaking ==
  \A c \in Clients : \A i \in DOMAIN client[c].reply :
    \A m \in before[client[c].reply[i][1]] \intersect DOMAIN files :
      \E j \in 1..i - 1 : client[c].reply[j][1] = m

\* A message the service accepted is on disk in full, or has been received in
\* full, or was handed out before it was written: nothing else loses mail,
\* neither two clients' pulls and acks crossing, nor lost answers, nor a
\* restart.
LostOnlyByTornRead ==
  \A m \in accepted :
    \/ m \in got \union torn
    \/ m \in DOMAIN files /\ files[m] = "whole"

\* An accepted message is received, though pulls fail when files vanish under
\* them, answers get lost, the clock is set back and the service restarts.
EventuallyReceived ==
  \A m \in Pushes : m \in accepted ~> m \in got \union torn
=============================================================================
