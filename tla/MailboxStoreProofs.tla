------------------------- MODULE MailboxStoreProofs -------------------------
(***************************************************************************)
(* Proofs about MailboxStore, for any number of pushes and clients, any    *)
(* pull limit and any choice of Events.                                    *)
(***************************************************************************)
EXTENDS MailboxStore, FiniteSetTheorems, TLAPS

-----------------------------------------------------------------------------
(* The inductive invariant: the files.                                     *)

\* A push whose file has, or had, its name.
Named(m) == push[m].pc \in {"created", "done"}

Name(m) == <<push[m].ts, push[m].seq, push[m].suffix>>

\* The counter is behind the requests to come.
SeqBehind == \A m \in Pushes : push[m].pc = "new" => SEQ < m

FilesNamed ==
  \A m \in DOMAIN files : push[m].pc \in {"created", "done", "dead"}

NamesDiffer == \A m, n \in DOMAIN files : m # n => Name(m) # Name(n)

AcceptedWhole ==
  \A m \in accepted :
    push[m].pc = "done" /\ (m \in DOMAIN files => files[m] = "whole")

\* What was created is there, or has been received.
KeptOrHanded ==
  \A m \in Pushes : Named(m) => m \in DOMAIN files \union got \union torn

BeforeAccepted == \A n \in Pushes : before[n] \subseteq accepted

\* A name is older than the clock, unless the clock was set back since, or of
\* this millisecond and before the counter, unless the service was restarted.
Recent ==
  \A m \in Pushes :
    /\ push[m].pc = "counted" => push[m].seq < SEQ
    /\ Named(m) /\ m \notin stale =>
         \/ push[m].ts < clock
         \/ push[m].ts = clock /\ push[m].seq < SEQ

\* The name that a counted push is about to get comes after those before it.
CountedAfter ==
  \A n \in Pushes : push[n].pc = "counted" =>
    \A m \in before[n] \ stale :
      \/ push[m].ts < clock
      \/ push[m].ts = clock /\ push[m].seq < push[n].seq

Precedes(m, n) ==
  \/ push[m].ts < push[n].ts
  \/ push[m].ts = push[n].ts /\ push[m].seq < push[n].seq

FilesAfter == \A n \in DOMAIN files : \A m \in before[n] : Precedes(m, n)

FilesInv ==
  /\ SeqBehind
  /\ FilesNamed
  /\ NamesDiffer
  /\ AcceptedWhole
  /\ KeptOrHanded
  /\ BeforeAccepted
  /\ Recent
  /\ CountedAfter
  /\ FilesAfter

(* ... and the clients.                                                    *)

Replied(c) == {client[c].reply[i][1] : i \in DOMAIN client[c].reply}
Listed(c) == client[c].todo \union Replied(c)

\* What a client lists or acks has a name.
ListedNamed(c) == \A m \in Listed(c) : push[m].pc \notin {"new", "counted"}

WithinLimit(c) ==
  /\ client[c].pc = "read" =>
       Cardinality(client[c].todo) + Len(client[c].reply) <= PullLimit
  /\ client[c].pc # "read" => client[c].reply = <<>>

AckedHanded(c) == client[c].pc = "ack" => client[c].todo \subseteq got \union torn

\* A list leaves out no file that comes before one in it.
ListedWhole(c) ==
  client[c].pc = "read" =>
    \A n \in Listed(c) : before[n] \intersect DOMAIN files \subseteq Listed(c)

\* What NoOvertaking says of one client.
InOrder(c) ==
  \A i \in DOMAIN client[c].reply :
    \A m \in before[client[c].reply[i][1]] \intersect DOMAIN files :
      \E j \in 1..i - 1 : client[c].reply[j][1] = m

ClientInv(c) ==
  /\ ListedNamed(c)
  /\ WithinLimit(c)
  /\ AckedHanded(c)
  /\ ListedWhole(c)
  /\ InOrder(c)

IInv == TypeOK /\ FilesInv /\ \A c \in Clients : ClientInv(c)

-----------------------------------------------------------------------------
(* Types.                                                                  *)

\* Answers within the pull limit.
Replies == UNION {[1..n -> Pushes \X Contents] : n \in 0..PullLimit}

LEMMA ReplyType ==
  ASSUME NEW s
  PROVE  s \in Replies <=> s \in Seq(Pushes \X Contents) /\ Len(s) <= PullLimit
<1>1. ASSUME s \in Replies
      PROVE  s \in Seq(Pushes \X Contents) /\ Len(s) <= PullLimit
  <2>1. PICK n \in 0..PullLimit : s \in [1..n -> Pushes \X Contents]
    BY <1>1 DEF Replies
  <2>2. n \in Nat /\ n <= PullLimit
    BY ConstantsAssumption
  <2> QED BY <2>1, <2>2
<1>2. ASSUME s \in Seq(Pushes \X Contents), Len(s) <= PullLimit
      PROVE  s \in Replies
  <2>1. Len(s) \in 0..PullLimit /\ s \in [1..Len(s) -> Pushes \X Contents]
    BY <1>2, ConstantsAssumption
  <2> QED BY <2>1 DEF Replies
<1> QED BY <1>1, <1>2

Clientele == [pc : {"idle", "read", "ack"}, todo : SUBSET Pushes, reply : Replies]

LEMMA IdleType == Idle \in Clientele
<1>1. <<>> \in Seq(Pushes \X Contents) /\ Len(<<>>) = 0
  OBVIOUS
<1>2. 0 <= PullLimit
  BY ConstantsAssumption
<1>3. <<>> \in Replies
  BY <1>1, <1>2, ReplyType
<1> QED BY <1>3 DEF Idle, Clientele

LEMMA SomePushes ==
  ASSUME NEW set \in SUBSET Pushes
  PROVE  IsFiniteSet(set) /\ Cardinality(set) \in Nat
<1>1. IsFiniteSet(Pushes)
  BY FS_Interval, ConstantsAssumption DEF Pushes
<1> QED BY <1>1, FS_Subset, FS_CardinalityType

LEMMA ClientType ==
  ASSUME TypeOK, NEW c \in Clients
  PROVE  /\ client[c] \in Clientele
         /\ client[c].reply \in Seq(Pushes \X Contents)
         /\ client[c].todo \subseteq Pushes
         /\ IsFiniteSet(client[c].todo) /\ Cardinality(client[c].todo) \in Nat
         /\ Replied(c) \subseteq Pushes
<1>1. client[c] \in Clientele
  BY DEF TypeOK, Clientele, Replies
<1>2. client[c].reply \in Seq(Pushes \X Contents)
  BY <1>1, ReplyType DEF Clientele
<1>3. client[c].todo \subseteq Pushes
  BY <1>1 DEF Clientele
<1>5. IsFiniteSet(client[c].todo) /\ Cardinality(client[c].todo) \in Nat
  BY <1>3, SomePushes
<1>6. Replied(c) \subseteq Pushes
  BY <1>2 DEF Replied
<1> QED BY <1>1, <1>2, <1>3, <1>5, <1>6

PushRecords ==
  [pc : {"new", "counted", "created", "done", "dead"},
   ts : 0..MaxClock, seq : 0..MaxPush, suffix : Suffixes \union {0}]

\* The fields of a push, for the arithmetic.
LEMMA PushType ==
  ASSUME TypeOK, NEW m \in Pushes
  PROVE  /\ m \in Nat
         /\ push[m] \in PushRecords
         /\ push[m].ts \in Nat /\ push[m].seq \in Nat /\ push[m].suffix \in Nat
<1>1. m \in Nat
  BY ConstantsAssumption DEF Pushes
<1>2. push[m] \in PushRecords
  BY DEF TypeOK, PushRecords
<1>3. push[m].ts \in 0..MaxClock /\ push[m].seq \in 0..MaxPush
      /\ push[m].suffix \in Suffixes \union {0}
  BY <1>2 DEF PushRecords
<1>4. push[m].suffix \in Nat
  <2>1. \A x \in Suffixes \union {0} : x \in Nat
    BY ConstantsAssumption
  <2> QED BY <1>3, <2>1
<1> QED BY <1>1, <1>2, <1>3, <1>4, ConstantsAssumption

-----------------------------------------------------------------------------
(* The order of names.                                                     *)

\* Files have different names, and names are ordered.
LEMMA NameOrder ==
  ASSUME TypeOK
  PROVE  /\ \A m \in Pushes : ~ NameBefore(m, m)
         /\ \A l, m, n \in Pushes :
              NameBefore(l, m) /\ NameBefore(m, n) => NameBefore(l, n)
         /\ \A m, n \in Pushes :
              NameBefore(m, n) \/ NameBefore(n, m) \/ Name(m) = Name(n)
<1>1. \A m \in Pushes : ~ NameBefore(m, m)
  BY PushType DEF NameBefore
<1>2. ASSUME NEW l \in Pushes, NEW m \in Pushes, NEW n \in Pushes,
             NameBefore(l, m), NameBefore(m, n)
      PROVE  NameBefore(l, n)
  BY <1>2, PushType DEF NameBefore
<1>3. ASSUME NEW m \in Pushes, NEW n \in Pushes,
             ~ NameBefore(m, n), ~ NameBefore(n, m)
      PROVE  Name(m) = Name(n)
  BY <1>3, PushType DEF NameBefore, Name
<1> QED BY <1>1, <1>2, <1>3

Earlier(set, n) == {l \in set : NameBefore(l, n)}

\* The fewer precede a file, the earlier it comes.
LEMMA EarlierCount ==
  ASSUME TypeOK, NEW set \in SUBSET Pushes, NEW m \in set, NEW n \in set,
         NameBefore(m, n)
  PROVE  /\ Cardinality(Earlier(set, m)) \in Nat
         /\ Cardinality(Earlier(set, n)) \in Nat
         /\ Cardinality(Earlier(set, m)) < Cardinality(Earlier(set, n))
<1> DEFINE M == Earlier(set, m)
           N == Earlier(set, n)
<1>2. M \subseteq N /\ M # N /\ N \subseteq set
  BY NameOrder DEF Earlier
<1>3. IsFiniteSet(N) /\ IsFiniteSet(M)
  BY SomePushes DEF Earlier
<1>4. Cardinality(M) \in Nat /\ Cardinality(N) \in Nat
  BY SomePushes DEF Earlier
<1>5. Cardinality(M) <= Cardinality(N) /\ Cardinality(M) # Cardinality(N)
  <2> HIDE DEF M, N
  <2> QED BY <1>2, <1>3, FS_Subset
<1> HIDE DEF M, N
<1>6. Cardinality(M) < Cardinality(N)
  BY <1>4, <1>5
<1> QED BY <1>4, <1>6 DEF M, N

\* The first k files are at most k, and with a file its predecessors are among
\* them.
LEMMA FirstFacts ==
  ASSUME TypeOK, NEW set \in SUBSET Pushes, NEW k \in Nat,
         \A m, n \in set : m # n => Name(m) # Name(n)
  PROVE  /\ First(set, k) \subseteq set
         /\ IsFiniteSet(First(set, k)) /\ Cardinality(First(set, k)) <= k
         /\ \A n \in First(set, k) : \A m \in set :
              NameBefore(m, n) => m \in First(set, k)
<1> DEFINE F == First(set, k)
           rank == [n \in F |-> Cardinality(Earlier(set, n))]
<1>1. F = {n \in set : Cardinality(Earlier(set, n)) < k}
  BY DEF First, Earlier
<1>3. \A n \in set : Cardinality(Earlier(set, n)) \in Nat
  <2> TAKE n \in set
  <2>1. Earlier(set, n) \subseteq set
    BY DEF Earlier
  <2> QED BY <2>1, SomePushes
<1>4. \A n \in F : \A m \in set : NameBefore(m, n) => m \in F
  BY <1>1, <1>3, EarlierCount
<1>5. rank \in [F -> 0..k - 1]
  BY <1>1, <1>3
<1>6. ASSUME NEW m \in F, NEW n \in F, m # n
      PROVE  rank[m] # rank[n]
  <2>1. m \in Pushes /\ n \in Pushes /\ m \in set /\ n \in set /\ Name(m) # Name(n)
    BY <1>1, <1>6
  <2>2. NameBefore(m, n) \/ NameBefore(n, m)
    BY <2>1, NameOrder
  <2>3. rank[m] = Cardinality(Earlier(set, m))
        /\ rank[n] = Cardinality(Earlier(set, n))
    OBVIOUS
  <2> HIDE DEF rank
  <2> QED BY <2>1, <2>2, <2>3, EarlierCount
<1>7. rank \in Injection(F, 0..k - 1)
  <2> HIDE DEF rank, F
  <2> QED BY <1>5, <1>6 DEF Injection, IsInjective
<1>8. IsFiniteSet(0..k - 1) /\ Cardinality(0..k - 1) = k
  BY FS_Interval
<1>9. IsFiniteSet(F) /\ Cardinality(F) <= k
  <2> HIDE DEF rank, F
  <2> QED BY <1>7, <1>8, FS_Injection
<1> QED BY <1>1, <1>4, <1>9

\* Whoever comes first of a list has nobody before it.
LEMMA FirstOne ==
  ASSUME TypeOK, NEW set \in SUBSET Pushes, NEW n \in First(set, 1)
  PROVE  n \in set /\ \A m \in set : ~ NameBefore(m, n)
<1>1. n \in set /\ Cardinality(Earlier(set, n)) < 1
  BY DEF First, Earlier
<1>2. IsFiniteSet(Earlier(set, n)) /\ Cardinality(Earlier(set, n)) \in Nat
  BY SomePushes DEF Earlier
<1>3. Cardinality(Earlier(set, n)) = 0
  BY <1>1, <1>2
<1>4. Earlier(set, n) = {}
  BY <1>2, <1>3, FS_EmptySet
<1> QED BY <1>1, <1>4 DEF Earlier

-----------------------------------------------------------------------------
(* The files, action by action.                                            *)

LEMMA FileType ==
  ASSUME TypeOK
  PROVE  /\ DOMAIN files \subseteq Pushes
         /\ \A m \in DOMAIN files : files[m] \in Contents
         /\ clock \in Nat /\ SEQ \in Nat
BY ConstantsAssumption DEF TypeOK, Range

LEMMA CountFiles ==
  ASSUME TypeOK, FilesInv, NEW m \in Pushes, Count(m)
  PROVE  TypeOK' /\ FilesInv'
<1>1. /\ push[m].pc = "new" /\ SEQ < m /\ m \in Nat /\ m <= MaxPush
      /\ SEQ \in Nat /\ MaxPush \in Nat
      /\ \A n \in Pushes : n < m => push[n].pc # "new"
  BY ConstantsAssumption DEF Count, FilesInv, SeqBehind, TypeOK, Pushes
<1>2. push' \in [Pushes -> PushRecords]
  <2> DEFINE r == [push[m] EXCEPT !.pc = "counted", !.seq = SEQ]
  <2>1. r \in PushRecords
    <3>1. SEQ \in 0..MaxPush /\ push[m] \in PushRecords
      BY PushType DEF TypeOK
    <3>2. [push[m] EXCEPT !.pc = "counted"] \in PushRecords
      BY <3>1 DEF PushRecords
    <3>3. [[push[m] EXCEPT !.pc = "counted"] EXCEPT !.seq = SEQ] \in PushRecords
      BY <3>1, <3>2 DEF PushRecords
    <3> QED BY <3>3
  <2>2. push' = [push EXCEPT ![m] = r]
    BY DEF Count, TypeOK
  <2> HIDE DEF r
  <2> QED BY <2>1, <2>2 DEF TypeOK, PushRecords
<1>3. push'[m].pc = "counted" /\ push'[m].seq = SEQ
  BY PushType DEF Count, TypeOK
<1>4. \A n \in Pushes : n # m => push'[n] = push[n]
  BY DEF Count, TypeOK
<1>5. /\ SEQ' = SEQ + 1 /\ before' = [before EXCEPT ![m] = accepted]
      /\ UNCHANGED <<clock, files, client, accepted, stale, got, torn>>
  BY DEF Count
<1>6. before'[m] = accepted /\ \A n \in Pushes : n # m => before'[n] = before[n]
  BY <1>5 DEF TypeOK
<1>7. TypeOK'
  <2>1. SEQ' \in 0..MaxPush
    BY <1>1, <1>5
  <2>2. before' \in [Pushes -> SUBSET Pushes]
    BY <1>5 DEF TypeOK
  <2> QED BY <1>2, <1>5, <2>1, <2>2 DEF TypeOK, PushRecords
<1>8. m \notin DOMAIN files /\ m \notin accepted /\ DOMAIN files \subseteq Pushes
      /\ accepted \subseteq Pushes
  BY <1>1 DEF FilesInv, FilesNamed, AcceptedWhole, TypeOK
<1>9. SeqBehind'
  <2> SUFFICES ASSUME NEW n \in Pushes, push'[n].pc = "new"
               PROVE  SEQ' < n
    BY DEF SeqBehind
  <2>1. n # m /\ push[n].pc = "new"
    BY <1>3, <1>4
  <2>2. m < n
    <3>1. n \in Nat
      BY PushType
    <3> QED BY <1>1, <2>1, <3>1
  <2> QED BY <1>1, <1>5, <2>2, PushType
<1>10. FilesNamed' /\ NamesDiffer' /\ FilesAfter'
  BY <1>4, <1>5, <1>6, <1>8 DEF FilesInv, FilesNamed, NamesDiffer, Name,
     FilesAfter, Precedes, BeforeAccepted
<1>11. AcceptedWhole' /\ KeptOrHanded' /\ BeforeAccepted'
  BY <1>3, <1>4, <1>5, <1>6, <1>8 DEF FilesInv, AcceptedWhole, KeptOrHanded,
     BeforeAccepted, Named
<1>12. Recent'
  <2> SUFFICES ASSUME NEW n \in Pushes
               PROVE  /\ push'[n].pc = "counted" => push'[n].seq < SEQ'
                      /\ Named(n)' /\ n \notin stale =>
                           \/ push'[n].ts < clock
                           \/ push'[n].ts = clock /\ push'[n].seq < SEQ'
    BY <1>5 DEF Recent
  <2>1. CASE n = m
    BY <1>1, <1>3, <1>5, <2>1 DEF Named
  <2>2. CASE n # m
    BY <1>1, <1>4, <1>5, <2>2, PushType DEF Named, FilesInv, Recent
  <2> QED BY <2>1, <2>2
<1>13. CountedAfter'
  <2> SUFFICES ASSUME NEW n \in Pushes, push'[n].pc = "counted",
                      NEW l \in before'[n] \ stale
               PROVE  \/ push'[l].ts < clock
                      \/ push'[l].ts = clock /\ push'[l].seq < push'[n].seq
    BY <1>5 DEF CountedAfter
  <2>1. CASE n = m
    <3>1. l \in Pushes /\ l # m /\ push[l].pc = "done"
      BY <1>6, <1>8, <2>1 DEF FilesInv, AcceptedWhole
    <3> QED BY <1>3, <1>4, <2>1, <3>1 DEF FilesInv, Recent, Named
  <2>2. CASE n # m
    <3>1. l \in before[n] /\ l \in accepted /\ l # m
      BY <1>6, <1>8, <2>2 DEF FilesInv, BeforeAccepted
    <3> QED BY <1>4, <1>8, <2>2, <3>1 DEF FilesInv, CountedAfter
  <2> QED BY <2>1, <2>2
<1> QED BY <1>7, <1>9, <1>10, <1>11, <1>12, <1>13 DEF FilesInv

LEMMA CreateFiles ==
  ASSUME TypeOK, FilesInv, NEW m \in Pushes, Create(m)
  PROVE  TypeOK' /\ FilesInv'
<1>1. PICK r \in Suffixes :
        /\ \A n \in DOMAIN files :
             <<push[n].ts, push[n].seq, push[n].suffix>> # <<clock, push[m].seq, r>>
        /\ push' = [push EXCEPT ![m].pc = "created", ![m].ts = clock,
                                ![m].suffix = r]
  BY DEF Create
<1>2. /\ push[m].pc = "counted"
      /\ before' = [before EXCEPT ![m] = @ \ stale]
      /\ UNCHANGED <<clock, SEQ, client, accepted, stale, got, torn>>
  BY DEF Create
<1>3. /\ push'[m].pc = "created" /\ push'[m].ts = clock
      /\ push'[m].seq = push[m].seq /\ push'[m].suffix = r
      /\ \A n \in Pushes : n # m => push'[n] = push[n]
  BY <1>1, PushType DEF TypeOK
<1>4. DOMAIN files' = DOMAIN files \union {m} /\ files'[m] = "empty"
      /\ \A n \in DOMAIN files : n # m => files'[n] = files[n]
  BY DEF Create
<1>5. /\ before'[m] = before[m] \ stale
      /\ \A n \in Pushes : n # m => before'[n] = before[n]
  BY <1>2 DEF TypeOK
<1>6. m \notin DOMAIN files /\ m \notin accepted /\ DOMAIN files \subseteq Pushes
      /\ accepted \subseteq Pushes
  BY <1>2 DEF FilesInv, FilesNamed, AcceptedWhole, TypeOK
<1>7. TypeOK'
  <2>1. push' \in [Pushes -> PushRecords]
    <3> DEFINE p == [push[m] EXCEPT !.pc = "created", !.ts = clock, !.suffix = r]
    <3>1. p \in PushRecords
      <4>1. clock \in 0..MaxClock /\ push[m] \in PushRecords
        BY PushType DEF TypeOK
      <4> DEFINE p1 == [push[m] EXCEPT !.pc = "created"]
                 p2 == [p1 EXCEPT !.ts = clock]
                 p3 == [p2 EXCEPT !.suffix = r]
      <4>2. p1 \in PushRecords
        BY <4>1 DEF PushRecords
      <4>3. p2 \in PushRecords
        <5> HIDE DEF p1
        <5> QED BY <4>1, <4>2 DEF PushRecords
      <4>4. p3 \in PushRecords
        <5> HIDE DEF p2
        <5> QED BY <4>3 DEF PushRecords
      <4> QED BY <4>4
    <3>2. push' = [push EXCEPT ![m] = p]
      BY <1>1 DEF TypeOK
    <3> HIDE DEF p
    <3> QED BY <3>1, <3>2 DEF TypeOK, PushRecords
  <2>2. before' \in [Pushes -> SUBSET Pushes]
    BY <1>2 DEF TypeOK
  <2>3. DOMAIN files' \subseteq Pushes /\ Range(files') \subseteq Contents
    BY <1>4, <1>6, FileType DEF Range, Contents
  <2> QED BY <1>2, <2>1, <2>2, <2>3 DEF TypeOK, PushRecords
<1>8. SeqBehind' /\ FilesNamed'
  BY <1>2, <1>3, <1>4, <1>6 DEF FilesInv, SeqBehind, FilesNamed
<1>9. NamesDiffer'
  <2>1. \A n \in DOMAIN files : Name(n) # <<clock, push[m].seq, r>>
    BY <1>1 DEF Name
  <2>2. Name(m)' = <<clock, push[m].seq, r>>
    BY <1>3 DEF Name
  <2>3. \A n \in DOMAIN files : Name(n)' = Name(n)
    BY <1>3, <1>6 DEF Name
  <2> QED BY <1>4, <2>1, <2>2, <2>3 DEF FilesInv, NamesDiffer
<1>10. AcceptedWhole' /\ KeptOrHanded'
  BY <1>2, <1>3, <1>4, <1>6 DEF FilesInv, AcceptedWhole, KeptOrHanded, Named
<1>11. BeforeAccepted'
  BY <1>2, <1>5 DEF FilesInv, BeforeAccepted
<1>12. Recent'
  BY <1>2, <1>3 DEF FilesInv, Recent, Named
<1>13. CountedAfter'
  <2> SUFFICES ASSUME NEW n \in Pushes, push'[n].pc = "counted",
                      NEW l \in before'[n] \ stale
               PROVE  \/ push'[l].ts < clock
                      \/ push'[l].ts = clock /\ push'[l].seq < push'[n].seq
    BY <1>2 DEF CountedAfter
  <2>1. n # m /\ l \in before[n] /\ l \in accepted /\ l # m
    BY <1>3, <1>5, <1>6 DEF FilesInv, BeforeAccepted
  <2> QED BY <1>3, <1>6, <2>1 DEF FilesInv, CountedAfter
<1>14. FilesAfter'
  <2> SUFFICES ASSUME NEW n \in DOMAIN files', NEW l \in before'[n]
               PROVE  Precedes(l, n)'
    BY DEF FilesAfter
  <2>1. n \in Pushes /\ l \in before[n] /\ l \in accepted /\ l # m
    BY <1>4, <1>5, <1>6 DEF FilesInv, BeforeAccepted
  <2>2. CASE n = m
    BY <1>2, <1>3, <1>5, <1>6, <2>1, <2>2 DEF FilesInv, CountedAfter, Precedes
  <2>3. CASE n # m
    BY <1>3, <1>4, <1>6, <2>1, <2>3 DEF FilesInv, FilesAfter, Precedes
  <2> QED BY <2>2, <2>3
<1> QED BY <1>7, <1>8, <1>9, <1>10, <1>11, <1>12, <1>13, <1>14 DEF FilesInv

LEMMA WriteFiles ==
  ASSUME TypeOK, FilesInv, NEW m \in Pushes, Write(m)
  PROVE  TypeOK' /\ FilesInv'
<1>1. /\ push[m].pc = "created" /\ push' = [push EXCEPT ![m].pc = "done"]
      /\ accepted' = accepted \union {m}
      /\ UNCHANGED <<clock, SEQ, client, before, stale, got, torn>>
  BY DEF Write
<1>2. /\ push'[m].pc = "done"
      /\ push'[m].ts = push[m].ts /\ push'[m].seq = push[m].seq
      /\ push'[m].suffix = push[m].suffix
      /\ \A n \in Pushes : n # m => push'[n] = push[n]
  BY <1>1, PushType DEF TypeOK
<1>3. DOMAIN files' = DOMAIN files
      /\ \A n \in DOMAIN files :
           files'[n] = IF n = m THEN "whole" ELSE files[n]
  BY DEF Write
<1>4. DOMAIN files \subseteq Pushes /\ accepted \subseteq Pushes
  BY DEF TypeOK
<1>5. TypeOK'
  <2>1. push' \in [Pushes -> PushRecords]
    BY <1>1 DEF TypeOK, PushRecords
  <2>2. DOMAIN files' \subseteq Pushes /\ Range(files') \subseteq Contents
    BY <1>3, FileType DEF Range, Contents
  <2> QED BY <1>1, <2>1, <2>2 DEF TypeOK, PushRecords
<1>6. SeqBehind' /\ FilesNamed'
  BY <1>1, <1>2, <1>3, <1>4 DEF FilesInv, SeqBehind, FilesNamed
<1>7. NamesDiffer'
  <2>1. \A n \in DOMAIN files : Name(n)' = Name(n)
    BY <1>2, <1>4 DEF Name
  <2> QED BY <1>3, <2>1 DEF FilesInv, NamesDiffer
<1>8. AcceptedWhole' /\ KeptOrHanded' /\ BeforeAccepted'
  BY <1>1, <1>2, <1>3, <1>4 DEF FilesInv, AcceptedWhole, KeptOrHanded, Named,
     BeforeAccepted
<1>9. Recent'
  BY <1>1, <1>2 DEF FilesInv, Recent, Named
<1>10. CountedAfter' /\ FilesAfter'
  <2>1. \A n \in Pushes : before[n] \subseteq Pushes
    BY DEF TypeOK
  <2>2. \A l \in Pushes : push'[l].ts = push[l].ts /\ push'[l].seq = push[l].seq
    BY <1>2
  <2>3. \A n \in Pushes : push'[n].pc = "counted" => push[n].pc = "counted"
    BY <1>2
  <2>4. CountedAfter'
    BY <1>1, <2>1, <2>2, <2>3 DEF FilesInv, CountedAfter
  <2>5. FilesAfter'
    BY <1>1, <1>3, <1>4, <2>1, <2>2 DEF FilesInv, FilesAfter, Precedes
  <2> QED BY <2>4, <2>5
<1> QED BY <1>5, <1>6, <1>7, <1>8, <1>9, <1>10 DEF FilesInv

\* What clients do to the files: they may delete what has been received.
LEMMA ClientFiles ==
  ASSUME TypeOK, FilesInv,
         UNCHANGED <<push, SEQ, clock, accepted, before, stale>>,
         got \subseteq got', torn \subseteq torn',
         DOMAIN files' \subseteq DOMAIN files,
         \A m \in DOMAIN files' : files'[m] = files[m],
         DOMAIN files \ DOMAIN files' \subseteq got \union torn
  PROVE  FilesInv'
<1>1. SeqBehind' /\ FilesNamed' /\ NamesDiffer' /\ AcceptedWhole'
  BY DEF FilesInv, SeqBehind, FilesNamed, NamesDiffer, Name, AcceptedWhole
<1>2. KeptOrHanded' /\ BeforeAccepted'
  BY DEF FilesInv, KeptOrHanded, BeforeAccepted, Named
<1>3. Recent' /\ CountedAfter' /\ FilesAfter'
  BY DEF FilesInv, Recent, CountedAfter, FilesAfter, Precedes, Named
<1> QED BY <1>1, <1>2, <1>3 DEF FilesInv

LEMMA TickFiles ==
  ASSUME TypeOK, FilesInv, Tick
  PROVE  TypeOK' /\ FilesInv'
<1>1. /\ clock \in Nat /\ clock' = clock + 1 /\ clock' \in 0..MaxClock
      /\ UNCHANGED <<SEQ, push, files, client, history>>
  BY ConstantsAssumption DEF Tick, TypeOK
<1>2. TypeOK'
  BY <1>1 DEF TypeOK, history
<1>3. SeqBehind' /\ FilesNamed' /\ NamesDiffer' /\ AcceptedWhole'
  BY <1>1 DEF history, FilesInv, SeqBehind, FilesNamed, NamesDiffer, Name,
     AcceptedWhole
<1>4. KeptOrHanded' /\ BeforeAccepted' /\ FilesAfter'
  BY <1>1 DEF history, FilesInv, KeptOrHanded, BeforeAccepted, Named,
     FilesAfter, Precedes
<1>5. \A m \in Pushes : push[m].ts \in Nat
  BY PushType
<1>6. Recent'
  BY <1>1, <1>5 DEF history, FilesInv, Recent, Named
<1>7. CountedAfter'
  <2>1. \A n \in Pushes : before[n] \subseteq Pushes
    BY DEF TypeOK
  <2> QED BY <1>1, <1>5, <2>1 DEF history, FilesInv, CountedAfter
<1> QED BY <1>2, <1>3, <1>4, <1>6, <1>7 DEF FilesInv

LEMMA SetBackFiles ==
  ASSUME TypeOK, FilesInv, ClockSetBack
  PROVE  TypeOK' /\ FilesInv'
<1>1. /\ clock \in Nat /\ clock' = clock - 1 /\ clock' \in 0..MaxClock
      /\ stale' = {m \in Pushes : push[m].pc \notin {"new", "counted"}}
      /\ UNCHANGED <<SEQ, push, files, client, accepted, before, got, torn>>
  BY ConstantsAssumption DEF ClockSetBack, TypeOK
<1>2. TypeOK'
  BY <1>1 DEF TypeOK
<1>3. SeqBehind' /\ FilesNamed' /\ NamesDiffer' /\ AcceptedWhole'
  BY <1>1 DEF FilesInv, SeqBehind, FilesNamed, NamesDiffer, Name, AcceptedWhole
<1>4. KeptOrHanded' /\ BeforeAccepted' /\ FilesAfter'
  BY <1>1 DEF FilesInv, KeptOrHanded, BeforeAccepted, Named, FilesAfter, Precedes
<1>5. Recent'
  BY <1>1 DEF FilesInv, Recent, Named
<1>6. CountedAfter'
  <2>1. \A n \in Pushes : \A m \in before[n] : m \in stale'
    <3> TAKE n \in Pushes
    <3> TAKE m \in before[n]
    <3>1. m \in Pushes /\ push[m].pc = "done"
      BY DEF TypeOK, FilesInv, BeforeAccepted, AcceptedWhole
    <3> QED BY <1>1, <3>1
  <2> QED BY <1>1, <2>1 DEF CountedAfter
<1> QED BY <1>2, <1>3, <1>4, <1>5, <1>6 DEF FilesInv

LEMMA RestartFiles ==
  ASSUME TypeOK, FilesInv, Restart
  PROVE  TypeOK' /\ FilesInv'
<1>1. /\ clock \in Nat /\ clock' = clock + 1 /\ clock' \in 0..MaxClock
      /\ SEQ' = 0 /\ client' = [c \in Clients |-> Idle]
      /\ UNCHANGED <<files, accepted, before, stale, got, torn>>
  BY ConstantsAssumption DEF Restart, TypeOK, history
<1>2. push' = [m \in Pushes |->
         IF push[m].pc \in {"counted", "created"}
           THEN [push[m] EXCEPT !.pc = "dead"] ELSE push[m]]
  BY DEF Restart
<1>3. ASSUME NEW m \in Pushes
      PROVE  /\ push'[m] \in PushRecords
             /\ push'[m].pc = IF push[m].pc \in {"counted", "created"}
                                THEN "dead" ELSE push[m].pc
             /\ push'[m].ts = push[m].ts /\ push'[m].seq = push[m].seq
             /\ push'[m].suffix = push[m].suffix
  <2>1. push[m] \in PushRecords
    BY PushType
  <2>2. CASE push[m].pc \in {"counted", "created"}
    <3>1. push'[m] = [push[m] EXCEPT !.pc = "dead"]
      BY <1>2, <2>2
    <3> QED BY <2>1, <2>2, <3>1 DEF PushRecords
  <2>3. CASE push[m].pc \notin {"counted", "created"}
    <3>1. push'[m] = push[m]
      BY <1>2, <2>3
    <3> QED BY <2>1, <2>3, <3>1
  <2> QED BY <2>2, <2>3
<1>4. TypeOK'
  <2>1. push' \in [Pushes -> PushRecords]
    BY <1>2, <1>3
  <2>2. Idle \in Clientele
    BY IdleType
  <2>3. client' \in [Clients -> Clientele]
    BY <1>1, <2>2
  <2>4. SEQ' \in 0..MaxPush
    BY <1>1, ConstantsAssumption
  <2> QED BY <1>1, <2>1, <2>3, <2>4 DEF TypeOK, PushRecords, Clientele, Replies
<1>5. DOMAIN files \subseteq Pushes /\ accepted \subseteq Pushes
      /\ \A n \in Pushes : before[n] \subseteq Pushes
  BY DEF TypeOK
<1>6. SeqBehind'
  BY <1>1, <1>3, PushType DEF FilesInv, SeqBehind, Pushes
<1>7. FilesNamed' /\ AcceptedWhole' /\ KeptOrHanded' /\ BeforeAccepted'
  BY <1>1, <1>3, <1>5 DEF FilesInv, FilesNamed, AcceptedWhole, KeptOrHanded,
     BeforeAccepted, Named
<1>8. NamesDiffer'
  <2>1. \A n \in DOMAIN files : Name(n)' = Name(n)
    BY <1>3, <1>5 DEF Name
  <2> QED BY <1>1, <2>1 DEF FilesInv, NamesDiffer
<1>9. Recent' /\ CountedAfter'
  <2> SUFFICES ASSUME NEW m \in Pushes
               PROVE  /\ push'[m].pc # "counted"
                      /\ Named(m)' /\ m \notin stale => push'[m].ts < clock'
    BY <1>1 DEF Recent, CountedAfter
  <2>1. push[m].ts \in Nat
    BY PushType
  <2> QED BY <1>1, <1>3, <2>1 DEF FilesInv, Recent, Named
<1>10. FilesAfter'
  BY <1>1, <1>3, <1>5 DEF FilesInv, FilesAfter, Precedes
<1> QED BY <1>4, <1>6, <1>7, <1>8, <1>9, <1>10 DEF FilesInv

-----------------------------------------------------------------------------
(* The clients, action by action.                                          *)

\* Pushes, the clock and other clients' deletions do not disturb a client.
LEMMA ClientKept ==
  ASSUME TypeOK, FilesInv, NEW c \in Clients, ClientInv(c),
         client'[c] = client[c],
         \A m \in Pushes : push[m].pc \notin {"new", "counted"} =>
           push'[m].pc \notin {"new", "counted"} /\ before'[m] = before[m],
         \A m \in accepted : m \in DOMAIN files' => m \in DOMAIN files,
         got \subseteq got', torn \subseteq torn'
  PROVE  ClientInv(c)'
<1>1. Listed(c)' = Listed(c) /\ Listed(c) \subseteq Pushes
      /\ Replied(c) \subseteq Listed(c)
  BY ClientType DEF Listed, Replied
<1>2. ListedNamed(c)' /\ WithinLimit(c)' /\ AckedHanded(c)'
  BY <1>1 DEF ClientInv, ListedNamed, WithinLimit, AckedHanded
<1>3. \A n \in Listed(c) :
        before'[n] = before[n]
        /\ before[n] \intersect DOMAIN files' \subseteq
             before[n] \intersect DOMAIN files
  BY <1>1 DEF ClientInv, ListedNamed, FilesInv, BeforeAccepted
<1>4. ListedWhole(c)'
  BY <1>1, <1>3 DEF ClientInv, ListedWhole
<1>5. InOrder(c)'
  <2> SUFFICES ASSUME NEW i \in DOMAIN client[c].reply,
                      NEW m \in before'[client[c].reply[i][1]]
                                  \intersect DOMAIN files'
               PROVE  \E j \in 1..i - 1 : client[c].reply[j][1] = m
    BY DEF InOrder
  <2>1. client[c].reply[i][1] \in Listed(c)
    BY <1>1 DEF Replied
  <2> QED BY <1>3, <2>1 DEF ClientInv, InOrder
<1> QED BY <1>2, <1>4, <1>5 DEF ClientInv

\* Client c moves, the others stay.
OneClient(c, v) ==
  /\ client' = [client EXCEPT ![c] = v]
  /\ UNCHANGED <<clock, SEQ, push, accepted, before, stale>>
  /\ got \subseteq got' /\ torn \subseteq torn'
  /\ got' \subseteq Pushes /\ torn' \subseteq Pushes
  /\ DOMAIN files' \subseteq DOMAIN files
  /\ \A m \in DOMAIN files' : files'[m] = files[m]
  /\ DOMAIN files \ DOMAIN files' \subseteq got \union torn

LEMMA OneClientMoves ==
  ASSUME IInv, NEW c \in Clients, NEW v \in Clientele, OneClient(c, v),
         ClientInv(c)'
  PROVE  IInv'
<1>1. client'[c] = v /\ \A d \in Clients : d # c => client'[d] = client[d]
  BY DEF IInv, TypeOK, OneClient
<1>2. TypeOK'
  <2>1. client' \in [Clients -> Clientele]
    BY DEF IInv, TypeOK, Clientele, Replies, OneClient
  <2>2. DOMAIN files' \subseteq Pushes /\ Range(files') \subseteq Contents
    BY FileType DEF IInv, OneClient, Range
  <2> QED BY <2>1, <2>2 DEF IInv, TypeOK, Clientele, Replies, OneClient
<1>3. FilesInv'
  BY ClientFiles DEF IInv, OneClient
<1>4. ASSUME NEW d \in Clients, d # c
      PROVE  ClientInv(d)'
  BY <1>1, <1>4, ClientKept DEF IInv, OneClient
<1> QED BY <1>2, <1>3, <1>4 DEF IInv

LEMMA IdleInv ==
  ASSUME NEW c \in Clients, client'[c] = Idle
  PROVE  ClientInv(c)'
<1>1. client'[c].pc = "idle" /\ client'[c].todo = {} /\ client'[c].reply = <<>>
  BY DEF Idle
<1>2. DOMAIN client'[c].reply = {}
  BY <1>1
<1>3. Listed(c)' = {}
  BY <1>1, <1>2 DEF Listed, Replied
<1> QED BY <1>1, <1>2, <1>3 DEF ClientInv, ListedNamed, WithinLimit, AckedHanded,
        ListedWhole, InOrder

LEMMA GoesIdle ==
  ASSUME IInv, NEW c \in Clients, client' = [client EXCEPT ![c] = Idle],
         UNCHANGED <<clock, SEQ, push, files, history>>
  PROVE  IInv'
<1>1. OneClient(c, Idle)
  BY DEF OneClient, IInv, TypeOK, history
<1>2. client'[c] = Idle
  BY DEF IInv, TypeOK
<1> QED BY <1>1, <1>2, IdleInv, IdleType, OneClientMoves

LEMMA ListStep ==
  ASSUME IInv, NEW c \in Clients, List(c)
  PROVE  IInv'
<1> DEFINE F == First(DOMAIN files, PullLimit)
           v == [pc |-> "read", todo |-> F, reply |-> <<>>]
<1>1. client' = [client EXCEPT ![c] = v]
      /\ UNCHANGED <<clock, SEQ, push, files, history>>
  BY DEF List
<1>2. /\ F \subseteq DOMAIN files /\ DOMAIN files \subseteq Pushes
      /\ IsFiniteSet(F) /\ Cardinality(F) <= PullLimit
      /\ \A n \in F : \A m \in DOMAIN files : NameBefore(m, n) => m \in F
  BY FirstFacts, ConstantsAssumption DEF IInv, TypeOK, FilesInv, NamesDiffer
<1>3. Cardinality(F) \in Nat
  BY <1>2, FS_CardinalityType
<1> HIDE DEF F
<1>4. v \in Clientele
  BY <1>2, IdleType DEF Idle, Clientele
<1>5. OneClient(c, v)
  BY <1>1 DEF OneClient, IInv, TypeOK, history
<1>6. client'[c] = v
  BY <1>1 DEF IInv, TypeOK
<1>7. DOMAIN client'[c].reply = {} /\ client'[c].todo = F
      /\ client'[c].pc = "read" /\ client'[c].reply = <<>>
  BY <1>6
<1>8. Listed(c)' = F
  BY <1>7 DEF Listed, Replied
<1>9. ListedNamed(c)'
  BY <1>1, <1>2, <1>8 DEF ListedNamed, IInv, FilesInv, FilesNamed
<1>10. WithinLimit(c)'
  <2>1. Cardinality(F) + Len(<<>>) <= PullLimit
    BY <1>2, <1>3
  <2> QED BY <1>7, <2>1 DEF WithinLimit
<1>11. ListedWhole(c)'
  <2>1. ASSUME NEW n \in F, NEW m \in before[n] \intersect DOMAIN files
        PROVE  m \in F
    <3>1. NameBefore(m, n)
      BY <1>2 DEF IInv, FilesInv, FilesAfter, Precedes, NameBefore
    <3> QED BY <1>2, <3>1
  <2> QED BY <1>1, <1>8, <2>1 DEF ListedWhole, history
<1>12. AckedHanded(c)' /\ InOrder(c)'
  BY <1>7 DEF AckedHanded, InOrder
<1>13. ClientInv(c)'
  BY <1>9, <1>10, <1>11, <1>12 DEF ClientInv
<1> HIDE DEF v
<1> QED BY <1>4, <1>5, <1>13, OneClientMoves

LEMMA ReadStep ==
  ASSUME IInv, NEW c \in Clients, Read(c)
  PROVE  IInv'
<1>1. PICK m \in First(client[c].todo, 1) :
        client' = [client EXCEPT ![c] =
          IF m \in DOMAIN files
            THEN [pc |-> "read", todo |-> client[c].todo \ {m},
                  reply |-> Append(client[c].reply, <<m, files[m]>>)]
            ELSE Idle]
  BY DEF Read
<1>2. client[c].pc = "read" /\ UNCHANGED <<clock, SEQ, push, files, history>>
  BY DEF Read
<1>3. CASE m \notin DOMAIN files
  <2>1. client' = [client EXCEPT ![c] = Idle]
    BY <1>1, <1>3
  <2> QED BY <1>2, <2>1, GoesIdle
<1>4. CASE m \in DOMAIN files
  <2> DEFINE T == client[c].todo
             r == client[c].reply
             s == Append(r, <<m, files[m]>>)
             v == [pc |-> "read", todo |-> T \ {m}, reply |-> s]
  <2>1. /\ client[c] \in Clientele /\ r \in Seq(Pushes \X Contents)
        /\ T \subseteq Pushes /\ IsFiniteSet(T) /\ Cardinality(T) \in Nat
        /\ Replied(c) \subseteq Pushes
    BY ClientType DEF IInv
  <2>2. m \in T /\ \A l \in T : ~ NameBefore(l, m)
    BY <2>1, FirstOne DEF IInv
  <2>3. <<m, files[m]>> \in Pushes \X Contents
    BY <1>4, <2>1, <2>2, FileType DEF IInv
  <2>4. /\ s \in Seq(Pushes \X Contents) /\ Len(s) = Len(r) + 1 /\ Len(r) \in Nat
        /\ DOMAIN s = 1..Len(r) + 1 /\ DOMAIN r = 1..Len(r)
        /\ s[Len(r) + 1] = <<m, files[m]>>
        /\ \A i \in 1..Len(r) : s[i] = r[i]
    BY <2>1, <2>3
  <2>5. client' = [client EXCEPT ![c] = v]
    BY <1>1, <1>4
  <2> HIDE DEF T, r, s
  <2>6. /\ client'[c].pc = "read" /\ client'[c].todo = T \ {m}
        /\ client'[c].reply = s
    BY <2>5 DEF IInv, TypeOK
  <2>7. /\ IsFiniteSet(T \ {m}) /\ Cardinality(T \ {m}) = Cardinality(T) - 1
    BY <2>1, <2>2, FS_RemoveElement
  <2>8. Cardinality(T) + Len(r) <= PullLimit
    BY <1>2 DEF IInv, ClientInv, WithinLimit, T, r
  <2>9. Cardinality(T \ {m}) \in Nat
    BY <2>7, FS_CardinalityType
  <2>10. Cardinality(T \ {m}) + Len(s) <= PullLimit /\ Len(s) <= PullLimit
    BY <2>1, <2>4, <2>7, <2>8, <2>9, ConstantsAssumption
  <2>11. v \in Clientele
    BY <2>1, <2>4, <2>10, ReplyType DEF Clientele
  <2>12. OneClient(c, v)
    BY <1>2, <2>5 DEF OneClient, IInv, TypeOK, history
  <2>13. Replied(c)' = Replied(c) \union {m}
    <3>1. Replied(c) = {r[i][1] : i \in 1..Len(r)}
      BY <2>4 DEF Replied, r
    <3>2. Replied(c)' = {s[i][1] : i \in 1..Len(r) + 1}
      BY <2>4, <2>6 DEF Replied
    <3>3. \A i \in 1..Len(r) + 1 : i \in 1..Len(r) \/ i = Len(r) + 1
      BY <2>4
    <3>4. \A i \in 1..Len(r) : i \in 1..Len(r) + 1
      BY <2>4
    <3>5. Len(r) + 1 \in 1..Len(r) + 1
      BY <2>4
    <3>6. Replied(c)' \subseteq Replied(c) \union {m}
      <4> SUFFICES ASSUME NEW x \in Replied(c)'
                   PROVE  x \in Replied(c) \union {m}
        OBVIOUS
      <4>1. PICK i \in 1..Len(r) + 1 : x = s[i][1]
        BY <3>2
      <4>2. CASE i \in 1..Len(r)
        BY <2>4, <3>1, <4>1, <4>2
      <4>3. CASE i = Len(r) + 1
        BY <2>4, <4>1, <4>3
      <4> QED BY <3>3, <4>2, <4>3
    <3>7. Replied(c) \subseteq Replied(c)'
      <4> SUFFICES ASSUME NEW x \in Replied(c)
                   PROVE  x \in Replied(c)'
        OBVIOUS
      <4>1. PICK i \in 1..Len(r) : x = r[i][1]
        BY <3>1
      <4>2. s[i] = r[i]
        BY <2>4
      <4> QED BY <3>2, <3>4, <4>1, <4>2
    <3>8. m \in Replied(c)'
      <4>1. s[Len(r) + 1][1] = m
        BY <2>4
      <4> QED BY <3>2, <3>5, <4>1
    <3> QED BY <3>6, <3>7, <3>8
  <2>14. Listed(c)' = Listed(c)
    BY <2>2, <2>6, <2>13 DEF Listed, T
  <2>15. ListedNamed(c)' /\ ListedWhole(c)'
    BY <1>2, <2>6, <2>14 DEF IInv, ClientInv, ListedNamed, ListedWhole, history
  <2>16. WithinLimit(c)' /\ AckedHanded(c)'
    BY <2>6, <2>10 DEF WithinLimit, AckedHanded
  <2>17. InOrder(c)'
    <3> SUFFICES ASSUME NEW i \in 1..Len(r) + 1,
                        NEW l \in before[s[i][1]] \intersect DOMAIN files
                 PROVE  \E j \in 1..i - 1 : s[j][1] = l
      BY <1>2, <2>4, <2>6 DEF InOrder, history
    <3>1. CASE i = Len(r) + 1
      <4>1. l \in before[m] /\ l \in DOMAIN files
        BY <2>4, <3>1
      <4>2. NameBefore(l, m)
        BY <1>4, <4>1 DEF IInv, FilesInv, FilesAfter, Precedes, NameBefore
      <4>3. l \in Listed(c)
        BY <1>2, <2>2, <4>1 DEF IInv, ClientInv, ListedWhole, Listed, T
      <4>4. l \in Replied(c)
        BY <2>2, <4>2, <4>3 DEF Listed, T
      <4>5. PICK j \in 1..Len(r) : r[j][1] = l
        BY <2>4, <4>4 DEF Replied, r
      <4>6. j \in 1..i - 1 /\ s[j][1] = l
        BY <2>4, <3>1, <4>5
      <4> QED BY <4>6
    <3>2. CASE i # Len(r) + 1
      <4>1. i \in 1..Len(r) /\ i \in DOMAIN r /\ s[i] = r[i]
        BY <2>4, <3>2
      <4>2. PICK j \in 1..i - 1 : r[j][1] = l
        BY <4>1 DEF IInv, ClientInv, InOrder, r
      <4>3. s[j] = r[j]
        BY <2>4, <4>1
      <4> QED BY <4>2, <4>3
    <3> QED BY <3>1, <3>2
  <2>18. ClientInv(c)'
    BY <2>15, <2>16, <2>17 DEF ClientInv
  <2> HIDE DEF v
  <2> QED BY <2>11, <2>12, <2>18, OneClientMoves
<1> QED BY <1>3, <1>4

LEMMA ReceiveStep ==
  ASSUME IInv, NEW c \in Clients, Receive(c)
  PROVE  IInv'
<1> DEFINE r == client[c].reply
           msgs == Range(r)
           v == [pc |-> "ack", todo |-> {x[1] : x \in msgs}, reply |-> <<>>]
<1>1. /\ client' = [client EXCEPT ![c] = v]
      /\ got' = got \union {x[1] : x \in {y \in msgs : y[2] = "whole"}}
      /\ torn' = torn \union {x[1] : x \in {y \in msgs : y[2] = "empty"}}
      /\ UNCHANGED <<clock, SEQ, push, files, accepted, before, stale>>
  BY DEF Receive
<1>2. r \in Seq(Pushes \X Contents) /\ Replied(c) \subseteq Pushes
  BY ClientType DEF IInv
<1>3. msgs \subseteq Pushes \X Contents
  BY <1>2 DEF Range
<1>4. {x[1] : x \in msgs} = Replied(c)
  BY DEF Replied, Range
<1> HIDE DEF msgs
<1>5. got' \subseteq Pushes /\ torn' \subseteq Pushes
  BY <1>1, <1>3 DEF IInv, TypeOK
<1>6. \A x \in msgs : x[1] \in got' \union torn'
  <2> TAKE x \in msgs
  <2>1. x[2] = "whole" \/ x[2] = "empty"
    BY <1>3 DEF Contents
  <2> QED BY <1>1, <2>1
<1>7. v \in Clientele
  BY <1>2, <1>4, IdleType DEF Idle, Clientele
<1>8. OneClient(c, v)
  BY <1>1, <1>5 DEF OneClient
<1>9. client'[c].pc = "ack" /\ client'[c].todo = Replied(c)
      /\ client'[c].reply = <<>>
  BY <1>1, <1>4 DEF IInv, TypeOK
<1>10. DOMAIN client'[c].reply = {} /\ Listed(c)' = Replied(c)
  BY <1>9 DEF Listed, Replied
<1>11. ListedNamed(c)'
  BY <1>1, <1>10 DEF IInv, ClientInv, ListedNamed, Listed
<1>12. AckedHanded(c)'
  BY <1>4, <1>6, <1>9 DEF AckedHanded
<1>13. WithinLimit(c)' /\ ListedWhole(c)' /\ InOrder(c)'
  BY <1>9, <1>10 DEF WithinLimit, ListedWhole, InOrder
<1>14. ClientInv(c)'
  BY <1>11, <1>12, <1>13 DEF ClientInv
<1> HIDE DEF v
<1> QED BY <1>7, <1>8, <1>14, OneClientMoves

LEMMA DeleteStep ==
  ASSUME IInv, NEW c \in Clients, Delete(c)
  PROVE  IInv'
<1>1. PICK m \in client[c].todo :
        /\ client' = [client EXCEPT ![c].todo = @ \ {m}]
        /\ files' = Restrict(files, DOMAIN files \ {m})
  BY DEF Delete
<1>2. client[c].pc = "ack" /\ UNCHANGED <<clock, SEQ, push, history>>
  BY DEF Delete
<1> DEFINE T == client[c].todo
           v == [pc |-> "ack", todo |-> T \ {m}, reply |-> <<>>]
<1>3. client[c] \in Clientele
  BY ClientType DEF IInv
<1>4. client[c].reply = <<>>
  BY <1>2 DEF IInv, ClientInv, WithinLimit
<1>5. client' = [client EXCEPT ![c] = v]
  <2> DEFINE x == client[c]
             D == T \ {m}
  <2>1. x = [pc |-> "ack", todo |-> T, reply |-> <<>>]
    BY <1>2, <1>3, <1>4 DEF Clientele
  <2>2. [x EXCEPT !.todo = D] = [pc |-> "ack", todo |-> D, reply |-> <<>>]
    <3> HIDE DEF T, D, x
    <3> QED BY <2>1
  <2>3. client' = [client EXCEPT ![c] = [x EXCEPT !.todo = D]]
    BY <1>1
  <2>4. v = [pc |-> "ack", todo |-> D, reply |-> <<>>]
    OBVIOUS
  <2> HIDE DEF D, v, x
  <2> QED BY <2>2, <2>3, <2>4
<1>6. v \in Clientele
  BY <1>3, IdleType DEF Idle, Clientele
<1>7. m \in got \union torn /\ T \subseteq got \union torn
  BY <1>2 DEF IInv, ClientInv, AckedHanded
<1>8. DOMAIN files' = DOMAIN files \ {m}
      /\ \A n \in DOMAIN files' : files'[n] = files[n]
  BY <1>1 DEF Restrict
<1>9. OneClient(c, v)
  BY <1>2, <1>5, <1>7, <1>8 DEF OneClient, IInv, TypeOK, history
<1>10. client'[c].pc = "ack" /\ client'[c].todo = T \ {m}
       /\ client'[c].reply = <<>>
  BY <1>5 DEF IInv, TypeOK
<1>11. DOMAIN client'[c].reply = {} /\ Listed(c)' \subseteq Listed(c)
  BY <1>10 DEF Listed, Replied
<1>12. ListedNamed(c)' /\ AckedHanded(c)'
  BY <1>2, <1>7, <1>10, <1>11 DEF IInv, ClientInv, ListedNamed, AckedHanded, history
<1>13. WithinLimit(c)' /\ ListedWhole(c)' /\ InOrder(c)'
  BY <1>10, <1>11 DEF WithinLimit, ListedWhole, InOrder
<1>14. ClientInv(c)'
  BY <1>12, <1>13 DEF ClientInv
<1> HIDE DEF v
<1> QED BY <1>6, <1>9, <1>14, OneClientMoves

\* A step of a push, the clock or the service leaves clients as they are.
LEMMA ClientsKept ==
  ASSUME IInv, UNCHANGED client, got' = got, torn' = torn,
         \A m \in Pushes : push[m].pc \notin {"new", "counted"} =>
           push'[m].pc \notin {"new", "counted"} /\ before'[m] = before[m],
         \A m \in accepted : m \in DOMAIN files' => m \in DOMAIN files
  PROVE  \A c \in Clients : ClientInv(c)'
BY ClientKept DEF IInv

LEMMA PushStep ==
  ASSUME IInv, NEW m \in Pushes, Count(m) \/ Create(m) \/ Write(m)
  PROVE  IInv'
<1>1. TypeOK' /\ FilesInv'
  BY CountFiles, CreateFiles, WriteFiles DEF IInv
<1>2. UNCHANGED client /\ got' = got /\ torn' = torn
  BY DEF Count, Create, Write
<1>3. ASSUME NEW n \in Pushes, push[n].pc \notin {"new", "counted"}
      PROVE  push'[n].pc \notin {"new", "counted"} /\ before'[n] = before[n]
  <2>1. CASE Count(m)
    BY <1>3, <2>1 DEF Count, IInv, TypeOK
  <2>2. CASE Create(m)
    BY <1>3, <2>2 DEF Create, IInv, TypeOK
  <2>3. CASE Write(m)
    BY <1>3, <2>3, PushType DEF Write, IInv, TypeOK
  <2> QED BY <2>1, <2>2, <2>3
<1>4. ASSUME NEW n \in accepted, n \in DOMAIN files'
      PROVE  n \in DOMAIN files
  <2>1. push[n].pc = "done"
    BY DEF IInv, FilesInv, AcceptedWhole
  <2> QED BY <1>4, <2>1 DEF Count, Create, Write
<1> QED BY <1>1, <1>2, <1>3, <1>4, ClientsKept DEF IInv

LEMMA ClockStep ==
  ASSUME IInv, Tick \/ ClockSetBack
  PROVE  IInv'
<1>1. TypeOK' /\ FilesInv'
  BY TickFiles, SetBackFiles DEF IInv
<1>2. UNCHANGED <<client, push, files, before, got, torn>>
  BY DEF Tick, ClockSetBack, history
<1> QED BY <1>1, <1>2, ClientsKept DEF IInv

LEMMA RestartStep ==
  ASSUME IInv, Restart
  PROVE  IInv'
<1>1. TypeOK' /\ FilesInv'
  BY RestartFiles DEF IInv
<1>2. \A c \in Clients : client'[c] = Idle
  BY DEF Restart
<1> QED BY <1>1, <1>2, IdleInv DEF IInv

LEMMA IInvInit == Init => IInv
<1> SUFFICES ASSUME Init
             PROVE  IInv
  OBVIOUS
<1>1. \A m \in Pushes : push[m] = [pc |-> "new", ts |-> 0, seq |-> 0, suffix |-> 0]
  BY DEF Init
<1>2. DOMAIN files = {} /\ Range(files) = {}
  BY DEF Init, Range
<1>3. TypeOK
  <2>1. 0 \in 0..MaxClock /\ 0 \in 0..MaxPush
    BY ConstantsAssumption
  <2>2. push \in [Pushes -> PushRecords]
    <3>1. [pc |-> "new", ts |-> 0, seq |-> 0, suffix |-> 0] \in PushRecords
      BY <2>1 DEF PushRecords
    <3> QED BY <3>1 DEF Init
  <2>3. client \in [Clients -> Clientele]
    BY IdleType DEF Init
  <2>4. /\ clock \in 0..MaxClock /\ SEQ \in 0..MaxPush
        /\ before \in [Pushes -> SUBSET Pushes]
        /\ accepted \subseteq Pushes /\ stale \subseteq Pushes
        /\ got \subseteq Pushes /\ torn \subseteq Pushes
    BY <2>1 DEF Init
  <2> QED BY <1>2, <2>2, <2>3, <2>4 DEF TypeOK, PushRecords, Clientele, Replies
<1>4. FilesInv
  <2>1. SeqBehind
    BY ConstantsAssumption DEF Init, SeqBehind, Pushes
  <2>2. FilesNamed /\ NamesDiffer /\ FilesAfter
    BY <1>2 DEF FilesNamed, NamesDiffer, FilesAfter
  <2>3. AcceptedWhole /\ BeforeAccepted
    BY DEF Init, AcceptedWhole, BeforeAccepted
  <2>4. KeptOrHanded /\ Recent /\ CountedAfter
    BY <1>1 DEF KeptOrHanded, Recent, CountedAfter, Named
  <2> QED BY <2>1, <2>2, <2>3, <2>4 DEF FilesInv
<1>5. ASSUME NEW c \in Clients
      PROVE  ClientInv(c)
  <2>1. client[c].pc = "idle" /\ client[c].todo = {} /\ client[c].reply = <<>>
    BY DEF Init, Idle
  <2>2. DOMAIN client[c].reply = {}
    BY <2>1
  <2>3. Listed(c) = {}
    BY <2>1, <2>2 DEF Listed, Replied
  <2> QED BY <2>1, <2>2, <2>3 DEF ClientInv, ListedNamed, WithinLimit,
          AckedHanded, ListedWhole, InOrder
<1> QED BY <1>3, <1>4, <1>5 DEF IInv

LEMMA IInvStep == IInv /\ [Next]_vars => IInv'
<1> SUFFICES ASSUME IInv, [Next]_vars
             PROVE  IInv'
  OBVIOUS
<1>1. ASSUME NEW m \in Pushes, Count(m) \/ Create(m) \/ Write(m)
      PROVE  IInv'
  BY <1>1, PushStep
<1>2. ASSUME NEW c \in Clients, List(c)
      PROVE  IInv'
  BY <1>2, ListStep
<1>3. ASSUME NEW c \in Clients, Read(c)
      PROVE  IInv'
  BY <1>3, ReadStep
<1>4. ASSUME NEW c \in Clients, Receive(c)
      PROVE  IInv'
  BY <1>4, ReceiveStep
<1>5. ASSUME NEW c \in Clients, Lost(c) \/ Acked(c)
      PROVE  IInv'
  <2>1. client' = [client EXCEPT ![c] = Idle]
        /\ UNCHANGED <<clock, SEQ, push, files, history>>
    BY <1>5 DEF Lost, Acked
  <2> QED BY <2>1, GoesIdle
<1>6. ASSUME NEW c \in Clients, Delete(c)
      PROVE  IInv'
  BY <1>6, DeleteStep
<1>7. CASE Tick \/ ClockSetBack
  BY <1>7, ClockStep
<1>8. CASE Restart
  BY <1>8, RestartStep
<1>9. CASE UNCHANGED vars
  <2>1. UNCHANGED <<clock, SEQ, push, files, client, accepted, before, stale,
                    got, torn>>
    BY <1>9 DEF vars
  <2>2. TypeOK'
    BY <2>1 DEF IInv, TypeOK
  <2>3. FilesInv'
    BY <2>1, ClientFiles DEF IInv
  <2> QED BY <2>1, <2>2, <2>3, ClientsKept DEF IInv
<1> QED BY <1>1, <1>2, <1>3, <1>4, <1>5, <1>6, <1>7, <1>8, <1>9 DEF Next

LEMMA IInvAlways == Spec => []IInv
BY IInvInit, IInvStep, PTL DEF Spec

-----------------------------------------------------------------------------
(* The results.                                                            *)

\* The handlers and the poll loops keep the store's files, counter and answers
\* well formed; an answer never holds more than pull_limit messages.
THEOREM TypeCorrect == Spec => []TypeOK
<1>1. IInv => TypeOK
  BY DEF IInv
<1> QED BY <1>1, IInvAlways, PTL

\* A message the service accepted is on disk in full until a client has
\* received it, in full or before it was written, whatever pushes, pulls, acks,
\* lost answers, restarts and clock changes come between.
THEOREM LosesNothingElse == Spec => []LostOnlyByTornRead
<1>1. IInv => LostOnlyByTornRead
  <2> SUFFICES ASSUME IInv, NEW m \in accepted
               PROVE  \/ m \in got \union torn
                      \/ m \in DOMAIN files /\ files[m] = "whole"
    BY DEF LostOnlyByTornRead
  <2>1. m \in Pushes /\ Named(m)
    BY DEF IInv, TypeOK, FilesInv, AcceptedWhole, Named
  <2>2. m \in DOMAIN files \union got \union torn
    BY <2>1 DEF IInv, FilesInv, KeptOrHanded
  <2> QED BY <2>2 DEF IInv, FilesInv, AcceptedWhole
<1> QED BY <1>1, IInvAlways, PTL

\* A pull answers oldest first: no message ahead of one that had been accepted
\* before its own push began and is still on disk, but for those named before
\* the clock was set back.
THEOREM ArrivalOrder == Spec => []NoOvertaking
<1>1. IInv => NoOvertaking
  BY DEF IInv, ClientInv, InOrder, NoOvertaking
<1> QED BY <1>1, IInvAlways, PTL
=============================================================================
