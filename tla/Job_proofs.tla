----------------------------- MODULE Job_proofs -----------------------------
(***************************************************************************)
(* Theorems about Job, for any number of messages, threads, stops,         *)
(* retirements, failed writes and crashes.                                 *)
(***************************************************************************)
EXTENDS Job, SequenceTheorems, TLAPS

(* A record whose inbox holds messages up to n, in the order they arrived. *)
InOrder(j, n) ==
  /\ j \in Record
  /\ j.given <= Len(j.mail)
  /\ \A i, k \in 1..Len(j.mail) : i < k => j.mail[i] < j.mail[k]
  /\ \A i \in 1..Len(j.mail) : j.mail[i] <= n

Queue(q, n) ==
  /\ q \in Seq(Deferred)
  /\ \A i \in 1..Len(q) : InOrder(q[i].snap, n)

(* A crash brings back whatever record had reached the disk, so the order  *)
(* of the inbox is inductive only together with that of every record       *)
(* written or being written.                                               *)
Kept(n) ==
  /\ InOrder(job, n)
  /\ turn \in Turn
  /\ stopsHeld \in BOOLEAN
  /\ pending \in {"None", "Job", "Steer"}
  /\ read \in {NoMessage} \union Message
  /\ Queue(deferred, n)
  /\ out \subseteq Effect

Inv ==
  /\ Kept(said)
  /\ timers \in Nat
  /\ InOrder(disk, said)
  /\ container \in BOOLEAN
  /\ said \in Nat
  /\ fate \in [Message -> Fates]
  /\ put \in [Message -> Nat]
  /\ announced \in BOOLEAN
  /\ used \in [stops : Nat, retires : Nat, failures : Nat, crashes : Nat]

----------------------------------------------------------------------------
(* The inbox. *)

LEMMA HandBackInOrder ==
  ASSUME NEW n \in Nat, NEW j, InOrder(j, n)
  PROVE  InOrder(HandBack(j), n)
  BY DEF InOrder, HandBack, Record, Message

LEMMA GiveInOrder ==
  ASSUME NEW n \in Nat, NEW j, InOrder(j, n), HasNext(j)
  PROVE  InOrder(Give(j), n)
  BY DEF InOrder, Give, HasNext, Record, Message

\* A record whose inbox is replaced by one in order.
LEMMA ReplacedInOrder ==
  ASSUME NEW n \in Nat, NEW j \in Record,
         NEW m \in Seq(Message), NEW g \in Nat, g <= Len(m),
         \A i, k \in 1..Len(m) : i < k => m[i] < m[k],
         \A i \in 1..Len(m) : m[i] <= n
  PROVE  InOrder([j EXCEPT !.mail = m, !.given = g], n)
  BY DEF InOrder, Record

LEMMA DrainInOrder ==
  ASSUME NEW n \in Nat, NEW j, InOrder(j, n)
  PROVE  InOrder(Drain(j), n)
  <1>1. <<>> \in Seq(Message) /\ Len(<<>>) = 0 /\ 0 \in Nat /\ 0 <= 0
    BY EmptySeq
  <1>2. 1..0 = {}  OBVIOUS
  <1>3. InOrder([j EXCEPT !.mail = <<>>, !.given = 0], n)
    BY <1>1, <1>2, ReplacedInOrder, Zenon DEF InOrder
  <1>. QED  BY <1>3 DEF Drain

LEMMA SuffixInOrder ==
  ASSUME NEW n \in Nat, NEW s \in Seq(Message), NEW g \in Nat, g <= Len(s),
         \A i, k \in 1..Len(s) : i < k => s[i] < s[k],
         \A i \in 1..Len(s) : s[i] <= n
  PROVE  LET m == SubSeq(s, g + 1, Len(s)) IN
         /\ m \in Seq(Message)
         /\ \A i, k \in 1..Len(m) : i < k => m[i] < m[k]
         /\ \A i \in 1..Len(m) : m[i] <= n
  <1> DEFINE m == SubSeq(s, g + 1, Len(s))
  <1>1. /\ m \in Seq(Message)
        /\ Len(m) = Len(s) - g
        /\ \A i \in 1..Len(s) - g : m[i] = s[i + g]
    OBVIOUS
  <1> HIDE DEF m
  <1>2. \A i \in 1..Len(m) : i + g \in 1..Len(s) /\ m[i] = s[i + g]
    BY <1>1
  <1>3. \A i, k \in 1..Len(m) : i < k => m[i] < m[k]
    BY <1>2
  <1>4. \A i \in 1..Len(m) : m[i] <= n
    BY <1>2
  <1>. QED  BY <1>1, <1>3, <1>4, Zenon DEF m

LEMMA FinishInOrder ==
  ASSUME NEW n \in Nat, NEW j, InOrder(j, n)
  PROVE  InOrder(Finish(j), n)
  <1>1. /\ j \in Record /\ j.mail \in Seq(Message) /\ j.given \in Nat
        /\ j.given <= Len(j.mail)
    BY DEF InOrder, Record
  <1> DEFINE m == SubSeq(j.mail, j.given + 1, Len(j.mail))
  <1>2. /\ m \in Seq(Message)
        /\ \A i, k \in 1..Len(m) : i < k => m[i] < m[k]
        /\ \A i \in 1..Len(m) : m[i] <= n
    BY <1>1, SuffixInOrder, Zenon DEF InOrder
  <1>3. m \in Seq(Message) => 0 <= Len(m) /\ 0 \in Nat
    BY LenProperties
  <1> HIDE DEF m
  <1>4. InOrder([j EXCEPT !.mail = m, !.given = 0], n)
    BY <1>1, <1>2, <1>3, ReplacedInOrder, Zenon
  <1>. QED  BY <1>4 DEF Finish, m

LEMMA ReceiveInOrder ==
  ASSUME NEW n \in Nat, NEW j, InOrder(j, n), n + 1 \in Message
  PROVE  InOrder(Receive(j, n + 1), n + 1)
  <1>1. /\ j \in Record /\ j.mail \in Seq(Message) /\ j.given \in Nat
        /\ j.given <= Len(j.mail) /\ Len(j.mail) \in Nat
    BY LenProperties DEF InOrder, Record
  <1> DEFINE more == Append(j.mail, n + 1)
  <1>2. /\ more \in Seq(Message)
        /\ Len(more) = Len(j.mail) + 1
        /\ \A i \in 1..Len(j.mail) : more[i] = j.mail[i]
        /\ more[Len(j.mail) + 1] = n + 1
    BY <1>1
  <1>3. Receive(j, n + 1) = [j EXCEPT !.mail = more]
    BY DEF Receive
  <1> HIDE DEF more
  <1>4. /\ Receive(j, n + 1) \in Record
        /\ Receive(j, n + 1).mail = more
        /\ Receive(j, n + 1).given = j.given
    BY <1>1, <1>2, <1>3 DEF Record
  <1>5. \A i \in 1..Len(j.mail) :
          j.mail[i] \in Int /\ j.mail[i] <= n /\ j.mail[i] < n + 1
    <2> SUFFICES ASSUME NEW i \in 1..Len(j.mail)
                 PROVE  j.mail[i] \in Int /\ j.mail[i] <= n /\ j.mail[i] < n + 1
      OBVIOUS
    <2>1. j.mail[i] \in Message  BY <1>1, ElementOfSeq
    <2>2. j.mail[i] <= n  BY DEF InOrder
    <2>. QED  BY <2>1, <2>2 DEF Message
  <1>6. \A i, k \in 1..Len(more) : i < k => more[i] < more[k]
    <2> SUFFICES ASSUME NEW i \in 1..Len(more), NEW k \in 1..Len(more), i < k
                 PROVE  more[i] < more[k]
      OBVIOUS
    <2>1. i \in 1..Len(j.mail)  BY <1>1, <1>2
    <2>2. CASE k = Len(j.mail) + 1  BY <1>2, <1>5, <2>1, <2>2
    <2>3. CASE k \in 1..Len(j.mail)  BY <1>2, <2>1, <2>3 DEF InOrder
    <2>. QED  BY <1>1, <1>2, <2>2, <2>3
  <1>7. \A i \in 1..Len(more) : more[i] <= n + 1
    BY SMTT(30), <1>1, <1>2, <1>5 DEF Message
  <1>. QED  BY <1>1, <1>2, <1>4, <1>6, <1>7 DEF InOrder

LEMMA InOrderLater ==
  ASSUME NEW n \in Nat, NEW j, InOrder(j, n)
  PROVE  InOrder(j, n + 1)
  <1>1. j.mail \in Seq(Message)  BY DEF InOrder, Record
  <1>2. \A i \in 1..Len(j.mail) : j.mail[i] <= n + 1
    <2> SUFFICES ASSUME NEW i \in 1..Len(j.mail)
                 PROVE  j.mail[i] <= n + 1
      OBVIOUS
    <2>1. j.mail[i] \in Message  BY <1>1, ElementOfSeq
    <2>2. j.mail[i] <= n  BY DEF InOrder
    <2>. QED  BY <2>1, <2>2 DEF Message
  <1>. QED  BY <1>2 DEF InOrder

LEMMA ProgressInOrder ==
  ASSUME NEW n \in Nat, NEW j, InOrder(j, n), NEW p \in Progress
  PROVE  InOrder([j EXCEPT !.progress = p], n)
  BY DEF InOrder, Record

----------------------------------------------------------------------------
(* The writes in flight. *)

LEMMA AppendQueue ==
  ASSUME NEW n \in Nat, NEW q, Queue(q, n),
         NEW j, InOrder(j, n), NEW e \in SUBSET Effect
  PROVE  Queue(Append(q, [snap |-> j, effects |-> e]), n)
  BY DEF Queue, InOrder, Deferred

LEMMA TailQueue ==
  ASSUME NEW n \in Nat, NEW q, Queue(q, n), q # <<>>
  PROVE  /\ Queue(Tail(q), n)
         /\ InOrder(Head(q).snap, n)
         /\ Head(q).effects \subseteq Effect
  <1>1. q \in Seq(Deferred) /\ Len(q) \in Nat \ {0}
    BY EmptySeq DEF Queue
  <1>2. /\ Tail(q) \in Seq(Deferred)
        /\ Len(Tail(q)) = Len(q) - 1
        /\ \A i \in 1..Len(Tail(q)) : Tail(q)[i] = q[i + 1]
        /\ Head(q) \in Deferred
    BY <1>1, HeadTailProperties
  <1>3. Head(q) = q[1]  BY <1>1
  <1>4. \A i \in 1..Len(Tail(q)) : InOrder(Tail(q)[i].snap, n)
    BY <1>1, <1>2 DEF Queue
  <1>5. InOrder(q[1].snap, n)  BY <1>1 DEF Queue
  <1>. QED  BY <1>2, <1>3, <1>4, <1>5 DEF Queue, Deferred

LEMMA LaterQueue ==
  ASSUME NEW n \in Nat, NEW q, Queue(q, n)
  PROVE  Queue(q, n + 1)
  BY InOrderLater DEF Queue

\* Writes keep their records and their order when what waits on them changes.
LEMMA SameSnapsQueue ==
  ASSUME NEW n \in Nat, NEW q, Queue(q, n),
         NEW p \in Seq(Deferred), Len(p) = Len(q),
         \A i \in 1..Len(q) : p[i].snap = q[i].snap
  PROVE  Queue(p, n)
  BY DEF Queue

LEMMA AddedQueue ==
  ASSUME NEW n \in Nat, NEW q, Queue(q, n), q # <<>>, NEW e \in SUBSET Effect
  PROVE  Queue([q EXCEPT ![Len(q)].effects = @ \union e], n)
  <1>1. q \in Seq(Deferred) /\ Len(q) \in Nat \ {0} /\ Len(q) \in 1..Len(q)
    BY EmptySeq DEF Queue
  <1> DEFINE l == [q[Len(q)] EXCEPT !.effects = @ \union e]
             p == [q EXCEPT ![Len(q)] = l]
  <1>2. q[Len(q)] \in Deferred  BY <1>1, ElementOfSeq
  <1>3. l \in Deferred /\ l.snap = q[Len(q)].snap  BY <1>2 DEF Deferred
  <1> HIDE DEF l
  <1>4. /\ p \in Seq(Deferred) /\ Len(p) = Len(q)
        /\ \A i \in 1..Len(q) : p[i] = IF i = Len(q) THEN l ELSE q[i]
    BY <1>1, <1>3, ExceptSeq
  <1>5. [q EXCEPT ![Len(q)].effects = @ \union e] = p  BY DEF l
  <1> HIDE DEF p
  <1>6. Queue(p, n)  BY <1>3, <1>4, SameSnapsQueue
  <1>. QED  BY <1>5, <1>6

LEMMA UnspokenQueue ==
  ASSUME NEW n \in Nat, NEW q, Queue(q, n)
  PROVE  Queue(Unspoken(q), n)
  <1>1. q \in Seq(Deferred) /\ Len(q) \in Nat /\ DOMAIN q = 1..Len(q)
    BY LenProperties DEF Queue
  <1>2. \A i \in 1..Len(q) : q[i] \in Deferred
    BY <1>1, ElementOfSeq
  <1>3. \A i \in 1..Len(q) :
          /\ Unspoken(q)[i] \in Deferred
          /\ Unspoken(q)[i].snap = q[i].snap
    BY <1>1, <1>2 DEF Unspoken, Unsteered, Deferred
  <1>4. Unspoken(q) \in [1..Len(q) -> Deferred]
    BY <1>1, <1>3 DEF Unspoken
  <1>5. Unspoken(q) \in Seq(Deferred) /\ Len(Unspoken(q)) = Len(q)
    BY <1>1, <1>4
  <1>. QED  BY <1>3, <1>5, SameSnapsQueue

LEMMA EmptyQueue == \A n \in Nat : Queue(<<>>, n)
  BY DEF Queue

----------------------------------------------------------------------------
(* What ends a step. *)

LEMMA EffectsTyped ==
  /\ {Step, MakeRoom, Discard} \subseteq Effect
  /\ \A m \in Message : {Start(m), Hand(m), Steer(m), Seen(m)} \subseteq Effect
  /\ \A e \in SUBSET Effect : Unsteered(e) \subseteq Effect
  BY DEF Effect, Step, MakeRoom, Discard, Start, Hand, Steer, Seen, Unsteered

LEMMA WriteKept ==
  ASSUME NEW n \in Nat, NEW q, Queue(q, n), InOrder(job', n),
         NEW o \in SUBSET Effect, NEW e \in SUBSET Effect, Write(q, o, e)
  PROVE  Queue(deferred', n) /\ out' \subseteq Effect
  BY AppendQueue DEF Write

LEMMA AfterWritesKept ==
  ASSUME NEW n \in Nat, NEW q, Queue(q, n),
         NEW o \in SUBSET Effect, NEW e \in SUBSET Effect, AfterWrites(q, o, e)
  PROVE  Queue(deferred', n) /\ out' \subseteq Effect
  BY AddedQueue DEF AfterWrites

LEMMA ReleaseKept ==
  ASSUME NEW n \in Nat, NEW q, Queue(q, n),
         NEW o \in SUBSET Effect, NEW e \in SUBSET Effect, Release(q, o, e)
  PROVE  Queue(deferred', n) /\ out' \subseteq Effect
  BY DEF Release

LEMMA GivenIsMessage ==
  ASSUME NEW n \in Nat, NEW j, InOrder(j, n)
  PROVE  /\ j.given > 0 => LastGiven(j) \in Message
         /\ HasNext(j) => j.mail[j.given + 1] \in Message
  <1>1. /\ j.mail \in Seq(Message) /\ j.given \in Nat
        /\ j.given <= Len(j.mail)
    BY DEF InOrder, Record
  <1>2. \A i \in 1..Len(j.mail) : j.mail[i] \in Message
    BY <1>1, ElementOfSeq
  <1>. QED  BY <1>1, <1>2 DEF LastGiven, HasNext

LEMMA TurnsTyped ==
  /\ NoTurn \in Turn
  /\ \A m, r \in {NoMessage} \union Message :
       stopsHeld \in BOOLEAN => Resumed(m, r) \in Turn
  BY DEF NoTurn, Turn, Resumed, Stage, Commanding, Speaking

----------------------------------------------------------------------------
(* Starting a turn, handing a message to one, and ending one. *)

LEMMA StartGivenKept ==
  ASSUME NEW n \in Nat, Kept(n),
         NEW j, InOrder(j, n), j.given > 0,
         NEW q, Queue(q, n), NEW o \in SUBSET Effect, NEW e \in SUBSET Effect,
         StartGiven(j, q, o, e)
  PROVE  Kept(n)'
  <1> DEFINE m == LastGiven(j)
  <1>1. m \in Message  BY GivenIsMessage
  <1>2. job' = j /\ InOrder(job', n)  BY DEF StartGiven
  <1> HIDE DEF m
  <1>3. CASE m \in Threaded
    <2>1. /\ pending' = "Job" /\ turn' = NoTurn
          /\ UNCHANGED <<read, stopsHeld>>
          /\ Write(q, o, e \union {Start(m)})
      BY <1>3 DEF StartGiven, m
    <2>2. e \union {Start(m)} \in SUBSET Effect  BY <1>1, EffectsTyped
    <2>3. Queue(deferred', n) /\ out' \subseteq Effect
      BY <1>2, <2>1, <2>2, WriteKept
    <2>. QED  BY <1>2, <2>1, <2>3, TurnsTyped DEF Kept
  <1>4. CASE m \notin Threaded
    <2>1. /\ turn' = Resumed(m, read) /\ stopsHeld' = FALSE
          /\ read' = NoMessage /\ pending' = pending
          /\ Write(q, o, e \union {Step})
      BY <1>4 DEF StartGiven, Registered, m
    <2>2. e \union {Step} \in SUBSET Effect  BY EffectsTyped
    <2>3. Queue(deferred', n) /\ out' \subseteq Effect
      BY <1>2, <2>1, <2>2, WriteKept
    <2>. QED  BY <1>1, <1>2, <2>1, <2>3, TurnsTyped DEF Kept
  <1>. QED  BY <1>3, <1>4

LEMMA DeliverKept ==
  ASSUME NEW n \in Nat, Kept(n),
         NEW j, InOrder(j, n), HasNext(j), NEW t \in Turn,
         NEW o \in SUBSET Effect, NEW e \in SUBSET Effect,
         Deliver(j, t, o, e)
  PROVE  Kept(n)'
  <1> DEFINE m == j.mail[j.given + 1]
  <1>1. m \in Message  BY GivenIsMessage
  <1>2. job' = Give(j) /\ InOrder(job', n) /\ stopsHeld' = stopsHeld
    BY GiveInOrder DEF Deliver
  <1> HIDE DEF m
  <1>3. CASE m \in Threaded
    <2>1. /\ turn' = [t EXCEPT !.delivery = "InFlight"]
          /\ pending' = "Steer" /\ read' = read
          /\ Write(deferred, o, e \union {Hand(m)})
      BY <1>3 DEF Deliver, m
    <2>2. e \union {Hand(m)} \in SUBSET Effect  BY <1>1, EffectsTyped
    <2>3. Queue(deferred', n) /\ out' \subseteq Effect
      BY <1>2, <2>1, <2>2, WriteKept DEF Kept
    <2>4. turn' \in Turn  BY <2>1 DEF Turn
    <2>. QED  BY <1>2, <2>1, <2>3, <2>4 DEF Kept
  <1>4. CASE m \notin Threaded
    <2>1. /\ turn' = [t EXCEPT !.delivery = "InFlight", !.steering = TRUE]
          /\ read' = NoMessage /\ pending' = pending
          /\ Write(deferred, o, e \union {Steer(m)})
      BY <1>4 DEF Deliver, m
    <2>2. e \union {Steer(m)} \in SUBSET Effect  BY <1>1, EffectsTyped
    <2>3. Queue(deferred', n) /\ out' \subseteq Effect
      BY <1>2, <2>1, <2>2, WriteKept DEF Kept
    <2>4. turn' \in Turn  BY <2>1 DEF Turn
    <2>. QED  BY <1>2, <2>1, <2>3, <2>4 DEF Kept
  <1>. QED  BY <1>3, <1>4

LEMMA AbandonedKept ==
  ASSUME NEW n \in Nat, Kept(n), NEW q, Queue(q, n), NEW o \in SUBSET Effect,
         Abandoned(q, o), fate \in [Message -> Fates],
         UNCHANGED read, pending' \in {"None", "Job", "Steer"}
  PROVE  Kept(n)' /\ fate' \in [Message -> Fates]
  <1>1. /\ job' = [Drain(job) EXCEPT !.progress = "Failed"]
        /\ turn' = NoTurn /\ stopsHeld' = FALSE
        /\ fate' = Becomes(Held(job), "Told")
        /\ Write(q, o, {})
    BY DEF Abandoned
  <1>2. InOrder(job', n)
    BY <1>1, DrainInOrder, ProgressInOrder DEF Kept, Progress, Idle
  <1>3. Queue(deferred', n) /\ out' \subseteq Effect
    BY <1>1, <1>2, WriteKept
  <1>4. fate' \in [Message -> Fates]
    BY <1>1 DEF Becomes, Fates
  <1>. QED  BY <1>1, <1>2, <1>3, <1>4, TurnsTyped DEF Kept

LEMMA NotTakenKept ==
  ASSUME NEW n \in Nat, Kept(n), NEW q, Queue(q, n), NEW o \in SUBSET Effect,
         NotTaken(q, o), UNCHANGED stopsHeld,
         read' \in {NoMessage} \union Message,
         pending' \in {"None", "Job", "Steer"}
  PROVE  Kept(n)'
  <1>1. /\ turn' = [turn EXCEPT !.delivery = "Open"]
        /\ job' = HandBack(job)
        /\ Write(q, o, {})
    BY DEF NotTaken
  <1>2. InOrder(job', n)  BY <1>1, HandBackInOrder DEF Kept
  <1>3. Queue(deferred', n) /\ out' \subseteq Effect
    BY <1>1, <1>2, WriteKept
  <1>4. turn' \in Turn  BY <1>1 DEF Kept, Turn
  <1>. QED  BY <1>2, <1>3, <1>4 DEF Kept

LEMMA OutcomeTyped ==
  \A t \in Turn, b \in BOOLEAN : Outcome(t, b) \in Progress
  BY DEF Outcome, Turn, Progress, Idle

LEMMA EndedKept ==
  ASSUME NEW n \in Nat, Kept(n), fate \in [Message -> Fates],
         NEW b \in BOOLEAN, NEW o \in SUBSET Effect, Ended(b, o)
  PROVE  Kept(n)' /\ fate' \in [Message -> Fates] /\ timers' = timers
  <1> DEFINE back == IF turn.delivery = "InFlight" THEN HandBack(job) ELSE job
             left == [Finish(back) EXCEPT !.progress = Outcome(turn, b)]
             q    == Unspoken(deferred)
             u    == Unsteered(o)
  <1>1. InOrder(back, n)  BY HandBackInOrder DEF Kept
  <1>2. InOrder(left, n)
    BY <1>1, FinishInOrder, ProgressInOrder, OutcomeTyped DEF Kept
  <1>3. Queue(q, n) /\ u \in SUBSET Effect
    BY UnspokenQueue, EffectsTyped DEF Kept
  <1>4. timers' = timers  BY DEF Ended
  <1>5. CASE turn.stopping
    <2>1. /\ job' = Drain(left)
          /\ turn' = NoTurn
          /\ UNCHANGED <<stopsHeld, pending, read>>
          /\ Write(q, u, {})
          /\ fate' = [m \in Message |->
                        IF m \in InHand(back) THEN "Finished"
                        ELSE IF m \in Held(left) THEN "Told" ELSE fate[m]]
      BY <1>5 DEF Ended
    <2> HIDE DEF back, left, q, u
    <2>2. InOrder(job', n)  BY <1>2, <2>1, DrainInOrder
    <2>3. Queue(deferred', n) /\ out' \subseteq Effect
      BY <1>3, <2>1, <2>2, WriteKept
    <2>4. fate' \in [Message -> Fates]  BY <2>1 DEF Fates
    <2>. QED  BY <1>4, <2>1, <2>2, <2>3, <2>4, TurnsTyped DEF Kept
  <1>6. CASE ~turn.stopping /\ ~HasNext(left)
    <2>1. /\ job' = left
          /\ turn' = NoTurn
          /\ UNCHANGED <<stopsHeld, pending, read>>
          /\ Write(q, u, {})
          /\ fate' = Becomes(InHand(back), "Finished")
      BY <1>6 DEF Ended
    <2> HIDE DEF back, left, q, u
    <2>2. Queue(deferred', n) /\ out' \subseteq Effect
      BY <1>2, <1>3, <2>1, WriteKept
    <2>3. fate' \in [Message -> Fates]  BY <2>1 DEF Becomes, Fates
    <2>. QED  BY <1>2, <1>4, <2>1, <2>2, <2>3, TurnsTyped DEF Kept
  <1>7. CASE ~turn.stopping /\ HasNext(left)
    <2> DEFINE next == [Give(left) EXCEPT !.progress = "Working"]
    <2>1. /\ fate' = Becomes(InHand(back), "Finished")
          /\ StartGiven(next, q, u, {})
      BY <1>7 DEF Ended
    <2> HIDE DEF back, left, q, u
    <2>2. InOrder(Give(left), n) /\ Give(left).given > 0
      BY SMTT(30), <1>2, <1>7, GiveInOrder DEF Give, InOrder, Record
    <2>3. InOrder(next, n)  BY <2>2, ProgressInOrder DEF Progress
    <2>4. next.given > 0  BY <2>2 DEF InOrder, Record
    <2> HIDE DEF next
    <2>5. Kept(n)'  BY <1>3, <2>1, <2>3, <2>4, StartGivenKept
    <2>6. fate' \in [Message -> Fates]  BY <2>1 DEF Becomes, Fates
    <2>. QED  BY <1>4, <2>5, <2>6
  <1>. QED  BY <1>5, <1>6, <1>7

LEMMA HandedOnKept ==
  ASSUME NEW n \in Nat, Kept(n), NEW t \in Turn, NEW o \in SUBSET Effect,
         HandedOn(t, o)
  PROVE  Kept(n)'
  <1>1. CASE Deliverable(job, t)
    <2>1. HasNext(job) /\ Deliver(job, t, o, {})
      BY <1>1 DEF HandedOn, Deliverable
    <2>. QED  BY <2>1, DeliverKept DEF Kept
  <1>2. CASE ~Deliverable(job, t)
    BY <1>2 DEF HandedOn, Kept
  <1>. QED  BY <1>1, <1>2

LEMMA GoesOnKept ==
  ASSUME NEW n \in Nat, Kept(n), fate \in [Message -> Fates],
         NEW failed \in BOOLEAN, NEW stage \in Stage, GoesOn(failed, stage)
  PROVE  Kept(n)' /\ fate' \in [Message -> Fates] /\ timers' = timers
  <1>1. CASE turn.stopping \/ failed
    <2>1. Ended(FALSE, out \ {Step})  BY <1>1 DEF GoesOn
    <2>2. out \ {Step} \in SUBSET Effect  BY DEF Kept
    <2>. QED  BY <2>1, <2>2, EndedKept
  <1>2. CASE ~(turn.stopping \/ failed)
    <2>1. /\ turn' = [turn EXCEPT !.stage = stage]
          /\ out' = IF stage = "Opening" THEN out \ {Step} ELSE out
          /\ UNCHANGED <<job, stopsHeld, pending, read, timers, deferred, fate>>
      BY <1>2 DEF GoesOn
    <2>2. turn' \in Turn  BY <2>1 DEF Kept, Turn
    <2>3. out' \subseteq Effect  BY <2>1 DEF Kept
    <2>. QED  BY <2>1, <2>2, <2>3 DEF Kept
  <1>. QED  BY <1>1, <1>2

----------------------------------------------------------------------------
(* The invariant, action by action. *)

LEMMA InvFrom ==
  ASSUME NEW n \in Nat, said' = n, Kept(n)', timers' \in Nat,
         InOrder(disk', n), container' \in BOOLEAN,
         fate' \in [Message -> Fates], put' \in [Message -> Nat],
         announced' \in BOOLEAN,
         used' \in [stops : Nat, retires : Nat, failures : Nat, crashes : Nat]
  PROVE  Inv'
  BY DEF Inv, Kept

\* Where what the world keeps is left alone, the rest is enough.
LEMMA InvHere ==
  ASSUME NEW n \in Nat, n = said, Inv, UNCHANGED world,
         Kept(n)', timers' \in Nat, fate' \in [Message -> Fates]
  PROVE  Inv'
  BY InvFrom DEF Inv, world

LEMMA Initially == Init => Inv
  <1> SUFFICES ASSUME Init PROVE Inv
    OBVIOUS
  <1>1. job \in Record /\ job.mail = <<>> /\ job.given = 0 /\ Len(job.mail) = 0
    BY EmptySeq DEF Init, Record, Progress
  <1>2. InOrder(job, 0)  BY <1>1 DEF InOrder
  <1>3. InOrder(disk, 0)  BY <1>2 DEF Init
  <1>4. Queue(deferred, 0)  BY EmptyQueue DEF Init
  <1>5. Kept(said)  BY <1>2, <1>4, TurnsTyped DEF Init, Kept
  <1>. QED  BY <1>3, <1>5 DEF Init, Inv, Fates

LEMMA StepPersons == Inv /\ Person => Inv'
  <1> SUFFICES ASSUME Inv, Person PROVE Inv'
    OBVIOUS
  <1>0. PICK n \in Nat : n = said  BY DEF Inv
  <1>1. /\ Kept(n) /\ InOrder(job, n) /\ InOrder(disk, n) /\ Queue(deferred, n)
        /\ out \in SUBSET Effect /\ turn \in Turn
        /\ fate \in [Message -> Fates] /\ timers \in Nat
    BY <1>0 DEF Inv, Kept
  <1>2. CASE Begin
    <2>1. InOrder(job', n)
      BY <1>1, <1>2, ProgressInOrder DEF Begin, Progress
    <2>2. Queue(deferred', n) /\ out' \subseteq Effect
      BY <1>1, <1>2, <2>1, EffectsTyped, WriteKept DEF Begin
    <2>3. Kept(n)' /\ UNCHANGED <<world, timers, fate>>
      BY <1>1, <1>2, <2>1, <2>2 DEF Begin, memory, Kept
    <2>. QED  BY <1>0, <1>1, <2>3, InvHere
  <1>3. CASE Say
    <2> DEFINE m == said + 1
    <2>1. m = n + 1 /\ m \in Message /\ said' = n + 1 /\ n + 1 \in Nat
      BY <1>0, <1>3 DEF Say
    <2>2. /\ Kept(n + 1) /\ InOrder(job, n + 1)
          /\ InOrder(disk, n + 1) /\ Queue(deferred, n + 1)
      BY <1>1, InOrderLater, LaterQueue DEF Kept
    <2>3. InOrder(Receive(job, m), n + 1)  BY <1>1, <2>1, ReceiveInOrder
    <2>4. {Seen(m)} \in SUBSET Effect  BY <2>1, EffectsTyped
    <2>5. fate' \in [Message -> Fates]
      BY <1>1, <1>3 DEF Say, Becomes, Fates
    <2>6. Kept(n + 1)'
      <3>1. CASE job.progress = "Working" /\ Deliverable(Receive(job, m), turn)
        <4>1. /\ Deliver(Receive(job, m), turn, out, {Seen(m)})
              /\ HasNext(Receive(job, m))
          BY <1>3, <3>1 DEF Say, Deliverable, Idle, Over
        <4>. QED  BY <1>1, <2>1, <2>2, <2>3, <2>4, <4>1, DeliverKept
      <3>2. CASE job.progress = "Working" /\ ~Deliverable(Receive(job, m), turn)
        <4>1. /\ job' = Receive(job, m)
              /\ Write(deferred, out, {Seen(m)})
              /\ UNCHANGED <<turn, stopsHeld, pending, read>>
          BY <1>3, <3>2 DEF Say, Idle, Over
        <4>2. Queue(deferred', n + 1) /\ out' \subseteq Effect
          BY <1>1, <2>1, <2>2, <2>3, <2>4, <4>1, WriteKept
        <4>. QED  BY <2>2, <2>3, <4>1, <4>2 DEF Kept
      <3>3. CASE job.progress \in Idle
        <4> DEFINE j == [Give(Receive(job, m)) EXCEPT !.progress = "Working"]
        <4>1. StartGiven(j, deferred, out, {Seen(m)})
          BY <1>3, <3>3 DEF Say, Idle, Over
        <4>2. HasNext(Receive(job, m))
          BY <1>1, <2>1 DEF HasNext, Receive, InOrder, Record
        <4>3. InOrder(Give(Receive(job, m)), n + 1)
          BY <2>1, <2>3, <4>2, GiveInOrder
        <4>4. InOrder(j, n + 1)
          BY <2>1, <4>3, ProgressInOrder DEF Progress
        <4>5. j.given > 0
          BY <1>1, <2>3 DEF Give, Receive, InOrder, Record
        <4> HIDE DEF j
        <4>. QED  BY <1>1, <2>1, <2>2, <2>4, <4>1, <4>4, <4>5, StartGivenKept
      <3>4. CASE job.progress \in Over
        <4>1. UNCHANGED <<job, turn, stopsHeld, pending, read, deferred, out>>
          BY <1>3, <3>4 DEF Say, Idle, Over
        <4>. QED  BY <2>2, <4>1 DEF Kept
      <3>. QED  BY <1>3, <3>1, <3>2, <3>3, <3>4 DEF Say
    <2>7. UNCHANGED <<timers, disk, container, put, announced, used>>
      BY <1>3 DEF Say
    <2> HIDE DEF m
    <2>. QED  BY <1>1, <2>1, <2>2, <2>5, <2>6, <2>7, InvFrom DEF Inv
  <1>4. CASE Stop
    <2>1. turn' \in Turn /\ stopsHeld' \in BOOLEAN /\ timers' \in Nat
      <3>1. CASE turn.stage # "None"
        <4>1. PICK c \in BOOLEAN :
                turn' = [turn EXCEPT !.stopping = TRUE, !.closed = c]
          <5>1. (turn.closed \/ turn.stage = "Opening") \in BOOLEAN
            OBVIOUS
          <5>2. turn' = [turn EXCEPT !.stopping = TRUE,
                                     !.closed = turn.closed \/ turn.stage = "Opening"]
            BY <1>4, <3>1 DEF Stop
          <5>. QED  BY <5>1, <5>2
        <4>2. turn' \in Turn  BY <1>1, <4>1 DEF Turn
        <4>. QED  BY <1>1, <1>4, <3>1, <4>2 DEF Stop, Kept
      <3>2. CASE turn.stage = "None"
        BY <1>1, <1>4, <3>2 DEF Stop, Kept
      <3>. QED  BY <3>1, <3>2
    <2>2. UNCHANGED <<job, pending, read, deferred, out, fate,
                      disk, container, said, put, announced>>
      BY <1>4 DEF Stop
    <2>3. Kept(n)'  BY <1>1, <2>1, <2>2 DEF Kept
    <2>4. used' \in [stops : Nat, retires : Nat, failures : Nat, crashes : Nat]
      BY <1>4 DEF Stop, Inv
    <2>. QED  BY <1>0, <2>1, <2>2, <2>3, <2>4, InvFrom DEF Inv
  <1>5. CASE Retire
    <2>1. UNCHANGED <<memory, fate, disk, container, said, put, announced>>
      BY <1>5 DEF Retire
    <2>2. used' \in [stops : Nat, retires : Nat, failures : Nat, crashes : Nat]
      BY <1>5 DEF Retire, Inv
    <2>3. {Discard} \in SUBSET Effect  BY EffectsTyped
    <2>4. InOrder(job', n) /\ Queue(deferred', n) /\ out' \subseteq Effect
      <3>1. CASE job.progress \in Idle
        <4>1. /\ job' = [job EXCEPT !.progress = "Retired"]
              /\ Write(deferred, out, {Discard})
          BY <1>5, <3>1 DEF Retire, Idle, Over
        <4>2. InOrder(job', n)
          BY <1>1, <4>1, ProgressInOrder DEF Progress, Over
        <4>. QED  BY <1>1, <2>3, <4>1, <4>2, WriteKept
      <3>2. CASE job.progress \in Over
        <4>1. job' = job /\ Release(deferred, out, {Discard})
          BY <1>5, <3>2 DEF Retire, Idle, Over
        <4>. QED  BY <1>1, <2>3, <4>1, ReleaseKept
      <3>. QED  BY <1>5, <3>1, <3>2 DEF Retire
    <2>5. Kept(n)'  BY <1>1, <2>1, <2>4 DEF Kept, memory
    <2>. QED  BY <1>0, <1>1, <2>1, <2>2, <2>5, InvFrom DEF Inv, memory
  <1>. QED  BY <1>2, <1>3, <1>4, <1>5 DEF Person

\* Of an agent's steps only the conversation's change what is kept, and they
\* change a turn, hand a message on, or take one back.
LEMMA StepAgents == Inv /\ Agent => Inv'
  <1> SUFFICES ASSUME Inv, Agent PROVE Inv'
    OBVIOUS
  <1>0. PICK n \in Nat : n = said  BY DEF Inv
  <1>1. /\ Kept(n) /\ InOrder(job, n) /\ InOrder(disk, n) /\ Queue(deferred, n)
        /\ out \in SUBSET Effect /\ turn \in Turn
        /\ fate \in [Message -> Fates] /\ timers \in Nat
    BY <1>0 DEF Inv, Kept
  <1>2. ASSUME NEW b \in BOOLEAN, AgentReady(b) PROVE Inv'
    <2>1. [turn EXCEPT !.stage = "Prompting", !.steerable = b] \in Turn
      BY <1>1 DEF Turn, Stage, Speaking
    <2>2. Kept(n)'  BY <1>1, <1>2, <2>1, HandedOnKept DEF AgentReady
    <2>3. put' \in [Message -> Nat]  BY <1>2 DEF AgentReady, Inv
    <2>4. UNCHANGED <<timers, fate, disk, container, said, announced, used>>
      BY <1>2 DEF AgentReady
    <2>. QED  BY <1>0, <1>1, <2>2, <2>3, <2>4, InvFrom DEF Inv
  <1>3. ASSUME NEW b \in BOOLEAN, AgentAnswered(b) PROVE Inv'
    <2>1. turn' \in Turn  BY <1>1, <1>3 DEF AgentAnswered, Turn, Stage
    <2>2. UNCHANGED <<job, stopsHeld, pending, read, timers, deferred, out,
                      fate, world>>
      BY <1>3 DEF AgentAnswered
    <2>3. Kept(n)'  BY <1>1, <2>1, <2>2 DEF Kept
    <2>. QED  BY <1>0, <1>1, <2>2, <2>3, InvHere
  <1>4. CASE AgentSpoke
    <2>1. Kept(n)'  BY <1>1, <1>4, HandedOnKept DEF AgentSpoke
    <2>2. UNCHANGED <<timers, fate, world>>  BY <1>4 DEF AgentSpoke
    <2>. QED  BY <1>0, <1>1, <2>1, <2>2, InvHere
  <1>5. CASE Claim
    <2>1. turn' \in Turn  BY <1>1, <1>5 DEF Claim, Turn
    <2>2. UNCHANGED <<job, stopsHeld, pending, read, timers, deferred, out,
                      fate, world>>
      BY <1>5 DEF Claim
    <2>3. Kept(n)'  BY <1>1, <2>1, <2>2 DEF Kept
    <2>. QED  BY <1>0, <1>1, <2>2, <2>3, InvHere
  <1>6. ASSUME NEW m \in Message, SteerLanded(m) PROVE Inv'
    <2>1. [turn EXCEPT !.delivery = "Open", !.steering = FALSE,
                       !.claimed = FALSE] \in Turn
      BY <1>1 DEF Turn
    <2>2. Kept(n)'  BY <1>1, <1>6, <2>1, HandedOnKept DEF SteerLanded
    <2>3. put' \in [Message -> Nat]  BY <1>6 DEF SteerLanded, Inv
    <2>4. UNCHANGED <<timers, fate, disk, container, said, announced, used>>
      BY <1>6 DEF SteerLanded
    <2>. QED  BY <1>0, <1>1, <2>2, <2>3, <2>4, InvFrom DEF Inv
  <1>7. ASSUME NEW m \in Message, SteerWaits(m) PROVE Inv'
    <2>1. /\ turn' = [turn EXCEPT !.delivery = "Declined", !.steering = FALSE]
          /\ job' = HandBack(job)
          /\ Write(deferred, out \ {Steer(m)}, {})
          /\ UNCHANGED <<stopsHeld, pending, read, timers, fate, world>>
      BY <1>7 DEF SteerWaits
    <2>2. turn' \in Turn  BY <1>1, <2>1 DEF Turn
    <2>3. InOrder(job', n)  BY <1>1, <2>1, HandBackInOrder
    <2>4. Queue(deferred', n) /\ out' \subseteq Effect
      BY <1>1, <2>1, <2>3, WriteKept
    <2>5. Kept(n)'  BY <1>1, <2>1, <2>2, <2>3, <2>4 DEF Kept
    <2>. QED  BY <1>0, <1>1, <2>1, <2>5, InvHere
  <1>. QED  BY <1>2, <1>3, <1>4, <1>5, <1>6, <1>7 DEF Agent

LEMMA StepCommands == Inv /\ CommandAnswered => Inv'
  <1> SUFFICES ASSUME Inv, NEW ok \in BOOLEAN,
                      \/ Looked(ok) \/ Built(ok) \/ Made(ok)
                      \/ Up(ok) \/ Wrapped(ok) \/ CheckedOut(ok)
               PROVE  Inv'
    BY DEF CommandAnswered
  <1>0. PICK n \in Nat : n = said  BY DEF Inv
  <1>1. /\ Kept(n) /\ InOrder(disk, n)
        /\ fate \in [Message -> Fates] /\ timers \in Nat
    BY <1>0 DEF Inv, Kept
  <1>2. Commanding \union {"Opening"} \subseteq Stage
    BY DEF Stage, Speaking
  <1>3. CASE Made(ok)
    <2>1. /\ GoesOn(~ok, "Starting")
          /\ container' = (container \/ ok)
          /\ UNCHANGED <<disk, said, put, announced, used>>
      BY <1>3 DEF Made
    <2>2. "Starting" \in Stage  BY <1>2 DEF Commanding
    <2>3. (~ok) \in BOOLEAN  OBVIOUS
    <2>4. Kept(n)' /\ fate' \in [Message -> Fates] /\ timers' = timers
      BY <1>1, <2>1, <2>2, <2>3, GoesOnKept
    <2>5. container' \in BOOLEAN  BY <2>1 DEF Inv
    <2>. QED  BY <1>0, <1>1, <2>1, <2>4, <2>5, InvFrom DEF Inv
  <1>4. CASE ~Made(ok)
    <2>1. PICK failed \in BOOLEAN, stage \in Stage :
            GoesOn(failed, stage) /\ UNCHANGED world
      <3>1. CASE Looked(ok)
        <4>1. PICK stage \in Stage :
                /\ stage = IF ok THEN "Creating" ELSE "Building"
                /\ GoesOn(FALSE, stage) /\ UNCHANGED world
          BY <1>2, <3>1 DEF Looked, Commanding
        <4>. QED  BY <4>1
      <3>2. CASE Built(ok)  BY <1>2, <3>2 DEF Built, Commanding
      <3>3. CASE Up(ok)  BY <1>2, <3>3 DEF Up, Commanding
      <3>4. CASE Wrapped(ok)
        <4>1. PICK stage \in Stage :
                /\ stage = IF turn.fresh THEN "CheckingOut" ELSE "Opening"
                /\ GoesOn(~ok, stage) /\ UNCHANGED world
          BY <1>2, <3>4 DEF Wrapped, Commanding
        <4>. QED  BY <4>1
      <3>5. CASE CheckedOut(ok)  BY <1>2, <3>5 DEF CheckedOut
      <3>. QED  BY <1>4, <3>1, <3>2, <3>3, <3>4, <3>5
    <2>2. Kept(n)' /\ fate' \in [Message -> Fates] /\ timers' = timers
      BY <1>1, <2>1, GoesOnKept
    <2>. QED  BY <1>0, <1>1, <2>1, <2>2, InvHere
  <1>. QED  BY <1>3, <1>4

LEMMA RoomlessKept ==
  ASSUME NEW n \in Nat, Kept(n), NEW q, Queue(q, n), NEW o \in SUBSET Effect,
         Roomless(q, o), fate \in [Message -> Fates],
         UNCHANGED read, pending' \in {"None", "Job", "Steer"}
  PROVE  Kept(n)' /\ fate' \in [Message -> Fates]
  <1>1. /\ job' = [job EXCEPT !.progress = "Failed"]
        /\ Write(q, o, {})
        /\ UNCHANGED <<turn, stopsHeld, fate>>
    BY DEF Roomless
  <1>2. InOrder(job', n)
    BY <1>1, ProgressInOrder DEF Kept, Progress, Idle
  <1>3. Queue(deferred', n) /\ out' \subseteq Effect
    BY <1>1, <1>2, WriteKept
  <1>. QED  BY <1>1, <1>2, <1>3 DEF Kept

LEMMA StepRooms == Inv /\ RoomAnswered => Inv'
  <1> SUFFICES ASSUME Inv, RoomAnswered PROVE Inv'
    OBVIOUS
  <1>0. PICK n \in Nat : n = said  BY DEF Inv
  <1>1. /\ Kept(n) /\ InOrder(job, n) /\ InOrder(disk, n) /\ Queue(deferred, n)
        /\ out \in SUBSET Effect /\ out \ {MakeRoom} \in SUBSET Effect
        /\ fate \in [Message -> Fates] /\ timers \in Nat
    BY <1>0 DEF Inv, Kept
  <1>2. CASE RoomMade
    <2>1. /\ job' = [job EXCEPT !.room = TRUE]
          /\ turn' = [NoTurn EXCEPT !.stage = "Looking", !.fresh = TRUE,
                                    !.stopping = stopsHeld]
          /\ stopsHeld' = FALSE
          /\ Write(deferred, out \ {MakeRoom}, {Step})
          /\ UNCHANGED <<pending, read, timers, fate, world>>
      BY <1>2 DEF RoomMade, Registered
    <2>2. InOrder(job', n)  BY <1>1, <2>1 DEF InOrder, Record
    <2>3. turn' \in Turn
      BY <1>1, <2>1, TurnsTyped DEF Kept, Turn, Stage, Commanding
    <2>4. {Step} \in SUBSET Effect  BY EffectsTyped
    <2>5. Queue(deferred', n) /\ out' \subseteq Effect
      BY <1>1, <2>1, <2>2, <2>4, WriteKept
    <2>6. Kept(n)'  BY <1>1, <2>1, <2>2, <2>3, <2>5 DEF Kept
    <2>. QED  BY <1>0, <1>1, <2>1, <2>6, InvHere
  <1>3. CASE RoomRefused
    <2>1. /\ Roomless(deferred, out \ {MakeRoom})
          /\ UNCHANGED <<pending, read, timers, world>>
      BY <1>3 DEF RoomRefused
    <2>2. pending' \in {"None", "Job", "Steer"} /\ read' = read
      BY <1>1, <2>1 DEF Kept
    <2>3. Kept(n)' /\ fate' \in [Message -> Fates]
      BY <1>1, <2>1, <2>2, RoomlessKept
    <2>. QED  BY <1>0, <1>1, <2>1, <2>3, InvHere
  <1>. QED  BY <1>2, <1>3 DEF RoomAnswered

LEMMA StepWrites == Inv /\ WriteAnswered => Inv'
  <1> SUFFICES ASSUME Inv, WriteAnswered PROVE Inv'
    OBVIOUS
  <1>0. PICK n \in Nat : n = said  BY DEF Inv
  <1> DEFINE q    == Tail(deferred)
             gone == Head(deferred).effects
  <1>1. /\ Kept(n) /\ InOrder(disk, n) /\ out \in SUBSET Effect
        /\ fate \in [Message -> Fates] /\ timers \in Nat
    BY <1>0 DEF Inv, Kept
  <1>2. Queue(q, n) /\ InOrder(Head(deferred).snap, n) /\ gone \in SUBSET Effect
    BY <1>1, TailQueue DEF WriteAnswered, Landed, Unwritten, Kept
  <1>3. CASE Landed
    <2>1. /\ disk' = Head(deferred).snap
          /\ Release(q, out, gone)
          /\ announced' = TRUE
          /\ UNCHANGED <<job, memory, fate, container, said, put, used>>
      BY <1>3 DEF Landed
    <2> HIDE DEF q, gone
    <2>2. Queue(deferred', n) /\ out' \subseteq Effect
      BY <1>1, <1>2, <2>1, ReleaseKept
    <2>3. Kept(n)'  BY <1>1, <2>1, <2>2 DEF Kept, memory
    <2>. QED  BY <1>0, <1>1, <1>2, <2>1, <2>3, InvFrom DEF Inv, memory
  <1>4. CASE Unwritten
    <2> DEFINE unasked == gone \intersect Reads # {}
    <2>1. /\ used' = [used EXCEPT !.failures = @ + 1]
          /\ pending' = IF unasked THEN "None" ELSE pending
          /\ \/ Abandoned(q, out)
             \/ NotTaken(q, out) /\ UNCHANGED <<stopsHeld, fate>>
             \/ Roomless(q, out)
             \/ /\ Release(q, out, {})
                /\ UNCHANGED <<job, turn, stopsHeld, fate>>
          /\ UNCHANGED <<read, timers, disk, container, said, put, announced>>
      BY <1>4 DEF Unwritten
    <2> HIDE DEF q, gone, unasked
    <2>2. pending' \in {"None", "Job", "Steer"} /\ read' = read
      BY <1>1, <2>1 DEF Kept
    <2>3. Kept(n)' /\ fate' \in [Message -> Fates]
      <3>1. CASE Abandoned(q, out)
        BY <1>1, <1>2, <2>2, <3>1, AbandonedKept
      <3>2. CASE Roomless(q, out)
        BY <1>1, <1>2, <2>2, <3>2, RoomlessKept
      <3>3. CASE NotTaken(q, out) /\ UNCHANGED <<stopsHeld, fate>>
        <4>1. read' \in {NoMessage} \union Message  BY <1>1, <2>2 DEF Kept
        <4>2. Kept(n)'  BY <1>1, <1>2, <2>2, <3>3, <4>1, NotTakenKept
        <4>. QED  BY <1>1, <3>3, <4>2
      <3>4. CASE /\ Release(q, out, {})
                 /\ UNCHANGED <<job, turn, stopsHeld, fate>>
        <4>1. Queue(deferred', n) /\ out' \subseteq Effect
          BY <1>1, <1>2, <3>4, ReleaseKept
        <4>. QED  BY <1>1, <2>2, <3>4, <4>1 DEF Kept
      <3>. QED  BY <2>1, <3>1, <3>2, <3>3, <3>4
    <2>4. used' \in [stops : Nat, retires : Nat, failures : Nat, crashes : Nat]
      BY <2>1 DEF Inv
    <2>. QED  BY <1>0, <1>1, <2>1, <2>3, <2>4, InvFrom DEF Inv
  <1>. QED  BY <1>3, <1>4 DEF WriteAnswered

LEMMA StepThreads == Inv /\ ThreadAnswered => Inv'
  <1> SUFFICES ASSUME Inv, NEW e \in Reads, ThreadRead(e) PROVE Inv'
    BY DEF ThreadAnswered
  <1>0. PICK n \in Nat : n = said  BY DEF Inv
  <1> DEFINE o == out \ {e}
  <1>1. /\ Kept(n) /\ InOrder(job, n) /\ Queue(deferred, n) /\ turn \in Turn
        /\ o \in SUBSET Effect /\ stopsHeld \in BOOLEAN
        /\ fate \in [Message -> Fates] /\ timers \in Nat
    BY <1>0 DEF Inv, Kept
  <1>2. pending' = "None" /\ UNCHANGED <<timers, fate, world>>
    BY DEF ThreadRead
  <1>3. e.of \in {NoMessage} \union Message  BY DEF Reads, Effect
  <1>4. Kept(n)'
    <2>1. CASE /\ job.given > 0
               /\ Registered(Resumed(LastGiven(job), e.of))
               /\ read' = NoMessage /\ UNCHANGED job
               /\ AfterWrites(deferred, o, {Step})
      <3>1. {Step} \in SUBSET Effect  BY EffectsTyped
      <3> HIDE DEF o
      <3>2. Queue(deferred', n) /\ out' \subseteq Effect
        BY <1>1, <2>1, <3>1, AfterWritesKept
      <3>3. LastGiven(job) \in {NoMessage} \union Message
        BY <1>1, <2>1, GivenIsMessage
      <3>4. turn' \in Turn /\ stopsHeld' \in BOOLEAN
        BY <1>1, <1>3, <2>1, <3>3, TurnsTyped DEF Registered
      <3>. QED  BY <1>1, <1>2, <2>1, <3>2, <3>4 DEF Kept
    <2>2. CASE /\ job.given > 0 /\ read' = NoMessage /\ UNCHANGED stopsHeld
               /\ turn' = [turn EXCEPT !.steering = TRUE] /\ UNCHANGED job
               /\ AfterWrites(deferred, o, {Steer(LastGiven(job))})
      <3>1. {Steer(LastGiven(job))} \in SUBSET Effect
        BY <1>1, <2>2, GivenIsMessage, EffectsTyped
      <3> HIDE DEF o
      <3>2. Queue(deferred', n) /\ out' \subseteq Effect
        BY <1>1, <2>2, <3>1, AfterWritesKept
      <3>3. turn' \in Turn  BY <1>1, <2>2 DEF Turn
      <3>. QED  BY <1>1, <1>2, <2>2, <3>2, <3>3 DEF Kept
    <2>3. CASE /\ read' = NoMessage /\ UNCHANGED stopsHeld
               /\ NotTaken(deferred, o)
      <3> HIDE DEF o
      <3>. QED  BY <1>1, <1>2, <2>3, NotTakenKept
    <2>4. CASE /\ read' = e.of
               /\ UNCHANGED <<job, turn, stopsHeld>>
               /\ Release(deferred, o, {})
      <3> HIDE DEF o
      <3>1. Queue(deferred', n) /\ out' \subseteq Effect
        BY <1>1, <2>4, ReleaseKept
      <3>. QED  BY <1>1, <1>2, <1>3, <2>4, <3>1 DEF Kept
    <2>. QED  BY <2>1, <2>2, <2>3, <2>4 DEF ThreadRead
  <1>. QED  BY <1>0, <1>1, <1>2, <1>4, InvHere

LEMMA WakingKept ==
  ASSUME NEW n \in Nat, NEW j, InOrder(j, n), NEW there \in BOOLEAN
  PROVE  InOrder(Waking(Opened(j), there), n)
  <1>1. InOrder(Opened(j), n)  BY DrainInOrder DEF Opened
  <1>. QED  BY <1>1, ProgressInOrder DEF Waking, Progress, Over

\* A crash leaves the disk with a record that was written or being written,
\* each of them in order.
LEMMA StepRestart == Inv /\ Restart => Inv'
  <1> SUFFICES ASSUME Inv, Restart PROVE Inv'
    OBVIOUS
  <1>0. PICK n \in Nat : n = said  BY DEF Inv
  <1>1. /\ Kept(n) /\ InOrder(disk, n) /\ Queue(deferred, n)
        /\ out \subseteq Effect /\ container \in BOOLEAN
        /\ fate \in [Message -> Fates]
    BY <1>0 DEF Inv, Kept
  <1>2. InOrder(disk', n)
    <2>1. disk' \in {disk} \union {deferred[i].snap : i \in DOMAIN deferred}
      BY DEF Restart
    <2>2. DOMAIN deferred = 1..Len(deferred)  BY <1>1 DEF Queue
    <2>. QED  BY <1>1, <2>1, <2>2 DEF Queue
  <1>3. container' \in BOOLEAN
    <2>1. container' \in {container,
                          container \/ Answered("Creating"),
                          container /\ Discard \notin out}
      BY DEF Restart
    <2>. QED  BY <1>1, <2>1
  <1>4. InOrder(job', n)  BY <1>2, <1>3, WakingKept DEF Restart
  <1>5. turn' \in Turn
    <2>1. [NoTurn EXCEPT !.stage = "Starting"] \in Turn
      BY TurnsTyped DEF Turn, Stage, Commanding
    <2>. QED  BY <2>1, TurnsTyped DEF Restart
  <1>6. Queue(deferred', n) /\ out' \subseteq Effect
    <2> DEFINE o == {e \in out : e.kind = "Seen"}
                    \union (IF turn'.stage = "Starting" THEN {Step} ELSE {})
                    \union (IF job'.progress \in Over /\ container'
                              THEN {Discard} ELSE {})
    <2>1. Write(<<>>, o, {})  BY DEF Restart
    <2>2. o \in SUBSET Effect  BY <1>1, EffectsTyped
    <2> HIDE DEF o
    <2>. QED  BY <1>4, <2>1, <2>2, EmptyQueue, WriteKept
  <1>7. fate' \in [Message -> Fates]
    <2>1. fate' = [m \in Message |->
                    IF m \in Held(job') THEN "Held"
                    ELSE IF fate[m] # "Held" THEN fate[m]
                    ELSE IF m \in Held(disk') THEN "Dropped" ELSE "Forgotten"]
      BY DEF Restart
    <2>. QED  BY <1>1, <2>1 DEF Fates
  <1>8. /\ stopsHeld' = FALSE /\ pending' = "None" /\ read' = NoMessage
        /\ timers' = 0 /\ announced' = FALSE
        /\ used' = [used EXCEPT !.crashes = @ + 1]
        /\ UNCHANGED <<said, put>>
    BY DEF Restart
  <1>9. used' \in [stops : Nat, retires : Nat, failures : Nat, crashes : Nat]
    BY <1>8 DEF Inv
  <1>10. Kept(n)'  BY <1>4, <1>5, <1>6, <1>8 DEF Kept
  <1>. QED  BY <1>0, <1>2, <1>3, <1>7, <1>8, <1>9, <1>10, InvFrom DEF Inv

LEMMA StepRest ==
  Inv /\ (ProcessEnded \/ CancelOverdue \/ \E ok \in BOOLEAN : Discarded(ok))
    => Inv'
  <1> SUFFICES ASSUME Inv, ProcessEnded \/ CancelOverdue
                           \/ \E ok \in BOOLEAN : Discarded(ok)
               PROVE  Inv'
    OBVIOUS
  <1>0. PICK n \in Nat : n = said  BY DEF Inv
  <1>1. /\ Kept(n) /\ InOrder(disk, n) /\ turn \in Turn
        /\ out \in SUBSET Effect
        /\ fate \in [Message -> Fates] /\ timers \in Nat
    BY <1>0 DEF Inv, Kept
  <1>2. CASE ProcessEnded
    <2>1. PICK b \in BOOLEAN : Ended(b, out)
      <3>1. (turn.stage = "Closing" /\ turn.answered) \in BOOLEAN  OBVIOUS
      <3>. QED  BY <1>2, <3>1 DEF ProcessEnded
    <2>2. UNCHANGED world  BY <1>2 DEF ProcessEnded
    <2>3. Kept(n)' /\ fate' \in [Message -> Fates] /\ timers' = timers
      BY <1>1, <2>1, EndedKept
    <2>. QED  BY <1>0, <1>1, <2>2, <2>3, InvHere
  <1>3. CASE CancelOverdue
    <2>1. PICK c \in BOOLEAN : turn' = [turn EXCEPT !.closed = c]
      <3>1. (turn.closed \/ (turn.stopping /\ turn.stage \in Speaking)) \in BOOLEAN
        OBVIOUS
      <3>. QED  BY <1>3, <3>1 DEF CancelOverdue
    <2>2. turn' \in Turn  BY <1>1, <2>1 DEF Turn
    <2>3. timers' \in Nat  BY <1>1, <1>3 DEF CancelOverdue
    <2>4. UNCHANGED <<job, stopsHeld, pending, read, deferred, out, fate, world>>
      BY <1>3 DEF CancelOverdue
    <2>5. Kept(n)'  BY <1>1, <2>2, <2>4 DEF Kept
    <2>. QED  BY <1>0, <1>1, <2>3, <2>4, <2>5, InvHere
  <1>4. ASSUME NEW ok \in BOOLEAN, Discarded(ok) PROVE Inv'
    <2>1. /\ out' = out \ {Discard}
          /\ container' = (container /\ ~ok)
          /\ UNCHANGED <<job, memory, deferred, fate, disk, said, put,
                         announced, used>>
      BY <1>4 DEF Discarded
    <2>2. container' \in BOOLEAN  BY <2>1 DEF Inv
    <2>3. Kept(n)'  BY <1>1, <2>1 DEF Kept, memory
    <2>. QED  BY <1>0, <1>1, <2>1, <2>2, <2>3, InvFrom DEF Inv, memory
  <1>. QED  BY <1>2, <1>3, <1>4

LEMMA StepIdle == Inv /\ UNCHANGED vars => Inv'
  <1> SUFFICES ASSUME Inv, UNCHANGED vars PROVE Inv'
    OBVIOUS
  <1>0. PICK n \in Nat : n = said  BY DEF Inv
  <1>1. Kept(n)  BY <1>0 DEF Inv
  <1>2. Kept(n)'  BY <1>1 DEF vars, memory, Kept
  <1>. QED  BY <1>0, <1>2, InvHere DEF Inv, vars, memory

----------------------------------------------------------------------------
(* What holds always. *)

\* The record in memory, the one on the disk and every one on its way there
\* hold an inbox in order of arrival, whatever the agent, the people, the disk
\* and the crashes do.
THEOREM Invariance == Spec => []Inv
  <1>1. Inv /\ [Next]_vars => Inv'
    <2> SUFFICES ASSUME Inv, [Next]_vars PROVE Inv'
      OBVIOUS
    <2>. QED
      BY StepPersons, StepAgents, StepCommands, StepRooms, StepWrites,
         StepThreads, StepRestart, StepRest, StepIdle DEF Next
  <1>. QED  BY Initially, <1>1, PTL DEF Spec

LEMMA InvTyped == Inv => TypeOK
  BY DEF Inv, Kept, InOrder, Queue, TypeOK

LEMMA InvOrdered == Inv => InboxInOrder
  <1> SUFFICES ASSUME Inv PROVE InboxInOrder
    OBVIOUS
  <1>1. /\ job.given <= Len(job.mail)
        /\ \A i, k \in 1..Len(job.mail) : i < k => job.mail[i] < job.mail[k]
        /\ job.mail \in Seq(Message)
        /\ \A i \in 1..Len(job.mail) : job.mail[i] <= said
    BY DEF Inv, Kept, InOrder, Record
  <1>2. Held(job) \subseteq 1..said
    <2> SUFFICES ASSUME NEW i \in 1..Len(job.mail)
                 PROVE  job.mail[i] \in 1..said
      BY DEF Held
    <2>1. job.mail[i] \in Message  BY <1>1, ElementOfSeq
    <2>2. job.mail[i] <= said /\ said \in Nat  BY <1>1 DEF Inv
    <2>. QED  BY <2>1, <2>2, JobAssumption DEF Message
  <1>. QED  BY <1>1, <1>2 DEF InboxInOrder

\* Every variable keeps its type, for any number of messages and any bounds.
THEOREM TypeCorrect == Spec => []TypeOK
  BY Invariance, InvTyped, PTL

\* The inbox keeps the order of arrival: what was given stands before what
\* waits, and no giving, handing back, ending, stopping, failed write or
\* restart puts an earlier message behind a later one, or holds one nobody
\* has said.
THEOREM InboxStaysInOrder == Spec => []InboxInOrder
  BY Invariance, InvOrdered, PTL

----------------------------------------------------------------------------
(* What a job owes: a step to come while it says working, an inbox emptied by  *)
(* whoever ends it, a reaction's promise, a container removed on a recorded     *)
(* verdict alone, and a message put to the agent once.  All of it is about      *)
(* where an effect held back stands among the writes in flight.                 *)

(* What waits on the i-th write in flight, or with the world; and the i-th *)
(* record, the one on the disk being the oldest.                           *)
At(q, o, i) == IF i = 0 THEN o ELSE q[i].effects
RecordAt(q, d, i) == IF i = 0 THEN d ELSE q[i].snap

Places(e, q, o) == {i \in 0..Len(q) : e \in At(q, o, i)}

AtMostOne(X) == \A i, k \in X : i = k

----------------------------------------------------------------------------
(* How the end of a step, and an answer of the disk, move what is asked.   *)

LEMMA WritePlaces ==
  ASSUME NEW q \in Seq(Deferred), NEW o, NEW E \in SUBSET Effect,
         job' \in Record, Write(q, o, E)
  PROVE  /\ deferred' \in Seq(Deferred) /\ Len(deferred') = Len(q) + 1 /\ out' = o
         /\ \A e \in Effect \ E : Places(e, deferred', out') = Places(e, q, o)
         /\ \A e \in E : Places(e, deferred', out') = Places(e, q, o) \union {Len(q) + 1}
         /\ \A d : \A k \in 0..Len(q) : RecordAt(deferred', d, k) = RecordAt(q, d, k)
         /\ \A d : RecordAt(deferred', d, Len(q) + 1) = job'
         /\ Len(q) \in Nat
  <1> DEFINE w == [snap |-> job', effects |-> E]
             a == Append(q, w)
  <1>1. w \in Deferred /\ w.snap = job' /\ w.effects = E  BY DEF Deferred
  <1> HIDE DEF w
  <1>2. /\ a \in Seq(Deferred) /\ Len(a) = Len(q) + 1 /\ Len(q) \in Nat
        /\ \A i \in 1..Len(q) : a[i] = q[i]
        /\ a[Len(q) + 1] = w
    BY <1>1
  <1>3. deferred' = a /\ out' = o  BY DEF Write, w
  <1> HIDE DEF a
  <1>4. /\ \A e \in Effect \ E : Places(e, a, o) = Places(e, q, o)
        /\ \A e \in E : Places(e, a, o) = Places(e, q, o) \union {Len(q) + 1}
    <2>1. \A i \in 0..Len(q) : At(a, o, i) = At(q, o, i)  BY <1>2 DEF At
    <2>2. At(a, o, Len(q) + 1) = E  BY <1>1, <1>2 DEF At
    <2>3. 0..Len(a) = (0..Len(q)) \union {Len(q) + 1}  BY <1>2
    <2>. QED  BY <2>1, <2>2, <2>3 DEF Places
  <1>5. /\ \A d : \A k \in 0..Len(q) : RecordAt(a, d, k) = RecordAt(q, d, k)
        /\ \A d : RecordAt(a, d, Len(q) + 1) = job'
    BY <1>1, <1>2 DEF RecordAt
  <1>. QED  BY <1>2, <1>3, <1>4, <1>5

LEMMA ReleasePlaces ==
  ASSUME NEW q \in Seq(Deferred), NEW o, NEW E, Release(q, o, E)
  PROVE  /\ deferred' = q
         /\ \A e \in Effect \ E : Places(e, deferred', out') = Places(e, q, o)
         /\ \A e \in E : Places(e, deferred', out') = Places(e, q, o) \union {0}
  <1>1. deferred' = q /\ out' = o \union E /\ Len(q) \in Nat  BY DEF Release
  <1>2. /\ \A e \in Effect \ E : Places(e, q, o \union E) = Places(e, q, o)
        /\ \A e \in E : Places(e, q, o \union E) = Places(e, q, o) \union {0}
    BY <1>1 DEF Places, At
  <1>. QED  BY <1>1, <1>2

LEMMA AfterWritesPlaces ==
  ASSUME NEW q \in Seq(Deferred), NEW o, NEW E \in SUBSET Effect,
         AfterWrites(q, o, E)
  PROVE  /\ deferred' \in Seq(Deferred) /\ Len(deferred') = Len(q)
         /\ \A e \in Effect \ E : Places(e, deferred', out') = Places(e, q, o)
         /\ \A e \in E : Places(e, deferred', out') = Places(e, q, o) \union {Len(q)}
         /\ \A d, k : k \in 0..Len(q) => RecordAt(deferred', d, k) = RecordAt(q, d, k)
  <1>0. Len(q) \in Nat  OBVIOUS
  <1>1. CASE q = <<>>
    <2>1. deferred' = q /\ out' = o \union E /\ Len(q) = 0
      BY <1>1 DEF AfterWrites
    <2>2. /\ \A e \in Effect \ E : Places(e, q, o \union E) = Places(e, q, o)
          /\ \A e \in E : Places(e, q, o \union E) = Places(e, q, o) \union {0}
      BY <2>1 DEF Places, At
    <2>. QED  BY <2>1, <2>2
  <1>2. CASE q # <<>>
    <2> DEFINE l == [q[Len(q)] EXCEPT !.effects = @ \union E]
               p == [q EXCEPT ![Len(q)] = l]
    <2>1. Len(q) \in 1..Len(q)  BY <1>0, <1>2, EmptySeq
    <2>2. q[Len(q)] \in Deferred  BY <2>1, ElementOfSeq
    <2>3. /\ l \in Deferred /\ l.snap = q[Len(q)].snap
          /\ l.effects = q[Len(q)].effects \union E
      BY <2>2 DEF Deferred
    <2>4. deferred' = p /\ out' = o  BY <1>2 DEF AfterWrites
    <2> HIDE DEF l
    <2>5. /\ p \in Seq(Deferred) /\ Len(p) = Len(q)
          /\ \A i \in 1..Len(q) : p[i] = IF i = Len(q) THEN l ELSE q[i]
      BY <2>1, <2>3, ExceptSeq
    <2> HIDE DEF p
    <2>6. /\ \A i \in 0..Len(q) : i # Len(q) => At(p, o, i) = At(q, o, i)
          /\ At(p, o, Len(q)) = At(q, o, Len(q)) \union E
      BY <2>1, <2>3, <2>5 DEF At
    <2>7. /\ \A e \in Effect \ E : Places(e, p, o) = Places(e, q, o)
          /\ \A e \in E : Places(e, p, o) = Places(e, q, o) \union {Len(q)}
      BY <1>0, <2>5, <2>6 DEF Places
    <2>8. \A d, k : k \in 0..Len(q) => RecordAt(p, d, k) = RecordAt(q, d, k)
      BY <2>3, <2>5 DEF RecordAt
    <2>. QED  BY <2>4, <2>5, <2>7, <2>8
  <1>. QED  BY <1>1, <1>2

\* The world's answer takes what it answers.
LEMMA TakenPlaces ==
  ASSUME NEW q \in Seq(Deferred), NEW o, NEW x
  PROVE  /\ \A e \in Effect : e # x => Places(e, q, o \ {x}) = Places(e, q, o)
         /\ Places(x, q, o \ {x}) = Places(x, q, o) \ {0}
  BY DEF Places, At

LEMMA UnspokenPlaces ==
  ASSUME NEW q \in Seq(Deferred), NEW o
  PROVE  /\ Unspoken(q) \in Seq(Deferred) /\ Len(Unspoken(q)) = Len(q)
         /\ \A e \in Effect : e.kind # "Steer" =>
              Places(e, Unspoken(q), Unsteered(o)) = Places(e, q, o)
         /\ \A e \in Effect : e.kind = "Steer" =>
              Places(e, Unspoken(q), Unsteered(o)) = {}
         /\ \A d, k : k \in 0..Len(q) => RecordAt(Unspoken(q), d, k) = RecordAt(q, d, k)
  <1>1. Len(q) \in Nat /\ DOMAIN q = 1..Len(q)  BY LenProperties
  <1>2. \A i \in 1..Len(q) : q[i] \in Deferred  BY <1>1, ElementOfSeq
  <1>3. \A i \in 1..Len(q) :
          /\ Unspoken(q)[i] \in Deferred
          /\ Unspoken(q)[i].snap = q[i].snap
          /\ Unspoken(q)[i].effects = Unsteered(q[i].effects)
    BY <1>1, <1>2 DEF Unspoken, Unsteered, Deferred
  <1>4. Unspoken(q) \in [1..Len(q) -> Deferred]
    BY <1>1, <1>3 DEF Unspoken
  <1>5. Unspoken(q) \in Seq(Deferred) /\ Len(Unspoken(q)) = Len(q)
    BY <1>1, <1>4
  <1>6. \A i \in 0..Len(q) :
          /\ At(Unspoken(q), Unsteered(o), i) = Unsteered(At(q, o, i))
          /\ \A d : RecordAt(Unspoken(q), d, i) = RecordAt(q, d, i)
    BY <1>1, <1>3 DEF At, RecordAt
  <1>7. /\ \A e \in Effect : e.kind # "Steer" =>
             Places(e, Unspoken(q), Unsteered(o)) = Places(e, q, o)
        /\ \A e \in Effect : e.kind = "Steer" =>
             Places(e, Unspoken(q), Unsteered(o)) = {}
    BY <1>5, <1>6 DEF Places, Unsteered
  <1>. QED  BY <1>5, <1>6, <1>7

\* What the oldest write held back goes when it lands, and the rest moves up.
LEMMA LandedPlaces ==
  ASSUME NEW q \in Seq(Deferred), q # <<>>, NEW o
  PROVE  LET t == Tail(q)
             o2 == o \union Head(q).effects
         IN
         /\ t \in Seq(Deferred) /\ Len(q) \in Nat \ {0} /\ Len(t) = Len(q) - 1
         /\ \A e \in Effect, i \in 0..Len(t) :
              i \in Places(e, t, o2) <=>
                i + 1 \in Places(e, q, o) \/ (i = 0 /\ 0 \in Places(e, q, o))
         /\ \A d : \A k \in 0..Len(t) : RecordAt(t, Head(q).snap, k) = RecordAt(q, d, k + 1)
  <1> DEFINE t == Tail(q)
             o2 == o \union Head(q).effects
  <1>1. Len(q) \in Nat \ {0}  BY EmptySeq
  <1>2. /\ t \in Seq(Deferred) /\ Len(t) = Len(q) - 1 /\ Head(q) = q[1]
        /\ \A i \in 1..Len(t) : t[i] = q[i + 1]
    BY <1>1, HeadTailProperties
  <1> HIDE DEF t
  <1>3. At(t, o2, 0) = At(q, o, 0) \union At(q, o, 1)  BY <1>2 DEF At
  <1>4. \A i \in 1..Len(t) : At(t, o2, i) = At(q, o, i + 1)  BY <1>2 DEF At
  <1> HIDE DEF o2
  <1>5. \A e \in Effect, i \in 0..Len(t) :
          i \in Places(e, t, o2) <=>
            i + 1 \in Places(e, q, o) \/ (i = 0 /\ 0 \in Places(e, q, o))
    <2> TAKE e \in Effect, i \in 0..Len(t)
    <2>1. CASE i = 0  BY <1>1, <1>2, <1>3, <2>1 DEF Places
    <2>2. CASE i \in 1..Len(t)  BY <1>1, <1>2, <1>4, <2>2 DEF Places
    <2>. QED  BY <1>1, <1>2, <2>1, <2>2
  <1>6. \A d : \A k \in 0..Len(t) : RecordAt(t, Head(q).snap, k) = RecordAt(q, d, k + 1)
    BY <1>1, <1>2 DEF RecordAt
  <1>. QED  BY <1>1, <1>2, <1>5, <1>6 DEF t, o2

\* What it held back is dropped when it fails.
LEMMA DroppedPlaces ==
  ASSUME NEW q \in Seq(Deferred), q # <<>>, NEW o
  PROVE  LET t == Tail(q) IN
         /\ t \in Seq(Deferred) /\ Len(q) \in Nat \ {0} /\ Len(t) = Len(q) - 1
         /\ \A e \in Effect, i \in 1..Len(t) :
              i \in Places(e, t, o) <=> i + 1 \in Places(e, q, o)
         /\ \A e \in Effect : 0 \in Places(e, t, o) <=> 0 \in Places(e, q, o)
         /\ \A e \in Effect : e \in Head(q).effects <=> 1 \in Places(e, q, o)
         /\ \A d : \A k \in 1..Len(t) : RecordAt(t, d, k) = RecordAt(q, d, k + 1)
  <1> DEFINE t == Tail(q)
  <1>1. Len(q) \in Nat \ {0}  BY EmptySeq
  <1>2. /\ t \in Seq(Deferred) /\ Len(t) = Len(q) - 1 /\ Head(q) = q[1]
        /\ \A i \in 1..Len(t) : t[i] = q[i + 1]
    BY <1>1, HeadTailProperties
  <1> HIDE DEF t
  <1>3. \A e \in Effect, i \in 1..Len(t) :
          i \in Places(e, t, o) <=> i + 1 \in Places(e, q, o)
    BY <1>1, <1>2 DEF Places, At
  <1>4. \A e \in Effect : 0 \in Places(e, t, o) <=> 0 \in Places(e, q, o)
    BY <1>1, <1>2 DEF Places, At
  <1>5. \A e \in Effect : e \in Head(q).effects <=> 1 \in Places(e, q, o)
    BY <1>1, <1>2 DEF Places, At
  <1>6. \A d : \A k \in 1..Len(t) : RecordAt(t, d, k) = RecordAt(q, d, k + 1)
    BY <1>1, <1>2 DEF RecordAt
  <1>. QED  BY <1>1, <1>2, <1>3, <1>4, <1>5, <1>6 DEF t

\* However the queue moves up, what was asked for once is.
LEMMA LandedOne ==
  ASSUME NEW q \in Seq(Deferred), q # <<>>, NEW o, NEW e \in Effect
  PROVE  LET P == Places(e, q, o)
             N == Places(e, Tail(q), o \union Head(q).effects)
         IN (N = {} <=> P = {}) /\ (AtMostOne(P) => AtMostOne(N))
  <1> DEFINE t == Tail(q)
             P == Places(e, q, o)
             N == Places(e, t, o \union Head(q).effects)
  <1>1. /\ Len(q) \in Nat \ {0} /\ Len(t) = Len(q) - 1
        /\ \A i \in 0..Len(t) : i \in N <=> i + 1 \in P \/ (i = 0 /\ 0 \in P)
    BY LandedPlaces
  <1>2. P \subseteq 0..Len(q) /\ N \subseteq 0..Len(t)  BY DEF Places
  <1> HIDE DEF P, N, t
  <1>3. ASSUME NEW i \in P PROVE N # {}
    <2>1. CASE i = 0  BY <1>1, <2>1
    <2>2. CASE i # 0
      <3>1. i - 1 \in 0..Len(t) /\ (i - 1) + 1 = i  BY <1>1, <1>2, <2>2
      <3>. QED  BY <1>1, <3>1
    <2>. QED  BY <2>1, <2>2
  <1>4. ASSUME NEW i \in N PROVE i + 1 \in P \/ (i = 0 /\ 0 \in P)
    BY <1>1, <1>2
  <1>5. AtMostOne(P) => AtMostOne(N)
    BY <1>1, <1>2, <1>4 DEF AtMostOne
  <1>. QED  BY <1>3, <1>4, <1>5 DEF P, N, t

LEMMA DroppedOne ==
  ASSUME NEW q \in Seq(Deferred), q # <<>>, NEW o, NEW e \in Effect
  PROVE  LET P == Places(e, q, o)
             N == Places(e, Tail(q), o)
         IN /\ AtMostOne(P) => AtMostOne(N)
            /\ e \in Head(q).effects => P # {}
            /\ e \in Head(q).effects /\ AtMostOne(P) => N = {}
            /\ e \notin Head(q).effects => (N = {} <=> P = {})
  <1> DEFINE t == Tail(q)
             P == Places(e, q, o)
             N == Places(e, t, o)
  <1>1. /\ Len(q) \in Nat \ {0} /\ Len(t) = Len(q) - 1
        /\ \A i \in 1..Len(t) : i \in N <=> i + 1 \in P
        /\ 0 \in N <=> 0 \in P
        /\ e \in Head(q).effects <=> 1 \in P
    BY DroppedPlaces
  <1>2. P \subseteq 0..Len(q) /\ N \subseteq 0..Len(t)  BY DEF Places
  <1> HIDE DEF P, N, t
  <1>3. ASSUME NEW i \in P, i # 1 PROVE N # {}
    <2>1. CASE i = 0  BY <1>1, <2>1
    <2>2. CASE i # 0
      <3>1. i - 1 \in 1..Len(t) /\ (i - 1) + 1 = i  BY <1>1, <1>2, <1>3, <2>2
      <3>. QED  BY <1>1, <3>1
    <2>. QED  BY <2>1, <2>2
  <1>4. ASSUME NEW i \in N PROVE (i = 0 /\ 0 \in P) \/ (i # 0 /\ i + 1 \in P)
    <2>1. CASE i = 0  BY <1>1, <2>1
    <2>2. CASE i \in 1..Len(t)  BY <1>1, <2>2
    <2>. QED  BY <1>1, <1>2, <2>1, <2>2
  <1>5. AtMostOne(P) => AtMostOne(N)
    BY <1>1, <1>2, <1>4 DEF AtMostOne
  <1>6. e \in Head(q).effects /\ AtMostOne(P) => N = {}
    BY <1>1, <1>2, <1>4 DEF AtMostOne
  <1>. QED  BY <1>1, <1>3, <1>4, <1>5, <1>6 DEF P, N, t

LEMMA Kinds ==
  /\ Step \in Effect /\ MakeRoom \in Effect /\ Discard \in Effect
  /\ Step # MakeRoom /\ Step # Discard /\ MakeRoom # Discard
  /\ Step.kind = "Step" /\ MakeRoom.kind = "Room" /\ Discard.kind = "Discard"
  BY DEF Effect, Step, MakeRoom, Discard

LEMMA ReadsKind ==
  /\ Reads \subseteq Effect
  /\ Step \notin Reads /\ MakeRoom \notin Reads /\ Discard \notin Reads
  /\ \A e \in Reads : e.kind # "Steer" /\ e.kind # "Seen"
  /\ \A m \in Message : Start(m) \in Reads /\ Hand(m) \in Reads
  BY DEF Effect, Step, MakeRoom, Discard, Reads, Start, Hand

LEMMA SpokenKind ==
  ASSUME NEW m \in Message
  PROVE  /\ Seen(m) \in Effect /\ Steer(m) \in Effect
         /\ Seen(m) \notin Reads /\ Steer(m) \notin Reads
         /\ Seen(m).kind = "Seen" /\ Steer(m).kind = "Steer"
         /\ Seen(m) \notin {Step, MakeRoom, Discard}
         /\ Steer(m) \notin {Step, MakeRoom, Discard}
         /\ \A k \in Message : Seen(m) = Seen(k) => m = k
  BY DEF Effect, Step, MakeRoom, Discard, Reads, Steer, Seen

----------------------------------------------------------------------------
(* A step to come.  S and M are where the turn's next command and the      *)
(* making of the room are asked for, and reads says whether a thread is    *)
(* being read.                                                             *)

Stands(stage, progress, given, room, waits, S, M, reads) ==
  /\ stage # "None" => progress = "Working"
  /\ stage \in Commanding <=> S # {}
  /\ AtMostOne(S) /\ AtMostOne(M)
  /\ M # {} => progress = "Working" /\ ~room /\ stage = "None" /\ waits = "None"
  /\ waits = "Job" => progress = "Working" /\ given > 0 /\ stage = "None" /\ reads
  /\ progress = "Working" /\ stage = "None" => waits = "Job" \/ M # {}
  /\ progress = "Unbegun" => waits = "None"

(* A job with no room has been sent nothing, and one not begun has no room.*)
Rooms(j) == (~j.room => j.mail = <<>>) /\ (j.progress = "Unbegun" => ~j.room)

Reading(q, o) == \E e \in Reads : Places(e, q, o) # {}

Looping ==
  Stands(turn.stage, job.progress, job.given, job.room, pending,
         Places(Step, deferred, out), Places(MakeRoom, deferred, out),
         Reading(deferred, out))

\* Nothing of the loop is asked for.
Still(q, o) == Places(Step, q, o) = {} /\ Places(MakeRoom, q, o) = {}

LEMMA WriteStill ==
  ASSUME NEW q \in Seq(Deferred), NEW o, NEW E \in SUBSET Effect,
         job' \in Record, Write(q, o, E), Still(q, o), MakeRoom \notin E
  PROVE  /\ Step \notin E => Still(deferred', out')
         /\ Step \in E => Places(Step, deferred', out') = {Len(q) + 1}
         /\ Places(MakeRoom, deferred', out') = {}
         /\ E \intersect Reads # {} => Reading(deferred', out')
  <1>1. /\ \A e \in Effect \ E : Places(e, deferred', out') = Places(e, q, o)
        /\ \A e \in E : Places(e, deferred', out') = Places(e, q, o) \union {Len(q) + 1}
    BY WritePlaces
  <1>. QED  BY <1>1, Kinds DEF Reading, Still

\* A write of nothing but what is not of the loop leaves it as it stands.
LEMMA WriteLoops ==
  ASSUME NEW q \in Seq(Deferred), NEW o, NEW E \in SUBSET Effect,
         job' \in Record, Write(q, o, E), E \intersect {Step, MakeRoom} = {}
  PROVE  /\ Places(Step, deferred', out') = Places(Step, q, o)
         /\ Places(MakeRoom, deferred', out') = Places(MakeRoom, q, o)
         /\ Reading(q, o) => Reading(deferred', out')
  <1>1. /\ \A e \in Effect \ E : Places(e, deferred', out') = Places(e, q, o)
        /\ \A e \in E : Places(e, deferred', out') = Places(e, q, o) \union {Len(q) + 1}
    BY WritePlaces
  <1>2. Reading(q, o) => Reading(deferred', out')
    BY <1>1, ReadsKind DEF Reading
  <1>3. Step \in Effect \ E /\ MakeRoom \in Effect \ E  BY Kinds
  <1>. QED  BY <1>1, <1>2, <1>3

LEMMA TakenStill ==
  ASSUME NEW q \in Seq(Deferred), NEW o, Still(q, o), NEW x
  PROVE  Still(q, o \ {x})
  <1>1. /\ \A e \in Effect : e # x => Places(e, q, o \ {x}) = Places(e, q, o)
        /\ Places(x, q, o \ {x}) = Places(x, q, o) \ {0}
    BY TakenPlaces
  <1>. QED  BY <1>1, Kinds DEF Still

LEMMA UnspokenStill ==
  ASSUME NEW q \in Seq(Deferred), NEW o, Still(q, o)
  PROVE  Still(Unspoken(q), Unsteered(o))
  <1>1. \A e \in Effect : e.kind # "Steer" =>
          Places(e, Unspoken(q), Unsteered(o)) = Places(e, q, o)
    BY UnspokenPlaces
  <1>. QED  BY <1>1, Kinds DEF Still

\* The one place a step was asked for is taken.
LEMMA TakenOnly ==
  ASSUME NEW q \in Seq(Deferred), NEW o, NEW x \in Effect, x \in o,
         AtMostOne(Places(x, q, o))
  PROVE  Places(x, q, o \ {x}) = {}
  <1>1. Len(q) \in Nat  OBVIOUS
  <1>2. 0 \in Places(x, q, o)  BY <1>1 DEF Places, At
  <1>3. Places(x, q, o \ {x}) = Places(x, q, o) \ {0}  BY TakenPlaces
  <1>. QED  BY <1>2, <1>3 DEF AtMostOne

LEMMA StartGivenLoops ==
  ASSUME NEW n \in Nat, NEW j, InOrder(j, n), j.given > 0, j.progress = "Working",
         NEW q \in Seq(Deferred), NEW o, Still(q, o), pending # "Job",
         NEW E \in SUBSET Effect, E \intersect {Step, MakeRoom} = {},
         StartGiven(j, q, o, E)
  PROVE  Looping'
  <1> DEFINE m == LastGiven(j)
  <1>1. m \in Message  BY GivenIsMessage
  <1>2. job' = j /\ job' \in Record /\ Len(q) \in Nat
    BY DEF StartGiven, InOrder
  <1> HIDE DEF m
  <1>3. CASE m \in Threaded
    <2>1. /\ pending' = "Job" /\ turn' = NoTurn
          /\ Write(q, o, E \union {Start(m)})
      BY <1>3 DEF StartGiven, m
    <2>2. /\ E \union {Start(m)} \in SUBSET Effect
          /\ (E \union {Start(m)}) \intersect {Step, MakeRoom} = {}
          /\ (E \union {Start(m)}) \intersect Reads # {}
      BY <1>1, Kinds, ReadsKind, SpokenKind
    <2>3. Still(deferred', out') /\ Reading(deferred', out')
      BY <1>2, <2>1, <2>2, WriteStill
    <2>4. turn'.stage = "None"  BY <2>1 DEF NoTurn
    <2>. QED  BY <1>2, <2>1, <2>3, <2>4
              DEF Looping, Stands, Still, AtMostOne, Commanding
  <1>4. CASE m \notin Threaded
    <2>1. /\ pending' = pending /\ turn' = Resumed(m, read)
          /\ Write(q, o, E \union {Step})
      BY <1>4 DEF StartGiven, Registered, m
    <2>2. E \union {Step} \in SUBSET Effect /\ MakeRoom \notin E \union {Step}
      BY Kinds
    <2>3. /\ Places(Step, deferred', out') = {Len(q) + 1}
          /\ Places(MakeRoom, deferred', out') = {}
      BY <1>2, <2>1, <2>2, WriteStill
    <2>4. turn'.stage = "Starting"  BY <2>1 DEF NoTurn, Resumed
    <2>. QED  BY <1>2, <2>1, <2>3, <2>4
              DEF Looping, Stands, AtMostOne, Commanding
  <1>. QED  BY <1>3, <1>4

LEMMA DeliverLoops ==
  ASSUME NEW n \in Nat, NEW j, InOrder(j, n), HasNext(j), j.progress = "Working",
         NEW t \in Turn, t.stage = "Prompting", pending = "None",
         deferred \in Seq(Deferred), NEW o, Still(deferred, o),
         NEW E \in SUBSET Effect, E \intersect {Step, MakeRoom} = {},
         Deliver(j, t, o, E)
  PROVE  Looping'
  <1> DEFINE m == j.mail[j.given + 1]
  <1>1. m \in Message  BY GivenIsMessage
  <1>2. /\ job' = Give(j) /\ job' \in Record /\ job'.progress = "Working"
    BY GiveInOrder DEF Deliver, InOrder, Give, Record
  <1> HIDE DEF m
  <1>3. PICK x \in {Hand(m), Steer(m)} :
          /\ Write(deferred, o, E \union {x})
          /\ turn'.stage = "Prompting" /\ pending' \in {"None", "Steer"}
    <2>1. CASE m \in Threaded  BY <2>1 DEF Deliver, m, Turn
    <2>2. CASE m \notin Threaded  BY <2>2 DEF Deliver, m, Turn
    <2>. QED  BY <2>1, <2>2
  <1>4. /\ E \union {x} \in SUBSET Effect
        /\ (E \union {x}) \intersect {Step, MakeRoom} = {}
    BY <1>1, Kinds, ReadsKind, SpokenKind
  <1>5. Still(deferred', out')
    BY <1>2, <1>3, <1>4, WriteStill
  <1>. QED  BY <1>2, <1>3, <1>5 DEF Looping, Stands, Still, AtMostOne, Commanding

LEMMA HandBackSame ==
  ASSUME NEW j \in Record
  PROVE  /\ HandBack(j).progress = j.progress /\ HandBack(j).room = j.room
         /\ HandBack(j).mail = j.mail
  BY DEF HandBack, Record

LEMMA OutcomeIdle ==
  \A t \in Turn, b \in BOOLEAN : Outcome(t, b) \in Idle
  BY DEF Outcome, Turn, Idle

LEMMA EndedLoops ==
  ASSUME NEW n \in Nat, Kept(n), NEW b \in BOOLEAN, NEW o \in SUBSET Effect,
         Still(deferred, o), pending # "Job", Ended(b, o)
  PROVE  Looping'
  <1> DEFINE back == IF turn.delivery = "InFlight" THEN HandBack(job) ELSE job
             left == [Finish(back) EXCEPT !.progress = Outcome(turn, b)]
             q    == Unspoken(deferred)
             u    == Unsteered(o)
  <1>1. InOrder(back, n)  BY HandBackInOrder DEF Kept
  <1>2. InOrder(left, n) /\ left.progress \in Idle
    <2>1. InOrder(Finish(back), n)  BY <1>1, FinishInOrder
    <2>2. Outcome(turn, b) \in Progress /\ Outcome(turn, b) \in Idle
      BY OutcomeTyped, OutcomeIdle DEF Kept
    <2>3. left.progress = Outcome(turn, b)  BY <2>1 DEF InOrder, Record
    <2>. QED  BY <2>1, <2>2, <2>3, ProgressInOrder
  <1>3. q \in Seq(Deferred) /\ Still(q, u)
    BY UnspokenPlaces, UnspokenStill DEF Kept, Queue
  <1>4. CASE turn.stopping \/ ~HasNext(left)
    <2>1. /\ turn' = NoTurn /\ pending' = pending
          /\ Write(q, u, {})
          /\ job' = Drain(left) \/ job' = left
      BY <1>4 DEF Ended
    <2> HIDE DEF back, left, q, u
    <2>2. job' \in Record /\ job'.progress \in Idle
      <3>1. InOrder(Drain(left), n)  BY <1>2, DrainInOrder
      <3>2. Drain(left).progress = left.progress
        BY <1>2 DEF InOrder, Record, Drain
      <3>. QED  BY <1>2, <2>1, <3>1, <3>2 DEF InOrder
    <2>3. Still(deferred', out')  BY <1>3, <2>1, <2>2, WriteStill
    <2>4. turn'.stage = "None"  BY <2>1 DEF NoTurn
    <2>. QED  BY <2>1, <2>2, <2>3, <2>4
              DEF Looping, Stands, Still, AtMostOne, Commanding, Idle
  <1>5. CASE ~turn.stopping /\ HasNext(left)
    <2> DEFINE next == [Give(left) EXCEPT !.progress = "Working"]
    <2>1. StartGiven(next, q, u, {})
      BY <1>5 DEF Ended
    <2> HIDE DEF back, left, q, u
    <2>2. InOrder(Give(left), n) /\ Give(left).given > 0
      BY <1>2, <1>5, GiveInOrder DEF Give, InOrder, Record
    <2>3. InOrder(next, n)  BY <2>2, ProgressInOrder DEF Progress
    <2>4. next.given > 0 /\ next.progress = "Working"
      BY <2>2 DEF InOrder, Record
    <2> HIDE DEF next
    <2>. QED  BY <1>3, <2>1, <2>3, <2>4, StartGivenLoops
  <1>. QED  BY <1>4, <1>5

\* With an agent talking, nothing of the loop is asked for.
LEMMA TalkingIsStill ==
  ASSUME Looping, turn.stage \in Speaking \union {"Closing"}
  PROVE  /\ Still(deferred, out)
         /\ job.progress = "Working" /\ pending # "Job"
  BY DEF Looping, Stands, Still, Speaking, Commanding

\* A turn's command having been answered, nothing of the loop is asked for.
LEMMA AnsweredIsStill ==
  ASSUME Looping, deferred \in Seq(Deferred), Step \in out,
         turn.stage \in Commanding
  PROVE  /\ Still(deferred, out \ {Step})
         /\ job.progress = "Working" /\ pending # "Job"
  <1>1. Places(Step, deferred, out \ {Step}) = {}
    BY TakenOnly, Kinds DEF Looping, Stands
  <1>2. Places(MakeRoom, deferred, out) = {} /\ job.progress = "Working" /\ pending # "Job"
    BY DEF Looping, Stands, Commanding
  <1>3. \A e \in Effect : e # Step =>
          Places(e, deferred, out \ {Step}) = Places(e, deferred, out)
    BY TakenPlaces
  <1>. QED  BY <1>1, <1>2, <1>3, Kinds DEF Still

\* A turn talking, with what waits for it changed or not, stays so.
LEMMA TalkingLoops ==
  ASSUME Still(deferred', out'), job'.progress = "Working", pending' # "Job",
         turn'.stage \in Speaking \union {"Closing"}
  PROVE  Looping'
  BY DEF Looping, Stands, Still, AtMostOne, Commanding, Speaking

LEMMA HandedOnLoops ==
  ASSUME NEW n \in Nat, Kept(n), NEW t \in Turn,
         t.stage \in Speaking \union {"Closing"}, pending # "Job",
         job.progress = "Working", NEW o, Still(deferred, o), HandedOn(t, o)
  PROVE  Looping'
  <1>0. InOrder(job, n) /\ deferred \in Seq(Deferred)  BY DEF Kept, Queue
  <1>1. CASE Deliverable(job, t)
    <2>1. /\ HasNext(job) /\ Deliver(job, t, o, {})
          /\ t.stage = "Prompting" /\ pending = "None"
      BY <1>1 DEF HandedOn, Deliverable, CanSteer
    <2>. QED  BY <1>0, <2>1, DeliverLoops
  <1>2. CASE ~Deliverable(job, t)
    <2>1. turn' = t /\ out' = o /\ UNCHANGED <<job, pending, deferred>>
      BY <1>2 DEF HandedOn
    <2>. QED  BY <2>1, TalkingLoops
  <1>. QED  BY <1>1, <1>2

LEMMA GoesOnLoops ==
  ASSUME NEW n \in Nat, Kept(n), Looping, Step \in out,
         turn.stage \in Commanding, NEW failed \in BOOLEAN,
         NEW stage \in Commanding \union {"Opening"}, GoesOn(failed, stage)
  PROVE  Looping'
  <1>0. deferred \in Seq(Deferred) /\ turn \in Turn /\ out \in SUBSET Effect
    BY DEF Kept, Queue
  <1>1. /\ Still(deferred, out \ {Step})
        /\ job.progress = "Working" /\ pending # "Job"
    BY <1>0, AnsweredIsStill
  <1>2. CASE turn.stopping \/ failed
    <2>1. Ended(FALSE, out \ {Step})  BY <1>2 DEF GoesOn
    <2>2. out \ {Step} \in SUBSET Effect  BY <1>0
    <2>. QED  BY <1>1, <2>1, <2>2, EndedLoops
  <1>3. CASE ~(turn.stopping \/ failed)
    <2>1. /\ turn'.stage = stage
          /\ out' = IF stage = "Opening" THEN out \ {Step} ELSE out
          /\ UNCHANGED <<job, pending, deferred>>
      BY <1>0, <1>3 DEF GoesOn, Turn
    <2>2. CASE stage = "Opening"
      BY <1>1, <2>1, <2>2, TalkingLoops DEF Speaking
    <2>3. CASE stage \in Commanding
      <3>1. out' = out  BY <2>1, <2>3 DEF Commanding
      <3>2. UNCHANGED <<Places(Step, deferred, out), Places(MakeRoom, deferred, out),
                        Reading(deferred, out)>>
        BY <2>1, <3>1
      <3>. QED  BY <2>1, <2>3, <3>1 DEF Looping, Stands, Commanding
    <2>. QED  BY <2>2, <2>3
  <1>. QED  BY <1>2, <1>3

----------------------------------------------------------------------------
(* A step to come, action by action. *)

LEMMA LoopingPersons == Inv /\ Looping /\ Rooms(job) /\ Person => Looping'
  <1> SUFFICES ASSUME Inv, Looping, Rooms(job), Person PROVE Looping'
    OBVIOUS
  <1>0. PICK n \in Nat : n = said  BY DEF Inv
  <1>1. /\ Kept(n) /\ InOrder(job, n) /\ job \in Record /\ turn \in Turn
        /\ deferred \in Seq(Deferred) /\ out \in SUBSET Effect /\ Len(deferred) \in Nat
    BY <1>0 DEF Inv, Kept, Queue, InOrder
  <1>2. CASE Begin
    <2>1. /\ job.progress = "Unbegun" /\ job' = [job EXCEPT !.progress = "Working"]
          /\ Write(deferred, out, {MakeRoom})
          /\ UNCHANGED <<turn, pending>>
      BY <1>2 DEF Begin, memory
    <2>2. /\ job' \in Record /\ job'.progress = "Working" /\ ~job'.room
      BY <1>1, <2>1 DEF Record, Progress, Rooms
    <2>3. Still(deferred, out) /\ turn.stage = "None" /\ pending = "None"
      BY <2>1 DEF Looping, Stands, Still, Commanding
    <2>4. /\ \A e \in Effect \ {MakeRoom} :
               Places(e, deferred', out') = Places(e, deferred, out)
          /\ Places(MakeRoom, deferred', out') =
               Places(MakeRoom, deferred, out) \union {Len(deferred) + 1}
      BY <1>1, <2>1, <2>2, WritePlaces, Kinds
    <2>5. /\ Places(Step, deferred', out') = {}
          /\ Places(MakeRoom, deferred', out') = {Len(deferred) + 1}
      BY <2>3, <2>4, Kinds DEF Still
    <2>. QED  BY <2>1, <2>2, <2>3, <2>5 DEF Looping, Stands, AtMostOne, Commanding
  <1>3. CASE Say
    <2> DEFINE m == said + 1
    <2>1. m = n + 1 /\ m \in Message /\ n + 1 \in Nat  BY <1>0, <1>3 DEF Say
    <2>2. InOrder(Receive(job, m), n + 1)  BY <1>1, <2>1, ReceiveInOrder
    <2>3. {Seen(m)} \in SUBSET Effect /\ {Seen(m)} \intersect {Step, MakeRoom} = {}
      BY <2>1, SpokenKind
    <2>4. /\ Receive(job, m).progress = job.progress
          /\ Receive(job, m).room = job.room
          /\ Receive(job, m).given = job.given
      BY <1>1 DEF Receive, Record
    <2>5. CASE job.progress = "Working" /\ Deliverable(Receive(job, m), turn)
      <3>1. /\ Deliver(Receive(job, m), turn, out, {Seen(m)})
            /\ HasNext(Receive(job, m)) /\ turn.stage = "Prompting"
            /\ pending = "None"
        BY <1>3, <2>5 DEF Say, Deliverable, CanSteer, Idle, Over
      <3>2. Still(deferred, out)  BY <3>1, TalkingIsStill DEF Speaking
      <3> HIDE DEF m
      <3>. QED  BY <1>1, <2>1, <2>2, <2>3, <2>4, <2>5, <3>1, <3>2, DeliverLoops
    <2>6. CASE job.progress = "Working" /\ ~Deliverable(Receive(job, m), turn)
      <3>1. /\ job' = Receive(job, m)
            /\ Write(deferred, out, {Seen(m)})
            /\ UNCHANGED <<turn, pending>>
        BY <1>3, <2>6 DEF Say, Idle, Over
      <3> HIDE DEF m
      <3>2. job' \in Record  BY <2>2, <3>1 DEF InOrder
      <3>3. /\ Places(Step, deferred', out') = Places(Step, deferred, out)
            /\ Places(MakeRoom, deferred', out') = Places(MakeRoom, deferred, out)
            /\ Reading(deferred, out) => Reading(deferred', out')
        BY <1>1, <2>3, <3>1, <3>2, WriteLoops
      <3>. QED  BY <2>4, <3>1, <3>3 DEF Looping, Stands
    <2>7. CASE job.progress \in Idle
      <3> DEFINE j == [Give(Receive(job, m)) EXCEPT !.progress = "Working"]
      <3>1. StartGiven(j, deferred, out, {Seen(m)})
        BY <1>3, <2>7 DEF Say, Idle, Over
      <3>2. HasNext(Receive(job, m))
        BY <1>1, <2>1 DEF HasNext, Receive, InOrder, Record
      <3>3. InOrder(Give(Receive(job, m)), n + 1)
        BY <2>1, <2>2, <3>2, GiveInOrder
      <3>4. InOrder(j, n + 1)
        BY <2>1, <3>3, ProgressInOrder DEF Progress
      <3>5. j.given > 0 /\ j.progress = "Working"
        BY <1>1, <2>2, <3>3 DEF Give, Receive, InOrder, Record
      <3>6. Still(deferred, out) /\ pending # "Job"
        BY <2>7 DEF Looping, Stands, Still, Commanding, Idle
      <3> HIDE DEF j, m
      <3>. QED  BY <1>1, <2>1, <2>3, <3>1, <3>4, <3>5, <3>6, StartGivenLoops
    <2>8. CASE job.progress \in Over
      <3>1. UNCHANGED <<job, turn, pending, deferred, out>>
        BY <1>3, <2>8 DEF Say, Idle, Over
      <3>. QED  BY <3>1 DEF Looping, Reading
    <2>. QED  BY <1>3, <2>5, <2>6, <2>7, <2>8 DEF Say
  <1>4. CASE Stop
    <2>1. UNCHANGED <<job, pending, deferred, out>>  BY <1>4 DEF Stop
    <2>2. turn'.stage = turn.stage
      BY <1>1, <1>4 DEF Stop, Turn
    <2>. QED  BY <2>1, <2>2 DEF Looping, Reading
  <1>5. CASE Retire
    <2>1. UNCHANGED <<turn, pending>>  BY <1>5 DEF Retire, memory
    <2>2. Still(deferred, out) /\ turn.stage = "None" /\ pending # "Job"
      BY <1>5 DEF Retire, Looping, Stands, Still, Commanding, Idle, Over
    <2>3. job' \in Record /\ job'.progress \in Over
      BY <1>1, <1>5 DEF Retire, Record, Progress, Over
    <2>4. Still(deferred', out')
      <3>1. CASE Write(deferred, out, {Discard})
        BY <1>1, <2>2, <2>3, <3>1, WriteStill, Kinds
      <3>2. CASE Release(deferred, out, {Discard})
        <4>1. \A e \in Effect \ {Discard} :
                Places(e, deferred', out') = Places(e, deferred, out)
          BY <1>1, <3>2, ReleasePlaces
        <4>. QED  BY <2>2, <4>1, Kinds DEF Still
      <3>. QED  BY <1>5, <3>1, <3>2 DEF Retire
    <2>. QED  BY <2>1, <2>2, <2>3, <2>4
              DEF Looping, Stands, Still, AtMostOne, Commanding, Over
  <1>. QED  BY <1>2, <1>3, <1>4, <1>5 DEF Person

LEMMA LoopingAgents == Inv /\ Looping /\ Agent => Looping'
  <1> SUFFICES ASSUME Inv, Looping, Agent PROVE Looping'
    OBVIOUS
  <1>0. PICK n \in Nat : n = said  BY DEF Inv
  <1>1. /\ Kept(n) /\ InOrder(job, n) /\ job \in Record /\ turn \in Turn
        /\ deferred \in Seq(Deferred)
    BY <1>0 DEF Inv, Kept, Queue, InOrder
  <1>2. turn.stage \in Speaking \union {"Closing"} =>
          /\ Still(deferred, out) /\ job.progress = "Working" /\ pending # "Job"
          /\ \A x : Still(deferred, out \ {x})
    BY <1>1, TalkingIsStill, TakenStill
  <1>3. ASSUME NEW b \in BOOLEAN, AgentReady(b) PROVE Looping'
    <2> DEFINE t == [turn EXCEPT !.stage = "Prompting", !.steerable = b]
    <2>1. t \in Turn /\ t.stage = "Prompting"
      BY <1>1 DEF Turn, Stage, Speaking
    <2>2. turn.stage = "Opening" /\ HandedOn(t, out)  BY <1>3 DEF AgentReady
    <2> HIDE DEF t
    <2>. QED  BY <1>1, <1>2, <2>1, <2>2, HandedOnLoops DEF Speaking
  <1>4. ASSUME NEW b \in BOOLEAN, AgentAnswered(b) PROVE Looping'
    <2>1. /\ turn.stage \in Speaking /\ turn'.stage = "Closing"
          /\ UNCHANGED <<job, pending, deferred, out>>
      BY <1>1, <1>4 DEF AgentAnswered, Turn, Speaking
    <2>. QED  BY <1>2, <2>1, TalkingLoops
  <1>5. CASE AgentSpoke
    <2>1. turn.stage = "Prompting" /\ HandedOn(turn, out)
      BY <1>5 DEF AgentSpoke, Deliverable, CanSteer
    <2>. QED  BY <1>1, <1>2, <2>1, HandedOnLoops DEF Speaking
  <1>6. CASE Claim
    <2>1. /\ turn.stage \in Speaking \union {"Closing"} /\ turn'.stage = turn.stage
          /\ UNCHANGED <<job, pending, deferred, out>>
      BY <1>1, <1>6 DEF Claim, Turn
    <2>. QED  BY <1>2, <2>1, TalkingLoops
  <1>7. ASSUME NEW m \in Message, SteerLanded(m) PROVE Looping'
    <2> DEFINE t == [turn EXCEPT !.delivery = "Open", !.steering = FALSE,
                                 !.claimed = FALSE]
    <2>1. t \in Turn /\ t.stage = turn.stage  BY <1>1 DEF Turn
    <2>2. turn.stage = "Prompting" /\ HandedOn(t, out \ {Steer(m)})
      BY <1>7 DEF SteerLanded
    <2> HIDE DEF t
    <2>. QED  BY <1>1, <1>2, <2>1, <2>2, HandedOnLoops DEF Speaking
  <1>8. ASSUME NEW m \in Message, SteerWaits(m) PROVE Looping'
    <2>1. /\ turn.stage = "Prompting" /\ turn'.stage = turn.stage
          /\ job' = HandBack(job) /\ pending' = pending
          /\ Write(deferred, out \ {Steer(m)}, {})
      BY <1>1, <1>8 DEF SteerWaits, Turn
    <2>2. job' \in Record /\ job'.progress = job.progress
      BY <1>1, <2>1, HandBackInOrder, HandBackSame DEF InOrder
    <2>3. Still(deferred', out')
      BY <1>1, <1>2, <2>1, <2>2, WriteStill DEF Speaking
    <2>. QED  BY <1>2, <2>1, <2>2, <2>3, TalkingLoops DEF Speaking
  <1>. QED  BY <1>3, <1>4, <1>5, <1>6, <1>7, <1>8 DEF Agent

LEMMA LoopingCommands == Inv /\ Looping /\ CommandAnswered => Looping'
  <1> SUFFICES ASSUME Inv, Looping, NEW ok \in BOOLEAN,
                      \/ Looked(ok) \/ Built(ok) \/ Made(ok)
                      \/ Up(ok) \/ Wrapped(ok) \/ CheckedOut(ok)
               PROVE  Looping'
    BY DEF CommandAnswered
  <1>0. PICK n \in Nat : Kept(n)  BY DEF Inv
  <1>1. PICK failed \in BOOLEAN, stage \in Commanding \union {"Opening"} :
          /\ GoesOn(failed, stage) /\ Step \in out /\ turn.stage \in Commanding
    <2>1. CASE Looked(ok)
      <3>1. PICK s \in Commanding : s = IF ok THEN "Creating" ELSE "Building"
        BY DEF Commanding
      <3>. QED  BY <2>1, <3>1 DEF Looked, Answered, Commanding
    <2>2. CASE Built(ok)  BY <2>2 DEF Built, Answered, Commanding
    <2>3. CASE Made(ok)  BY <2>3 DEF Made, Answered, Commanding
    <2>4. CASE Up(ok)  BY <2>4 DEF Up, Answered, Commanding
    <2>5. CASE Wrapped(ok)
      <3>1. PICK s \in Commanding \union {"Opening"} :
              s = IF turn.fresh THEN "CheckingOut" ELSE "Opening"
        BY DEF Commanding
      <3>. QED  BY <2>5, <3>1 DEF Wrapped, Answered, Commanding
    <2>6. CASE CheckedOut(ok)  BY <2>6 DEF CheckedOut, Answered, Commanding
    <2>. QED  BY <2>1, <2>2, <2>3, <2>4, <2>5, <2>6
  <1>. QED  BY <1>0, <1>1, GoesOnLoops

LEMMA RoomlessLoops ==
  ASSUME job \in Record, turn.stage = "None", pending' # "Job",
         NEW q \in Seq(Deferred), NEW o, Still(q, o), Roomless(q, o)
  PROVE  Looping'
  <1>1. /\ job' = [job EXCEPT !.progress = "Failed"] /\ turn' = turn
        /\ Write(q, o, {})
    BY DEF Roomless
  <1>2. job' \in Record /\ job'.progress = "Failed"
    BY <1>1 DEF Record, Progress, Idle
  <1>3. Still(deferred', out')  BY <1>1, <1>2, WriteStill
  <1>. QED  BY <1>1, <1>2, <1>3 DEF Looping, Stands, Still, AtMostOne, Commanding

LEMMA LoopingRooms == Inv /\ Looping /\ RoomAnswered => Looping'
  <1> SUFFICES ASSUME Inv, Looping, MakeRoom \in out, RoomMade \/ RoomRefused
               PROVE  Looping'
    BY DEF RoomAnswered, RoomMade, RoomRefused
  <1>1. job \in Record /\ deferred \in Seq(Deferred)
    BY DEF Inv, Kept, Queue, InOrder
  <1>2. /\ AtMostOne(Places(MakeRoom, deferred, out))
        /\ Places(MakeRoom, deferred, out) # {}
    <2>1. Len(deferred) \in Nat  BY <1>1
    <2>2. 0 \in Places(MakeRoom, deferred, out)  BY <2>1 DEF Places, At
    <2>. QED  BY <2>2 DEF Looping, Stands
  <1>3. /\ job.progress = "Working" /\ turn.stage = "None" /\ pending = "None"
        /\ Places(Step, deferred, out) = {}
    BY <1>2 DEF Looping, Stands, Commanding
  <1>4. /\ \A e \in Effect : e # MakeRoom =>
             Places(e, deferred, out \ {MakeRoom}) = Places(e, deferred, out)
        /\ Places(MakeRoom, deferred, out \ {MakeRoom}) = {}
    <2>1. MakeRoom \in Effect  BY Kinds
    <2>2. Places(MakeRoom, deferred, out \ {MakeRoom}) = {}
      BY <1>1, <1>2, <2>1, TakenOnly, Zenon
    <2>. QED  BY <1>1, <2>2, TakenPlaces, Zenon
  <1>5. Still(deferred, out \ {MakeRoom})  BY <1>3, <1>4, Kinds DEF Still
  <1>6. CASE RoomMade
    <2>1. /\ job' = [job EXCEPT !.room = TRUE] /\ pending' = pending
          /\ Write(deferred, out \ {MakeRoom}, {Step})
          /\ turn'.stage = "Looking"
      BY <1>6 DEF RoomMade, Registered, NoTurn
    <2>2. job' \in Record /\ job'.progress = "Working"  BY <1>1, <1>3, <2>1 DEF Record
    <2>3. {Step} \in SUBSET Effect /\ MakeRoom \notin {Step} /\ Step \in {Step}
      BY Kinds
    <2>4. /\ Places(Step, deferred', out') = {Len(deferred) + 1}
          /\ Places(MakeRoom, deferred', out') = {}
      BY <1>1, <1>5, <2>1, <2>2, <2>3, WriteStill
    <2>. QED  BY <1>3, <2>1, <2>2, <2>4 DEF Looping, Stands, AtMostOne, Commanding
  <1>7. CASE RoomRefused
    BY <1>1, <1>3, <1>5, <1>7, RoomlessLoops DEF RoomRefused
  <1>. QED  BY <1>6, <1>7

LEMMA AbandonedLoops ==
  ASSUME job \in Record, pending' # "Job",
         NEW q \in Seq(Deferred), NEW o, Still(q, o), Abandoned(q, o)
  PROVE  Looping'
  <1>1. /\ job' = [Drain(job) EXCEPT !.progress = "Failed"]
        /\ turn' = NoTurn /\ Write(q, o, {})
    BY DEF Abandoned
  <1>2. job' \in Record /\ job'.progress = "Failed"
    <2>1. <<>> \in Seq(Message)  OBVIOUS
    <2>. QED  BY <1>1, <2>1 DEF Drain, Record, Progress, Idle
  <1>3. Still(deferred', out')  BY <1>1, <1>2, WriteStill
  <1>4. turn'.stage = "None"  BY <1>1 DEF NoTurn
  <1>. QED  BY <1>2, <1>3, <1>4 DEF Looping, Stands, Still, AtMostOne, Commanding

\* A message handed over that the turn cannot take waits again, and what
\* drives the job is left as it was.
LEMMA NotTakenLoops ==
  ASSUME NEW n \in Nat, Kept(n), Looping, pending = "Steer", pending' = "None",
         NEW q \in Seq(Deferred), NEW o,
         Places(Step, q, o) = {} <=> Places(Step, deferred, out) = {},
         Places(MakeRoom, q, o) = {} <=> Places(MakeRoom, deferred, out) = {},
         AtMostOne(Places(Step, q, o)), AtMostOne(Places(MakeRoom, q, o)),
         NotTaken(q, o)
  PROVE  Looping'
  <1>1. /\ turn'.stage = turn.stage /\ job' = HandBack(job)
        /\ Write(q, o, {})
    BY DEF NotTaken, Kept, Turn
  <1>2. job' \in Record /\ job'.progress = job.progress /\ job'.room = job.room
    BY <1>1, HandBackInOrder, HandBackSame DEF Kept, InOrder
  <1>3. /\ Places(Step, deferred', out') = Places(Step, q, o)
        /\ Places(MakeRoom, deferred', out') = Places(MakeRoom, q, o)
    BY <1>1, <1>2, WriteLoops
  <1>. QED  BY <1>1, <1>2, <1>3 DEF Looping, Stands

LEMMA LoopingWrites == Inv /\ Looping /\ WriteAnswered => Looping'
  <1> SUFFICES ASSUME Inv, Looping, WriteAnswered PROVE Looping'
    OBVIOUS
  <1>0. PICK n \in Nat : Kept(n)  BY DEF Inv
  <1> DEFINE q    == Tail(deferred)
             gone == Head(deferred).effects
  <1>1. /\ job \in Record /\ deferred \in Seq(Deferred) /\ deferred # <<>>
        /\ q \in Seq(Deferred)
    BY HeadTailProperties
       DEF Inv, Kept, Queue, InOrder, WriteAnswered, Landed, Unwritten
  <1>2. CASE Landed
    <2>1. /\ UNCHANGED <<job, turn, pending>>
          /\ deferred' = q /\ out' = out \union gone
      BY <1>2 DEF Landed, Release, memory
    <2>2. \A e \in Effect :
            /\ Places(e, deferred', out') = {} <=> Places(e, deferred, out) = {}
            /\ AtMostOne(Places(e, deferred, out)) => AtMostOne(Places(e, deferred', out'))
      BY <1>1, <2>1, LandedOne
    <2>3. Reading(deferred, out) => Reading(deferred', out')
      BY <2>2, ReadsKind DEF Reading
    <2>. QED  BY <2>1, <2>2, <2>3, Kinds DEF Looping, Stands
  <1>3. CASE Unwritten
    <2> DEFINE unasked == gone \intersect Reads # {}
    <2>1. /\ pending' = IF unasked THEN "None" ELSE pending
          /\ \/ (Step \in gone \/ (unasked /\ pending = "Job")) /\ Abandoned(q, out)
             \/ Step \notin gone /\ unasked /\ pending = "Steer" /\ NotTaken(q, out)
             \/ MakeRoom \in gone /\ Roomless(q, out)
             \/ /\ {Step, MakeRoom} \intersect gone = {}
                /\ unasked => pending = "None"
                /\ Release(q, out, {}) /\ UNCHANGED <<job, turn>>
      BY <1>3 DEF Unwritten
    <2>2. \A e \in Effect :
            /\ AtMostOne(Places(e, deferred, out)) => AtMostOne(Places(e, q, out))
            /\ e \in gone => Places(e, deferred, out) # {}
            /\ e \in gone /\ AtMostOne(Places(e, deferred, out)) => Places(e, q, out) = {}
            /\ e \notin gone => (Places(e, q, out) = {} <=> Places(e, deferred, out) = {})
      BY <1>1, DroppedOne
    <2> HIDE DEF q, gone
    <2>3. AtMostOne(Places(Step, deferred, out)) /\ AtMostOne(Places(MakeRoom, deferred, out))
      BY DEF Looping, Stands
    <2>4. CASE (Step \in gone \/ (unasked /\ pending = "Job")) /\ Abandoned(q, out)
      <3>1. pending' # "Job"
        BY <2>1, <2>2, <2>4, Kinds DEF Looping, Stands, Commanding
      <3>2. Places(Step, deferred, out) = {} => Places(Step, q, out) = {}
        BY <2>2, <2>3, Kinds
      <3>3. Places(MakeRoom, deferred, out) = {} => Places(MakeRoom, q, out) = {}
        BY <2>2, <2>3, Kinds
      <3>4. Step \in gone => Places(Step, deferred, out) # {} /\ Places(Step, q, out) = {}
        BY <2>2, <2>3, Kinds
      <3>5. Still(q, out)
        BY <2>4, <3>2, <3>3, <3>4 DEF Looping, Stands, Still, Commanding
      <3>. QED  BY <1>1, <2>4, <3>1, <3>5, AbandonedLoops
    <2>5. CASE Step \notin gone /\ unasked /\ pending = "Steer" /\ NotTaken(q, out)
      <3>1. pending' = "None"  BY <2>1, <2>5
      <3>2. MakeRoom \notin gone
        BY <2>2, <2>5, Kinds DEF Looping, Stands
      <3>3. /\ Places(Step, q, out) = {} <=> Places(Step, deferred, out) = {}
            /\ Places(MakeRoom, q, out) = {} <=> Places(MakeRoom, deferred, out) = {}
            /\ AtMostOne(Places(Step, q, out)) /\ AtMostOne(Places(MakeRoom, q, out))
        BY <2>2, <2>3, <2>5, <3>2, Kinds
      <3>. QED  BY <1>0, <1>1, <2>5, <3>1, <3>3, NotTakenLoops
    <2>6. CASE MakeRoom \in gone /\ Roomless(q, out)
      <3>1. Places(MakeRoom, deferred, out) # {} /\ Places(MakeRoom, q, out) = {}
        BY <2>2, <2>3, <2>6, Kinds
      <3>2. turn.stage = "None" /\ pending = "None" /\ Places(Step, deferred, out) = {}
        BY <3>1 DEF Looping, Stands, Commanding
      <3>3. Still(q, out)  BY <2>2, <2>3, <3>1, <3>2, Kinds DEF Still
      <3>. QED  BY <1>1, <2>1, <2>6, <3>2, <3>3, RoomlessLoops
    <2>7. CASE /\ {Step, MakeRoom} \intersect gone = {}
               /\ unasked => pending = "None"
               /\ Release(q, out, {}) /\ UNCHANGED <<job, turn>>
      <3>1. pending' = pending /\ deferred' = q /\ out' = out
        BY <2>1, <2>7 DEF Release
      <3>2. /\ Places(Step, q, out) = {} <=> Places(Step, deferred, out) = {}
            /\ Places(MakeRoom, q, out) = {} <=> Places(MakeRoom, deferred, out) = {}
            /\ AtMostOne(Places(Step, q, out)) /\ AtMostOne(Places(MakeRoom, q, out))
        BY <2>2, <2>3, <2>7, Kinds
      <3>3. pending = "Job" /\ Reading(deferred, out) => Reading(q, out)
        BY <2>2, <2>7, ReadsKind DEF Reading
      <3>. QED  BY <2>7, <3>1, <3>2, <3>3 DEF Looping, Stands
    <2>. QED  BY <2>1, <2>4, <2>5, <2>6, <2>7
  <1>. QED  BY <1>2, <1>3 DEF WriteAnswered

LEMMA LoopingThreads == Inv /\ Looping /\ ThreadAnswered => Looping'
  <1> SUFFICES ASSUME Inv, Looping, NEW e \in Reads, ThreadRead(e) PROVE Looping'
    BY DEF ThreadAnswered
  <1>0. PICK n \in Nat : Kept(n)  BY DEF Inv
  <1> DEFINE o == out \ {e}
  <1>1. deferred \in Seq(Deferred) /\ Len(deferred) \in Nat /\ turn \in Turn
    BY <1>0 DEF Kept, Queue
  <1>2. /\ Places(Step, deferred, o) = Places(Step, deferred, out)
        /\ Places(MakeRoom, deferred, o) = Places(MakeRoom, deferred, out)
    <2>1. \A x \in Effect : x # e => Places(x, deferred, o) = Places(x, deferred, out)
      BY <1>1, TakenPlaces
    <2>. QED  BY <2>1, Kinds, ReadsKind
  <1>3. pending' = "None"  BY DEF ThreadRead
  <1>4. CASE /\ pending = "Job"
             /\ Registered(Resumed(LastGiven(job), e.of)) /\ UNCHANGED job
             /\ AfterWrites(deferred, o, {Step})
    <2>1. Still(deferred, o) /\ job.progress = "Working"
      BY <1>2, <1>4 DEF Looping, Stands, Still, Commanding
    <2> HIDE DEF o
    <2>2. /\ \A x \in Effect \ {Step} : Places(x, deferred', out') = Places(x, deferred, o)
          /\ Places(Step, deferred', out') = Places(Step, deferred, o) \union {Len(deferred)}
      BY <1>1, <1>4, AfterWritesPlaces, Kinds
    <2>3. /\ Places(MakeRoom, deferred', out') = {}
          /\ Places(Step, deferred', out') = {Len(deferred)}
      BY <2>1, <2>2, Kinds DEF Still
    <2>4. turn'.stage = "Starting"  BY <1>4 DEF Registered, Resumed, NoTurn
    <2>. QED  BY <1>3, <1>4, <2>1, <2>3, <2>4 DEF Looping, Stands, AtMostOne, Commanding
  <1>5. CASE /\ pending = "Steer" /\ CanSteer(turn) /\ job.given > 0
             /\ turn' = [turn EXCEPT !.steering = TRUE] /\ UNCHANGED job
             /\ AfterWrites(deferred, o, {Steer(LastGiven(job))})
    <2>1. turn.stage = "Prompting" /\ turn'.stage = "Prompting"
      BY <1>1, <1>5 DEF CanSteer, Turn
    <2>2. Still(deferred, o) /\ job.progress = "Working"
      BY <1>2, <2>1, TalkingIsStill DEF Still, Speaking
    <2>3. LastGiven(job) \in Message  BY <1>0, <1>5, GivenIsMessage DEF Kept
    <2> HIDE DEF o
    <2>4. \A x \in Effect \ {Steer(LastGiven(job))} :
             Places(x, deferred', out') = Places(x, deferred, o)
      BY <1>1, <1>5, <2>3, AfterWritesPlaces, SpokenKind
    <2>5. Still(deferred', out')  BY <2>2, <2>3, <2>4, Kinds, SpokenKind DEF Still
    <2>. QED  BY <1>3, <1>5, <2>1, <2>2, <2>5, TalkingLoops DEF Speaking
  <1>6. CASE pending = "Steer" /\ NotTaken(deferred, o)
    <2>1. AtMostOne(Places(Step, deferred, o)) /\ AtMostOne(Places(MakeRoom, deferred, o))
      BY <1>2 DEF Looping, Stands
    <2> HIDE DEF o
    <2>. QED  BY <1>0, <1>1, <1>2, <1>3, <1>6, <2>1, NotTakenLoops
  <1>7. CASE /\ pending = "None" \/ job.given = 0
             /\ UNCHANGED <<job, turn>> /\ Release(deferred, o, {})
    <2>1. pending # "Job"  BY <1>7 DEF Looping, Stands
    <2>2. deferred' = deferred /\ out' = o  BY <1>7 DEF Release
    <2>3. pending = "None" \/ pending = "Steer"
      BY <1>0, <2>1 DEF Kept
    <2>. QED  BY <1>2, <1>3, <1>7, <2>1, <2>2, <2>3 DEF Looping, Stands
  <1>. QED  BY <1>4, <1>5, <1>6, <1>7 DEF ThreadRead

LEMMA LoopingRestart == Inv' /\ Restart => Looping'
  <1> SUFFICES ASSUME Inv', Restart PROVE Looping'
    OBVIOUS
  <1> DEFINE o == {e \in out : e.kind = "Seen"}
                  \union (IF turn'.stage = "Starting" THEN {Step} ELSE {})
                  \union (IF job'.progress \in Over /\ container'
                            THEN {Discard} ELSE {})
  <1>1. /\ pending' = "None" /\ Write(<<>>, o, {})
        /\ turn' = IF job'.progress = "Working"
                     THEN [NoTurn EXCEPT !.stage = "Starting"] ELSE NoTurn
    BY DEF Restart
  <1>2. turn'.stage = IF job'.progress = "Working" THEN "Starting" ELSE "None"
    BY <1>1 DEF NoTurn
  <1>3. MakeRoom \notin o /\ (Step \in o <=> turn'.stage = "Starting")
    BY Kinds
  <1>4. job' \in Record  BY DEF Inv, Kept, InOrder
  <1> HIDE DEF o
  <1> DEFINE q == <<>>
  <1>5. \A e \in Effect : Places(e, deferred', out') = Places(e, q, o)
    <2>1. q \in Seq(Deferred) /\ {} \in SUBSET Effect  OBVIOUS
    <2> DEFINE E == {}
    <2>2. \A e \in Effect : e \in Effect \ E  OBVIOUS
    <2>3. Write(q, o, E)  BY <1>1
    <2> HIDE DEF q, E
    <2>4. \A e \in Effect \ E : Places(e, deferred', out') = Places(e, q, o)
      BY <1>4, <2>1, <2>3, WritePlaces DEF E
    <2>. QED  BY <2>2, <2>4
  <1>6. \A e : Places(e, q, o) = IF e \in o THEN {0} ELSE {}
    BY DEF Places, At
  <1> HIDE DEF q
  <1>7. /\ Places(MakeRoom, deferred', out') = {}
        /\ Places(Step, deferred', out') = IF turn'.stage = "Starting" THEN {0} ELSE {}
    BY <1>3, <1>5, <1>6, Kinds
  <1>. QED  BY <1>1, <1>2, <1>7 DEF Looping, Stands, AtMostOne, Commanding

LEMMA LoopingRest ==
  Inv /\ Looping /\ (ProcessEnded \/ CancelOverdue \/ \E ok \in BOOLEAN : Discarded(ok))
    => Looping'
  <1> SUFFICES ASSUME Inv, Looping, ProcessEnded \/ CancelOverdue
                           \/ \E ok \in BOOLEAN : Discarded(ok)
               PROVE  Looping'
    OBVIOUS
  <1>0. PICK n \in Nat : Kept(n)  BY DEF Inv
  <1>1. deferred \in Seq(Deferred) /\ out \in SUBSET Effect /\ turn \in Turn
    BY <1>0 DEF Kept, Queue
  <1>2. CASE ProcessEnded
    <2>1. PICK b \in BOOLEAN : Ended(b, out)
      <3>1. (turn.stage = "Closing" /\ turn.answered) \in BOOLEAN  OBVIOUS
      <3>. QED  BY <1>2, <3>1 DEF ProcessEnded
    <2>2. Still(deferred, out) /\ pending # "Job"
      BY <1>2, TalkingIsStill DEF ProcessEnded
    <2>. QED  BY <1>0, <1>1, <2>1, <2>2, EndedLoops
  <1>3. CASE CancelOverdue
    <2>1. turn'.stage = turn.stage /\ UNCHANGED <<job, pending, deferred, out>>
      BY <1>1, <1>3 DEF CancelOverdue, Turn
    <2>. QED  BY <2>1 DEF Looping, Reading
  <1>4. ASSUME NEW ok \in BOOLEAN, Discarded(ok) PROVE Looping'
    <2>1. out' = out \ {Discard} /\ UNCHANGED <<job, turn, pending, deferred>>
      BY <1>4 DEF Discarded, memory
    <2>2. \A e \in Effect : e # Discard =>
             Places(e, deferred, out \ {Discard}) = Places(e, deferred, out)
      BY <1>1, TakenPlaces
    <2>3. /\ Places(Step, deferred', out') = Places(Step, deferred, out)
          /\ Places(MakeRoom, deferred', out') = Places(MakeRoom, deferred, out)
          /\ Reading(deferred, out) => Reading(deferred', out')
      BY <2>1, <2>2, Kinds, ReadsKind DEF Reading
    <2>. QED  BY <2>1, <2>3 DEF Looping, Stands
  <1>. QED  BY <1>2, <1>3, <1>4

----------------------------------------------------------------------------
(* What is held, seen and removed.                                         *)

\* A job that is over because nothing runs, or not begun, holds nothing.
Tidy(j) ==
  /\ Rooms(j)
  /\ j.progress \notin {"Working", "Lost"} => j.mail = <<>>

(* What an effect held back may count on: the record a reaction waits for  *)
(* holds the message, and so does every one written after it; what a       *)
(* container's removal waits for says the job is over, and so does every   *)
(* one after.                                                              *)
Promises(q, o, d) ==
  /\ Tidy(job)
  /\ \A k \in 0..Len(q) : Tidy(RecordAt(q, d, k))
  /\ \A m \in Message :
       /\ fate[m] = "Held" =>
            /\ m \in Held(job)
            /\ \A i \in Places(Seen(m), q, o) : \A k \in i..Len(q) :
                 m \in Held(RecordAt(q, d, k))
       /\ fate[m] = "Forgotten" => Places(Seen(m), q, o) = {}
       /\ Places(Seen(m), q, o) # {} => m <= said
  /\ job.progress \notin Over =>
       /\ Places(Discard, q, o) = {}
       /\ \A k \in 0..Len(q) : RecordAt(q, d, k).progress \notin Over
  /\ container /\ used.retires <= 1 =>
       \A i \in Places(Discard, q, o) : \A k \in i..Len(q) :
         RecordAt(q, d, k).progress \in Over
  /\ job.progress \in Over /\ used.retires = 0 => ~container
  /\ used.retires <= MaxRetires

Promising == Promises(deferred, out, disk)

Lasting == {e \in Effect : e.kind \in {"Seen", "Discard"}}

LEMMA LastingKinds ==
  /\ Discard \in Lasting /\ \A m \in Message : Seen(m) \in Lasting
  /\ \A e \in Lasting : e \in Effect /\ e.kind # "Steer"
  /\ Step \notin Lasting /\ MakeRoom \notin Lasting
  /\ \A e \in Reads : e \notin Lasting
  /\ \A m \in Message : Steer(m) \notin Lasting
  BY Kinds, ReadsKind, SpokenKind DEF Lasting, Reads

\* With fewer effects held back, and the records the same, nothing is owed
\* that was not.
LEMMA FewerPromises ==
  ASSUME NEW q \in Seq(Deferred), NEW o, NEW d, Promises(q, o, d),
         NEW p \in Seq(Deferred), Len(p) = Len(q), NEW u,
         \A e \in Lasting : Places(e, p, u) \subseteq Places(e, q, o),
         \A k \in 0..Len(q) : RecordAt(p, d, k) = RecordAt(q, d, k)
  PROVE  Promises(p, u, d)
  <1>1. Len(q) \in Nat /\ Places(Discard, p, u) \subseteq Places(Discard, q, o)
    BY LastingKinds
  <1>2. \A m \in Message : Places(Seen(m), p, u) \subseteq Places(Seen(m), q, o)
    BY LastingKinds
  <1>3. \A e, i, k : i \in Places(e, q, o) /\ k \in i..Len(q) => k \in 0..Len(q)
    BY <1>1 DEF Places
  <1>. QED  BY <1>1, <1>2, <1>3 DEF Promises

LEMMA TakenPromises ==
  ASSUME NEW q \in Seq(Deferred), NEW o, NEW d, Promises(q, o, d), NEW x
  PROVE  Promises(q, o \ {x}, d)
  <1>1. \A e \in Lasting : Places(e, q, o \ {x}) \subseteq Places(e, q, o)
    BY DEF Places, At
  <1>. QED  BY <1>1, FewerPromises

LEMMA UnspokenPromises ==
  ASSUME NEW q \in Seq(Deferred), NEW o, NEW d, Promises(q, o, d)
  PROVE  Promises(Unspoken(q), Unsteered(o), d)
  <1> DEFINE p == Unspoken(q)
             u == Unsteered(o)
  <1>1. /\ p \in Seq(Deferred) /\ Len(p) = Len(q)
        /\ \A e \in Effect : e.kind # "Steer" => Places(e, p, u) = Places(e, q, o)
        /\ \A k \in 0..Len(q) : RecordAt(p, d, k) = RecordAt(q, d, k)
    BY UnspokenPlaces
  <1> HIDE DEF p, u
  <1>2. \A e \in Lasting : Places(e, p, u) \subseteq Places(e, q, o)
    BY <1>1, LastingKinds
  <1>3. Promises(p, u, d)  BY <1>1, <1>2, FewerPromises
  <1>. QED  BY <1>3 DEF p, u

\* The oldest write landed: the record on the disk is its own, and what it
\* held back is owed the records after.
LEMMA LandedPromises ==
  ASSUME NEW q \in Seq(Deferred), q # <<>>, NEW o, NEW d, Promises(q, o, d)
  PROVE  Promises(Tail(q), o \union Head(q).effects, Head(q).snap)
  <1> DEFINE t == Tail(q)
             u == o \union Head(q).effects
             h == Head(q).snap
  <1>1. /\ t \in Seq(Deferred) /\ Len(q) \in Nat \ {0} /\ Len(t) = Len(q) - 1
        /\ \A e \in Effect, i \in 0..Len(t) :
              i \in Places(e, t, u) <=>
                i + 1 \in Places(e, q, o) \/ (i = 0 /\ 0 \in Places(e, q, o))
        /\ \A k \in 0..Len(t) : RecordAt(t, h, k) = RecordAt(q, d, k + 1)
    BY LandedPlaces
  <1> HIDE DEF t, u, h
  <1>2. /\ \A e : Places(e, t, u) \subseteq 0..Len(t)
        /\ \A k \in 0..Len(t) : k + 1 \in 0..Len(q)
    BY <1>1 DEF Places
  <1>3. ASSUME NEW e \in Effect, NEW K,
               \A i \in Places(e, q, o) : \A k \in i..Len(q) : k \in K
        PROVE  \A i \in Places(e, t, u) : \A k \in i..Len(t) : k + 1 \in K
    <2> SUFFICES ASSUME NEW i \in Places(e, t, u), NEW k \in i..Len(t)
                 PROVE  k + 1 \in K
      OBVIOUS
    <2>1. i \in 0..Len(t) /\ k \in 0..Len(t)  BY <1>1, <1>2
    <2>2. CASE i + 1 \in Places(e, q, o)
      <3>1. k + 1 \in (i + 1)..Len(q)  BY <1>1, <2>1
      <3>. QED  BY <1>3, <2>2, <3>1
    <2>3. CASE i = 0 /\ 0 \in Places(e, q, o)
      <3>1. k + 1 \in 0..Len(q)  BY <1>1, <2>1
      <3>. QED  BY <1>3, <2>3, <3>1
    <2>. QED  BY <1>1, <2>1, <2>2, <2>3
  <1>4. \A e \in Effect : Places(e, q, o) = {} => Places(e, t, u) = {}
    BY <1>1, <1>2
  <1>5. \A k \in 0..Len(t) : Tidy(RecordAt(t, h, k))
    BY <1>1, <1>2 DEF Promises
  <1>6. ASSUME NEW m \in Message
        PROVE  /\ fate[m] = "Held" =>
                    /\ m \in Held(job)
                    /\ \A i \in Places(Seen(m), t, u) : \A k \in i..Len(t) :
                         m \in Held(RecordAt(t, h, k))
               /\ fate[m] = "Forgotten" => Places(Seen(m), t, u) = {}
               /\ Places(Seen(m), t, u) # {} => m <= said
    <2>1. Seen(m) \in Effect  BY SpokenKind
    <2>2. CASE fate[m] = "Held"
      <3> DEFINE K == {k \in 0..Len(q) : m \in Held(RecordAt(q, d, k))}
      <3>1. \A i \in Places(Seen(m), q, o) : \A k \in i..Len(q) : k \in K
        BY <1>1, <2>2 DEF Promises, Places
      <3>2. \A k : k + 1 \in K => m \in Held(RecordAt(q, d, k + 1))  OBVIOUS
      <3> HIDE DEF K
      <3>3. \A i \in Places(Seen(m), t, u) : \A k \in i..Len(t) : k + 1 \in K
        BY <1>3, <2>1, <3>1
      <3>4. \A i \in Places(Seen(m), t, u) : \A k \in i..Len(t) :
              m \in Held(RecordAt(t, h, k))
        <4> TAKE i \in Places(Seen(m), t, u)
        <4> TAKE k \in i..Len(t)
        <4>1. k \in 0..Len(t) /\ k + 1 \in K  BY <1>1, <1>2, <2>1, <3>3
        <4>2. RecordAt(t, h, k) = RecordAt(q, d, k + 1)  BY <1>1, <4>1
        <4>. QED  BY <3>2, <4>1, <4>2
      <3>. QED  BY <1>4, <2>1, <2>2, <3>4 DEF Promises
    <2>3. CASE fate[m] # "Held"  BY <1>4, <2>1, <2>3 DEF Promises
    <2>. QED  BY <2>2, <2>3
  <1>7. job.progress \notin Over =>
          /\ Places(Discard, t, u) = {}
          /\ \A k \in 0..Len(t) : RecordAt(t, h, k).progress \notin Over
    BY <1>1, <1>2, <1>4, Kinds DEF Promises
  <1>8. container /\ used.retires <= 1 =>
          \A i \in Places(Discard, t, u) : \A k \in i..Len(t) :
            RecordAt(t, h, k).progress \in Over
    <2> DEFINE K == {k \in 0..Len(q) : RecordAt(q, d, k).progress \in Over}
    <2> HAVE container /\ used.retires <= 1
    <2>1. \A i \in Places(Discard, q, o) : \A k \in i..Len(q) : k \in K
      BY <1>1 DEF Promises, Places
    <2>2. \A k : k + 1 \in K => RecordAt(q, d, k + 1).progress \in Over  OBVIOUS
    <2> HIDE DEF K
    <2>3. \A i \in Places(Discard, t, u) : \A k \in i..Len(t) : k + 1 \in K
      BY <1>3, <2>1, Kinds
    <2> TAKE i \in Places(Discard, t, u)
    <2> TAKE k \in i..Len(t)
    <2>4. k \in 0..Len(t) /\ k + 1 \in K  BY <1>1, <1>2, <2>3, Kinds
    <2>5. RecordAt(t, h, k) = RecordAt(q, d, k + 1)  BY <1>1, <2>4
    <2>. QED  BY <2>2, <2>4, <2>5
  <1>9. Promises(t, u, h)
    BY <1>5, <1>6, <1>7, <1>8 DEF Promises
  <1>. QED  BY <1>9 DEF t, u, h

\* The oldest write failed: what it held back is dropped, and its record.
LEMMA DroppedPromises ==
  ASSUME NEW q \in Seq(Deferred), q # <<>>, NEW o, NEW d, Promises(q, o, d)
  PROVE  Promises(Tail(q), o, d)
  <1> DEFINE t == Tail(q)
             s(k) == IF k = 0 THEN 0 ELSE k + 1
  <1>1. /\ t \in Seq(Deferred) /\ Len(q) \in Nat \ {0} /\ Len(t) = Len(q) - 1
        /\ \A e \in Effect, i \in 1..Len(t) :
              i \in Places(e, t, o) <=> i + 1 \in Places(e, q, o)
        /\ \A e \in Effect : 0 \in Places(e, t, o) <=> 0 \in Places(e, q, o)
        /\ \A k \in 1..Len(t) : RecordAt(t, d, k) = RecordAt(q, d, k + 1)
    BY DroppedPlaces
  <1> HIDE DEF t
  <1>2. /\ \A e : Places(e, t, o) \subseteq 0..Len(t)
        /\ \A k \in 0..Len(t) : s(k) \in 0..Len(q)
    BY <1>1 DEF Places
  <1>3. \A k \in 0..Len(t) : RecordAt(t, d, k) = RecordAt(q, d, s(k))
    BY <1>1 DEF RecordAt
  <1>4. \A e \in Effect, i \in 0..Len(t) : i \in Places(e, t, o) => s(i) \in Places(e, q, o)
    BY <1>1
  <1>5. \A i \in 0..Len(t) : \A k \in i..Len(t) : k \in 0..Len(t) /\ s(k) \in s(i)..Len(q)
    BY <1>1
  <1> HIDE DEF s
  <1>6. \A k \in 0..Len(t) : Tidy(RecordAt(t, d, k))
    BY <1>2, <1>3 DEF Promises
  <1>7. ASSUME NEW m \in Message
        PROVE  /\ fate[m] = "Held" =>
                    /\ m \in Held(job)
                    /\ \A i \in Places(Seen(m), t, o) : \A k \in i..Len(t) :
                         m \in Held(RecordAt(t, d, k))
               /\ fate[m] = "Forgotten" => Places(Seen(m), t, o) = {}
               /\ Places(Seen(m), t, o) # {} => m <= said
    <2>1. Seen(m) \in Effect  BY SpokenKind
    <2>2. Places(Seen(m), q, o) = {} => Places(Seen(m), t, o) = {}
      BY <1>2, <1>4, <2>1
    <2>3. ASSUME fate[m] = "Held", NEW i \in Places(Seen(m), t, o), NEW k \in i..Len(t)
          PROVE  m \in Held(RecordAt(t, d, k))
      <3>1. i \in 0..Len(t) /\ s(i) \in Places(Seen(m), q, o)  BY <1>2, <1>4, <2>1
      <3>2. k \in 0..Len(t) /\ s(k) \in s(i)..Len(q)  BY <1>5, <3>1
      <3>3. m \in Held(RecordAt(q, d, s(k)))  BY <2>3, <3>1, <3>2 DEF Promises
      <3>. QED  BY <1>3, <3>2, <3>3
    <2>. QED  BY <2>2, <2>3 DEF Promises
  <1>8. job.progress \notin Over =>
          /\ Places(Discard, t, o) = {}
          /\ \A k \in 0..Len(t) : RecordAt(t, d, k).progress \notin Over
    BY <1>2, <1>3, <1>4, Kinds DEF Promises
  <1>9. ASSUME container, used.retires <= 1,
               NEW i \in Places(Discard, t, o), NEW k \in i..Len(t)
        PROVE  RecordAt(t, d, k).progress \in Over
    <2>1. i \in 0..Len(t) /\ s(i) \in Places(Discard, q, o)  BY <1>2, <1>4, Kinds
    <2>2. k \in 0..Len(t) /\ s(k) \in s(i)..Len(q)  BY <1>5, <2>1
    <2>3. RecordAt(q, d, s(k)).progress \in Over  BY <1>9, <2>1, <2>2 DEF Promises
    <2>. QED  BY <1>3, <2>2, <2>3
  <1>10. Promises(t, o, d)
    BY <1>6, <1>7, <1>8, <1>9 DEF Promises
  <1>. QED  BY <1>10 DEF t

\* A step that writes what it changed keeps every promise, if a message still
\* held is in the new record and a job is over in it only when it was.
LEMMA WritePromises ==
  ASSUME NEW q \in Seq(Deferred), NEW o, Promises(q, o, disk),
         NEW E \in SUBSET Effect, E \intersect Lasting = {}, Write(q, o, E),
         job' \in Record, Tidy(job'), UNCHANGED <<disk, said>>,
         used'.retires = used.retires,
         container' => container \/ job.progress \notin Over,
         job'.progress \in Over <=> job.progress \in Over,
         \A m \in Message :
           /\ fate'[m] = "Held" => fate[m] = "Held" /\ m \in Held(job')
           /\ fate'[m] = "Forgotten" => fate[m] = "Forgotten"
  PROVE  Promising'
  <1>1. /\ Len(deferred') = Len(q) + 1 /\ Len(q) \in Nat
        /\ \A e \in Effect \ E : Places(e, deferred', out') = Places(e, q, o)
        /\ \A k \in 0..Len(q) : RecordAt(deferred', disk', k) = RecordAt(q, disk, k)
        /\ RecordAt(deferred', disk', Len(q) + 1) = job'
    BY WritePlaces
  <1>2. \A e \in Lasting : Places(e, deferred', out') = Places(e, q, o)
    BY <1>1 DEF Lasting
  <1>3. \A e : Places(e, q, o) \subseteq 0..Len(q)  BY DEF Places
  <1>4. \A k \in 0..(Len(q) + 1) : k \in 0..Len(q) \/ k = Len(q) + 1  BY <1>1
  <1>5. \A k \in 0..Len(deferred') : Tidy(RecordAt(deferred', disk', k))
    BY <1>1, <1>4 DEF Promises
  <1>6. ASSUME NEW m \in Message
        PROVE  /\ fate'[m] = "Held" =>
                    /\ m \in Held(job')
                    /\ \A i \in Places(Seen(m), deferred', out') : \A k \in i..Len(deferred') :
                         m \in Held(RecordAt(deferred', disk', k))
               /\ fate'[m] = "Forgotten" => Places(Seen(m), deferred', out') = {}
               /\ Places(Seen(m), deferred', out') # {} => m <= said'
    <2>1. Places(Seen(m), deferred', out') = Places(Seen(m), q, o)
      BY <1>2, LastingKinds
    <2>2. ASSUME fate'[m] = "Held", NEW i \in Places(Seen(m), q, o),
                 NEW k \in i..(Len(q) + 1)
          PROVE  m \in Held(RecordAt(deferred', disk', k))
      <3>1. i \in 0..Len(q)  BY <1>3
      <3>2. CASE k = Len(q) + 1  BY <1>1, <2>2, <3>2
      <3>3. CASE k \in i..Len(q)
        <4>1. m \in Held(RecordAt(q, disk, k))  BY <2>2, <3>3 DEF Promises
        <4>. QED  BY <1>1, <3>1, <3>3, <4>1
      <3>. QED  BY <1>1, <3>1, <3>2, <3>3
    <2>. QED  BY <1>1, <2>1, <2>2 DEF Promises
  <1>7. job'.progress \notin Over =>
          /\ Places(Discard, deferred', out') = {}
          /\ \A k \in 0..Len(deferred') : RecordAt(deferred', disk', k).progress \notin Over
    BY <1>1, <1>2, <1>4, LastingKinds DEF Promises
  <1>8. ASSUME container', used'.retires <= 1,
               NEW i \in Places(Discard, deferred', out'), NEW k \in i..Len(deferred')
        PROVE  RecordAt(deferred', disk', k).progress \in Over
    <2>1. i \in Places(Discard, q, o) /\ i \in 0..Len(q)
      BY <1>2, <1>3, LastingKinds
    <2>2. job.progress \in Over  BY <2>1 DEF Promises
    <2>3. CASE k = Len(q) + 1  BY <1>1, <2>2, <2>3
    <2>4. CASE k \in i..Len(q)
      <3>1. RecordAt(q, disk, k).progress \in Over
        BY <1>8, <2>1, <2>2, <2>4 DEF Promises
      <3>. QED  BY <1>1, <2>1, <2>4, <3>1
    <2>. QED  BY <1>1, <2>1, <2>3, <2>4
  <1>9. /\ job'.progress \in Over /\ used'.retires = 0 => ~container'
        /\ used'.retires <= MaxRetires
    BY DEF Promises
  <1>. QED  BY <1>5, <1>6, <1>7, <1>8, <1>9 DEF Promising, Promises

\* A step that changes no record, and asks for nothing more that lasts.
LEMMA SamePromises ==
  ASSUME deferred \in Seq(Deferred), deferred' \in Seq(Deferred),
         Promising, Len(deferred') = Len(deferred),
         \A k \in 0..Len(deferred) :
           RecordAt(deferred', disk, k) = RecordAt(deferred, disk, k),
         \A e \in Lasting : Places(e, deferred', out') \subseteq Places(e, deferred, out),
         UNCHANGED <<job, disk, said, fate>>, used'.retires = used.retires,
         container' => container \/ job.progress \notin Over
  PROVE  Promising'
  <1>1. Promises(deferred', out', disk)
    BY FewerPromises DEF Promising
  <1>. QED  BY <1>1 DEF Promising, Promises

----------------------------------------------------------------------------
(* Who holds which message. *)

LEMMA HeldSame ==
  ASSUME NEW j \in Record
  PROVE  /\ Held(Give(j)) = Held(j) /\ Held(HandBack(j)) = Held(j)
         /\ InHand(j) \subseteq {j.mail[i] : i \in 1..j.given}
         /\ \A p : Held([j EXCEPT !.progress = p]) = Held(j)
         /\ \A p : [j EXCEPT !.progress = p].mail = j.mail
         /\ Give(j).mail = j.mail /\ Give(j).room = j.room
  BY DEF Held, InHand, Give, HandBack, Record

LEMMA HeldDrained ==
  ASSUME NEW j \in Record
  PROVE  Drain(j).mail = <<>> /\ Drain(j).room = j.room /\ Held(Drain(j)) = {}
  <1>1. Drain(j).mail = <<>> /\ Drain(j).room = j.room  BY DEF Drain, Record
  <1>2. Len(<<>>) = 0  OBVIOUS
  <1>3. 1..0 = {}  OBVIOUS
  <1>. QED  BY <1>1, <1>2, <1>3 DEF Held

LEMMA HeldReceived ==
  ASSUME NEW j \in Record, NEW m \in Message
  PROVE  Held(Receive(j, m)) = Held(j) \union {m}
  <1>1. j.mail \in Seq(Message) /\ Len(j.mail) \in Nat  BY DEF Record
  <1>2. Receive(j, m).mail = Append(j.mail, m)  BY DEF Receive, Record
  <1> DEFINE a == Append(j.mail, m)
  <1>3. /\ Len(a) = Len(j.mail) + 1
        /\ \A i \in 1..Len(j.mail) : a[i] = j.mail[i]
        /\ a[Len(j.mail) + 1] = m
    BY <1>1
  <1>4. Held(Receive(j, m)) = {a[i] : i \in 1..Len(a)}
    BY <1>2 DEF Held
  <1> HIDE DEF a
  <1>5. 1..Len(a) = (1..Len(j.mail)) \union {Len(j.mail) + 1}
    BY <1>1, <1>3
  <1>6. Held(Receive(j, m)) \subseteq Held(j) \union {m}
    BY <1>3, <1>4, <1>5 DEF Held
  <1>7. m \in Held(Receive(j, m))  BY <1>1, <1>3, <1>4
  <1>8. ASSUME NEW i \in 1..Len(j.mail) PROVE j.mail[i] \in Held(Receive(j, m))
    <2>1. i \in 1..Len(a) /\ a[i] = j.mail[i]  BY <1>3, <1>5
    <2>. QED  BY <1>4, <2>1
  <1>. QED  BY <1>6, <1>7, <1>8 DEF Held

\* What a turn was given is finished with, and the rest is what is left.
LEMMA HeldFinished ==
  ASSUME NEW n \in Nat, NEW j, InOrder(j, n)
  PROVE  /\ Held(j) \subseteq InHand(j) \union Held(Finish(j))
         /\ Finish(j).room = j.room
         /\ j.mail = <<>> => Finish(j).mail = <<>>
  <1>1. /\ j.mail \in Seq(Message) /\ j.given \in Nat /\ Len(j.mail) \in Nat
        /\ j.given <= Len(j.mail) /\ j \in Record
    BY DEF InOrder, Record
  <1> DEFINE m == SubSeq(j.mail, j.given + 1, Len(j.mail))
  <1>2. Finish(j).mail = m /\ Finish(j).room = j.room
    BY <1>1 DEF Finish, Record
  <1>3. /\ m \in Seq(Message)
        /\ Len(m) = Len(j.mail) - j.given
        /\ \A i \in 1..(Len(j.mail) - j.given) : m[i] = j.mail[i + j.given]
    BY SMTT(30), <1>1
  <1> HIDE DEF m
  <1>4. ASSUME NEW i \in 1..Len(j.mail), i \notin 1..j.given
        PROVE  j.mail[i] \in Held(Finish(j))
    <2>1. i - j.given \in 1..Len(m) /\ (i - j.given) + j.given = i
      BY <1>1, <1>3, <1>4
    <2>2. m[i - j.given] = j.mail[i]  BY <1>3, <2>1
    <2>. QED  BY <1>2, <2>1, <2>2 DEF Held
  <1>5. Held(j) \subseteq InHand(j) \union Held(Finish(j))
    BY <1>4 DEF Held, InHand
  <1>6. j.mail = <<>> => m = <<>>
    BY <1>1, <1>3, EmptySeq
  <1>. QED  BY <1>2, <1>5, <1>6

\* With nothing next after what was given is finished with, nothing is left.
LEMMA NothingNext ==
  ASSUME NEW n \in Nat, NEW j, InOrder(j, n), NEW p \in Progress,
         ~HasNext([Finish(j) EXCEPT !.progress = p])
  PROVE  [Finish(j) EXCEPT !.progress = p].mail = <<>>
  <1> DEFINE f == Finish(j)
             l == [f EXCEPT !.progress = p]
  <1>1. InOrder(f, n) /\ f.given = 0
    <2>1. InOrder(f, n)  BY FinishInOrder, Zenon
    <2>2. f.given = 0  BY DEF Finish, InOrder, Record
    <2>. QED  BY <2>1, <2>2
  <1> HIDE DEF f
  <1>2. l.mail = f.mail /\ l.given = 0 /\ f.mail \in Seq(Message) /\ Len(f.mail) \in Nat
    BY <1>1 DEF InOrder, Record
  <1>3. Len(f.mail) = 0  BY <1>2 DEF HasNext, f
  <1>4. f.mail = <<>>  BY <1>2, <1>3, EmptySeq
  <1>. QED  BY <1>2, <1>4 DEF f

----------------------------------------------------------------------------
(* What ends a step keeps what is owed. *)

LEMMA WorkingIsTidy ==
  ASSUME NEW j \in Record, j.progress = "Working", j.room \/ j.mail = <<>>
  PROVE  Tidy(j)
  BY DEF Tidy, Rooms

\* What a turn begun, or a message handed over, adds to what is held back is
\* nothing that lasts.
Adds(q, o, e) ==
  \E F \in SUBSET Effect :
    e \subseteq F /\ F \intersect Lasting = e \intersect Lasting /\ Write(q, o, F)

LEMMA StartGivenWrites ==
  ASSUME NEW n \in Nat, NEW j, InOrder(j, n), j.given > 0, NEW q, NEW o,
         NEW e \in SUBSET Effect, StartGiven(j, q, o, e)
  PROVE  job' = j /\ Adds(q, o, e)
  <1>1. LastGiven(j) \in Message  BY GivenIsMessage
  <1>2. job' = j  BY DEF StartGiven
  <1>3. PICK x \in {Step, Start(LastGiven(j))} : Write(q, o, e \union {x})
    BY DEF StartGiven
  <1>4. /\ e \union {x} \in SUBSET Effect
        /\ (e \union {x}) \intersect Lasting = e \intersect Lasting
        /\ e \subseteq e \union {x}
    BY <1>1, Kinds, ReadsKind, LastingKinds
  <1>. QED  BY <1>2, <1>3, <1>4 DEF Adds

LEMMA DeliverWrites ==
  ASSUME NEW n \in Nat, NEW j, InOrder(j, n), HasNext(j), NEW t, NEW o,
         NEW e \in SUBSET Effect, Deliver(j, t, o, e)
  PROVE  job' = Give(j) /\ Adds(deferred, o, e)
  <1> DEFINE m == j.mail[j.given + 1]
  <1>1. m \in Message  BY GivenIsMessage
  <1>2. job' = Give(j)  BY DEF Deliver
  <1>3. PICK x \in {Hand(m), Steer(m)} : Write(deferred, o, e \union {x})
    BY DEF Deliver
  <1> HIDE DEF m
  <1>4. /\ e \union {x} \in SUBSET Effect
        /\ (e \union {x}) \intersect Lasting = e \intersect Lasting
        /\ e \subseteq e \union {x}
    BY <1>1, ReadsKind, SpokenKind, LastingKinds
  <1>. QED  BY <1>2, <1>3, <1>4 DEF Adds

LEMMA EndedPromises ==
  ASSUME NEW n \in Nat, Kept(n), Promising, job.progress = "Working",
         NEW b \in BOOLEAN, NEW o \in SUBSET Effect, o \subseteq out, Ended(b, o),
         UNCHANGED <<disk, said>>, used'.retires = used.retires,
         container' => container \/ job.progress \notin Over,
         Promises(deferred, o, disk)
  PROVE  Promising'
  <1> DEFINE back == IF turn.delivery = "InFlight" THEN HandBack(job) ELSE job
             done == Finish(back)
             left == [done EXCEPT !.progress = Outcome(turn, b)]
             q    == Unspoken(deferred)
             u    == Unsteered(o)
  <1>1. /\ InOrder(job, n) /\ job \in Record /\ turn \in Turn
        /\ deferred \in Seq(Deferred)
    BY DEF Kept, Queue, InOrder
  <1>2. InOrder(back, n) /\ Held(back) = Held(job) /\ back.mail = job.mail
        /\ back.room = job.room
    BY <1>1, HandBackInOrder, HandBackSame, HeldSame
  <1>3. Outcome(turn, b) \in Progress /\ Outcome(turn, b) \in Idle
    BY <1>1, OutcomeTyped, OutcomeIdle
  <1> HIDE DEF back
  <1>4. InOrder(done, n) /\ done \in Record /\ done.room = job.room
        /\ Held(job) \subseteq InHand(back) \union Held(done)
        /\ (job.mail = <<>> => done.mail = <<>>)
    BY <1>2, FinishInOrder, HeldFinished DEF InOrder
  <1>5. ~HasNext(left) => left.mail = <<>>
    BY <1>2, <1>3, NothingNext
  <1> HIDE DEF done
  <1>6. InOrder(left, n) /\ left \in Record /\ left.room = job.room
        /\ left.progress \in Idle
        /\ Held(left) = Held(done) /\ left.mail = done.mail
    <2>1. InOrder(left, n)  BY <1>3, <1>4, ProgressInOrder
    <2>2. left.room = job.room /\ left.mail = done.mail /\ left.given = done.given
          /\ left.progress = Outcome(turn, b)
      BY <1>4 DEF Record
    <2>3. left \in Record  BY <2>1 DEF InOrder
    <2>4. Held(left) = Held(done)  BY <1>4, <2>2, <2>3, HeldSame
    <2>. QED  BY <1>3, <2>1, <2>2, <2>3, <2>4
  <1>7. q \in Seq(Deferred) /\ Promises(q, u, disk)
    BY <1>1, UnspokenPlaces, UnspokenPromises
  <1>8. Tidy(job) /\ \A m \in Message : fate[m] = "Held" => m \in Held(job)
    BY DEF Promising, Promises
  <1>9. job.progress \notin Over  BY DEF Over
  <1>10. CASE turn.stopping
    <2>1. /\ job' = Drain(left) /\ Write(q, u, {})
          /\ fate' = [m \in Message |->
                        IF m \in InHand(back) THEN "Finished"
                        ELSE IF m \in Held(left) THEN "Told" ELSE fate[m]]
      BY <1>10 DEF Ended, back, done
    <2> HIDE DEF left, q, u
    <2>2. InOrder(Drain(left), n)  BY <1>6, DrainInOrder
    <2>3. /\ job' \in Record /\ job'.mail = <<>> /\ job'.room = job.room
          /\ job'.progress \in Idle
      BY <1>6, <2>1, <2>2, HeldDrained DEF Drain, InOrder, Record
    <2>4. Tidy(job') /\ job'.progress \notin Over
      BY <2>3 DEF Tidy, Rooms, Idle, Over
    <2>5. \A m \in Message :
            /\ fate'[m] = "Held" => FALSE
            /\ fate'[m] = "Forgotten" => fate[m] = "Forgotten"
      BY <1>4, <1>6, <1>8, <2>1
    <2>. QED  BY <1>7, <1>9, <2>1, <2>3, <2>4, <2>5, WritePromises
  <1>11. CASE ~turn.stopping /\ ~HasNext(left)
    <2>1. /\ job' = left /\ Write(q, u, {})
          /\ fate' = Becomes(InHand(back), "Finished")
      BY <1>11 DEF Ended, back, done
    <2>2. left.mail = <<>> /\ Held(left) = {}
      <3>1. left.mail = <<>>  BY <1>5, <1>11
      <3>2. Len(<<>>) = 0 /\ 1..0 = {}  OBVIOUS
      <3>. QED  BY <3>1, <3>2 DEF Held
    <2> HIDE DEF left, q, u
    <2>3. Tidy(job') /\ job'.progress \notin Over /\ job' \in Record
      BY <1>6, <2>1, <2>2 DEF Tidy, Rooms, Idle, Over
    <2>4. \A m \in Message :
            /\ fate'[m] = "Held" => FALSE
            /\ fate'[m] = "Forgotten" => fate[m] = "Forgotten"
      BY <1>4, <1>6, <1>8, <2>1, <2>2 DEF Becomes
    <2>. QED  BY <1>7, <1>9, <2>1, <2>3, <2>4, WritePromises
  <1>12. CASE ~turn.stopping /\ HasNext(left)
    <2> DEFINE next == [Give(left) EXCEPT !.progress = "Working"]
    <2>1. /\ fate' = Becomes(InHand(back), "Finished")
          /\ StartGiven(next, q, u, {})
      BY <1>12 DEF Ended, back, done
    <2> HIDE DEF left, q, u
    <2>2. InOrder(Give(left), n) /\ Give(left).given > 0 /\ Give(left) \in Record
      BY <1>6, <1>12, GiveInOrder DEF Give, InOrder, Record
    <2>3. /\ InOrder(next, n) /\ next.progress = "Working" /\ next.given > 0
          /\ next \in Record
      BY <2>2, ProgressInOrder DEF Progress, InOrder, Record
    <2>4. /\ Held(next) = Held(done) /\ next.room = job.room /\ next.mail = done.mail
      BY <1>6, <2>2, HeldSame DEF Record
    <2> HIDE DEF next
    <2> DEFINE E == {}
    <2>5. StartGiven(next, q, u, E)  BY <2>1
    <2> HIDE DEF E
    <2>6. E \in SUBSET Effect /\ E \intersect Lasting = {}  BY DEF E
    <2>7. job' = next /\ Adds(q, u, E)  BY <2>3, <2>5, <2>6, StartGivenWrites
    <2>8. PICK F \in SUBSET Effect : F \intersect Lasting = {} /\ Write(q, u, F)
      BY <2>6, <2>7 DEF Adds
    <2>9. job.room \/ job.mail = <<>>  BY <1>8 DEF Tidy, Rooms
    <2>10. Tidy(job') /\ job'.progress \notin Over
      BY <1>4, <2>3, <2>4, <2>7, <2>9, WorkingIsTidy DEF Over
    <2>11. \A m \in Message :
            /\ fate'[m] = "Held" => fate[m] = "Held" /\ m \in Held(job')
            /\ fate'[m] = "Forgotten" => fate[m] = "Forgotten"
      BY <1>4, <1>8, <2>1, <2>4, <2>7 DEF Becomes
    <2>. QED  BY <1>7, <1>9, <2>3, <2>7, <2>8, <2>10, <2>11, WritePromises
  <1>. QED  BY <1>10, <1>11, <1>12

LEMMA HandedOnPromises ==
  ASSUME NEW n \in Nat, Kept(n), job.progress = "Working", Promising,
         NEW t, NEW o, Promises(deferred, o, disk), HandedOn(t, o),
         \A e \in Lasting : Places(e, deferred, o) \subseteq Places(e, deferred, out),
         UNCHANGED <<disk, said, fate, container>>, used'.retires = used.retires
  PROVE  Promising'
  <1>0. InOrder(job, n) /\ deferred \in Seq(Deferred) /\ job \in Record
    BY DEF Kept, Queue, InOrder
  <1>1. CASE Deliverable(job, t)
    <2> DEFINE E == {}
    <2>1. HasNext(job) /\ Deliver(job, t, o, E)
      BY <1>1 DEF HandedOn, Deliverable
    <2> HIDE DEF E
    <2>2. E \in SUBSET Effect /\ E \intersect Lasting = {}  BY DEF E
    <2>3. job' = Give(job) /\ Adds(deferred, o, E)
      BY <1>0, <2>1, <2>2, DeliverWrites
    <2>4. PICK F \in SUBSET Effect : F \intersect Lasting = {} /\ Write(deferred, o, F)
      BY <2>2, <2>3 DEF Adds
    <2>5. job' \in Record /\ Held(job') = Held(job) /\ job'.mail = job.mail
          /\ job'.room = job.room /\ job'.progress = job.progress
      BY <1>0, <2>1, <2>3, GiveInOrder, HeldSame DEF InOrder, Give, Record
    <2>6. Tidy(job') /\ job'.progress \notin Over /\ job.progress \notin Over
      BY <2>5 DEF Promising, Promises, Tidy, Rooms, Over
    <2>7. \A k \in Message : fate[k] = "Held" => k \in Held(job)
      BY DEF Promising, Promises
    <2>. QED  BY <1>0, <2>4, <2>5, <2>6, <2>7, WritePromises
  <1>2. CASE ~Deliverable(job, t)
    <2>1. out' = o /\ UNCHANGED <<job, deferred>>
      BY <1>2 DEF HandedOn
    <2>. QED  BY <1>0, <2>1, SamePromises
  <1>. QED  BY <1>1, <1>2

\* A message being handed over waits again: the record is written with it.
LEMMA HandedBackPromises ==
  ASSUME NEW n \in Nat, Kept(n), Promising,
         NEW q \in Seq(Deferred), NEW o, Promises(q, o, disk),
         job' = HandBack(job), Write(q, o, {}),
         UNCHANGED <<disk, said, fate, container>>, used'.retires = used.retires
  PROVE  Promising'
  <1>0. InOrder(job, n) /\ job \in Record  BY DEF Kept, InOrder
  <1>1. job' \in Record /\ Held(job') = Held(job) /\ job'.mail = job.mail
        /\ job'.room = job.room /\ job'.progress = job.progress
    BY <1>0, HandBackInOrder, HandBackSame, HeldSame DEF InOrder
  <1>2. Tidy(job')  BY <1>1 DEF Promising, Promises, Tidy, Rooms
  <1>3. \A k \in Message : fate[k] = "Held" => k \in Held(job)
    BY DEF Promising, Promises
  <1>. QED  BY <1>1, <1>2, <1>3, WritePromises

LEMMA AbandonedPromises ==
  ASSUME NEW n \in Nat, Kept(n), Promising, job.progress = "Working",
         NEW q \in Seq(Deferred), NEW o, Promises(q, o, disk), Abandoned(q, o),
         UNCHANGED <<disk, said, container>>, used'.retires = used.retires
  PROVE  Promising'
  <1>0. InOrder(job, n) /\ job \in Record  BY DEF Kept, InOrder
  <1>1. /\ job' = [Drain(job) EXCEPT !.progress = "Failed"]
        /\ fate' = Becomes(Held(job), "Told") /\ Write(q, o, {})
    BY DEF Abandoned
  <1>2. InOrder(Drain(job), n) /\ Drain(job) \in Record
    BY <1>0, DrainInOrder DEF InOrder
  <1>3. job' \in Record /\ job'.mail = <<>> /\ job'.room = job.room
        /\ job'.progress = "Failed"
    BY <1>0, <1>1, <1>2, HeldDrained DEF Record, Progress, Idle
  <1>4. Tidy(job') /\ job'.progress \notin Over /\ job.progress \notin Over
    BY <1>3 DEF Tidy, Rooms, Over
  <1>5. \A m \in Message :
          /\ fate'[m] = "Held" => FALSE
          /\ fate'[m] = "Forgotten" => fate[m] = "Forgotten"
    BY <1>1 DEF Becomes, Promising, Promises
  <1>. QED  BY <1>1, <1>3, <1>4, <1>5, WritePromises

LEMMA RoomlessPromises ==
  ASSUME job \in Record, Promising, job.progress = "Working", ~job.room,
         NEW q \in Seq(Deferred), NEW o, Promises(q, o, disk), Roomless(q, o),
         UNCHANGED <<disk, said, container>>, used'.retires = used.retires
  PROVE  Promising'
  <1>1. /\ job' = [job EXCEPT !.progress = "Failed"] /\ Write(q, o, {})
        /\ fate' = fate
    BY DEF Roomless
  <1>2. job' \in Record /\ Held(job') = Held(job) /\ job'.mail = job.mail
        /\ job'.room = job.room /\ job'.progress = "Failed"
    BY <1>1, HeldSame DEF Record, Progress, Idle
  <1>3. Tidy(job') /\ job'.progress \notin Over /\ job.progress \notin Over
    BY <1>2 DEF Promising, Promises, Tidy, Rooms, Over
  <1>4. \A k \in Message : fate[k] = "Held" => k \in Held(job)
    BY DEF Promising, Promises
  <1>. QED  BY <1>1, <1>2, <1>3, <1>4, WritePromises

\* A message that was not given, and is recorded as received.
LEMMA ReceivedPromises ==
  ASSUME NEW n \in Nat, n = said, Kept(n), Promising, n + 1 \in Message,
         fate \in [Message -> Fates], fate' = Becomes({n + 1}, "Held"),
         job' \in Record, job.room, job'.room = job.room, job'.progress = "Working",
         job.progress \notin Over, Held(job') = Held(job) \union {n + 1},
         NEW E \in SUBSET Effect, Seen(n + 1) \in E,
         E \intersect Lasting = {Seen(n + 1)}, Write(deferred, out, E),
         said' = n + 1, UNCHANGED <<disk, container>>, used'.retires = used.retires
  PROVE  Promising'
  <1>0. deferred \in Seq(Deferred)  BY DEF Kept, Queue
  <1>1. /\ Len(deferred') = Len(deferred) + 1 /\ Len(deferred) \in Nat
        /\ \A e \in Effect \ E : Places(e, deferred', out') = Places(e, deferred, out)
        /\ \A e \in E : Places(e, deferred', out')
                          = Places(e, deferred, out) \union {Len(deferred) + 1}
        /\ \A k \in 0..Len(deferred) :
             RecordAt(deferred', disk', k) = RecordAt(deferred, disk, k)
        /\ RecordAt(deferred', disk', Len(deferred) + 1) = job'
    BY <1>0, WritePlaces
  <1>2. \A k \in 0..Len(deferred') : k \in 0..Len(deferred) \/ k = Len(deferred) + 1
    BY <1>1
  <1>3. Tidy(job')  BY WorkingIsTidy
  <1>4. \A k \in 0..Len(deferred') : Tidy(RecordAt(deferred', disk', k))
    BY <1>1, <1>2, <1>3 DEF Promising, Promises
  <1>5. Places(Seen(n + 1), deferred, out) = {}
    <2>1. ~(n + 1 <= n)  OBVIOUS
    <2>. QED  BY <2>1 DEF Promising, Promises
  <1>6. Places(Seen(n + 1), deferred', out') = {Len(deferred) + 1}
    BY <1>1, <1>5
  <1>7. ASSUME NEW m \in Message, m # n + 1
        PROVE  /\ fate'[m] = fate[m] /\ (m \in Held(job) => m \in Held(job'))
               /\ Places(Seen(m), deferred', out') = Places(Seen(m), deferred, out)
    <2>1. Seen(m) \in Lasting /\ Seen(m) # Seen(n + 1) /\ Seen(m) \in Effect
      BY <1>7, LastingKinds, SpokenKind
    <2>2. Seen(m) \in Effect \ E  BY <2>1
    <2>. QED  BY <1>1, <1>7, <2>2 DEF Becomes
  <1>8. ASSUME NEW m \in Message
        PROVE  /\ fate'[m] = "Held" =>
                    /\ m \in Held(job')
                    /\ \A i \in Places(Seen(m), deferred', out') : \A k \in i..Len(deferred') :
                         m \in Held(RecordAt(deferred', disk', k))
               /\ fate'[m] = "Forgotten" => Places(Seen(m), deferred', out') = {}
               /\ Places(Seen(m), deferred', out') # {} => m <= said'
    <2>1. CASE m = n + 1
      <3>1. fate'[m] = "Held"  BY <2>1 DEF Becomes
      <3>2. m \in Held(job')  BY <2>1
      <3>3. \A i \in Places(Seen(m), deferred', out') : \A k \in i..Len(deferred') :
              k = Len(deferred) + 1
        BY <1>1, <1>6, <2>1
      <3>. QED  BY <1>1, <2>1, <3>1, <3>2, <3>3
    <2>2. CASE m # n + 1
      <3>1. ASSUME fate[m] = "Held", NEW i \in Places(Seen(m), deferred, out),
                   NEW k \in i..(Len(deferred) + 1)
            PROVE  m \in Held(RecordAt(deferred', disk', k))
        <4>1. i \in 0..Len(deferred)  BY DEF Places
        <4>2. CASE k = Len(deferred) + 1
          BY <1>1, <1>7, <2>2, <3>1, <4>2 DEF Promising, Promises
        <4>3. CASE k \in i..Len(deferred)
          <5>1. m \in Held(RecordAt(deferred, disk, k))
            BY <3>1, <4>3 DEF Promising, Promises
          <5>. QED  BY <1>1, <4>1, <4>3, <5>1
        <4>. QED  BY <1>1, <4>1, <4>2, <4>3
      <3>2. m <= n => m <= n + 1  BY DEF Message
      <3>3. /\ fate[m] = "Held" => m \in Held(job)
            /\ fate[m] = "Forgotten" => Places(Seen(m), deferred, out) = {}
            /\ Places(Seen(m), deferred, out) # {} => m <= n
        BY DEF Promising, Promises
      <3>. QED  BY <1>1, <1>7, <2>2, <3>1, <3>2, <3>3
    <2>. QED  BY <2>1, <2>2
  <1>9. Discard \in Effect \ E  BY Kinds, LastingKinds, SpokenKind
  <1>10. /\ job'.progress \notin Over
         /\ Places(Discard, deferred', out') = {}
         /\ \A k \in 0..Len(deferred') : RecordAt(deferred', disk', k).progress \notin Over
    BY <1>1, <1>2, <1>9 DEF Promising, Promises, Over
  <1>. QED  BY <1>3, <1>4, <1>8, <1>10 DEF Promising, Promises

----------------------------------------------------------------------------
(* What is owed, action by action. *)

Kempt == Inv /\ Looping /\ Promising

LEMMA PromisingPersons == Kempt /\ Person => Promising'
  <1> SUFFICES ASSUME Kempt, Person PROVE Promising'
    OBVIOUS
  <1>0. PICK n \in Nat : n = said  BY DEF Kempt, Inv
  <1>1. /\ Kept(n) /\ InOrder(job, n) /\ job \in Record /\ turn \in Turn
        /\ deferred \in Seq(Deferred) /\ out \in SUBSET Effect /\ Len(deferred) \in Nat
        /\ fate \in [Message -> Fates]
        /\ Looping /\ Promising /\ Promises(deferred, out, disk)
        /\ used.retires \in Nat /\ MaxRetires \in Nat
        /\ used \in [stops : Nat, retires : Nat, failures : Nat, crashes : Nat]
    BY <1>0, JobAssumption DEF Kempt, Inv, Kept, Queue, InOrder, Promising
  <1>2. \A m \in Message : fate[m] = "Held" => m \in Held(job)
    BY <1>1 DEF Promising, Promises
  <1>3. Tidy(job)  BY <1>1 DEF Promising, Promises
  <1>4. CASE Begin
    <2>1. /\ job' = [job EXCEPT !.progress = "Working"] /\ job.progress = "Unbegun"
          /\ Write(deferred, out, {MakeRoom}) /\ UNCHANGED <<fate, world>>
      BY <1>4 DEF Begin
    <2>2. job' \in Record /\ Held(job') = Held(job) /\ job'.mail = job.mail
          /\ job'.room = job.room /\ job'.progress = "Working"
      BY <1>1, <2>1, HeldSame DEF Record, Progress
    <2>3. Tidy(job')  BY <1>3, <2>1, <2>2, WorkingIsTidy DEF Tidy, Rooms
    <2>4. job'.progress \notin Over /\ job.progress \notin Over
      BY <2>1, <2>2 DEF Over
    <2>5. {MakeRoom} \in SUBSET Effect /\ {MakeRoom} \intersect Lasting = {}
      BY Kinds, LastingKinds
    <2>. QED  BY <1>1, <1>2, <2>1, <2>2, <2>3, <2>4, <2>5, WritePromises DEF world
  <1>5. CASE Say
    <2> DEFINE m == said + 1
    <2>1. m = n + 1 /\ m \in Message /\ job.room /\ said' = n + 1
      BY <1>0, <1>5 DEF Say
    <2>2. UNCHANGED <<disk, container, used>>  BY <1>5 DEF Say
    <2>3. /\ Held(Receive(job, m)) = Held(job) \union {m}
          /\ InOrder(Receive(job, m), n + 1) /\ Receive(job, m) \in Record
      BY <1>1, <2>1, HeldReceived, ReceiveInOrder DEF InOrder
    <2>4. /\ Receive(job, m).progress = job.progress
          /\ Receive(job, m).room = job.room
          /\ Receive(job, m).given = job.given
      BY <1>1 DEF Receive, Record
    <2> DEFINE E == {Seen(m)}
    <2>5. E \in SUBSET Effect /\ E \intersect Lasting = {Seen(n + 1)} /\ Seen(n + 1) \in E
      BY <2>1, SpokenKind, LastingKinds
    <2>6. n + 1 \in Nat  OBVIOUS
    <2>7. CASE job.progress = "Working" /\ Deliverable(Receive(job, m), turn)
      <3>1. /\ Deliver(Receive(job, m), turn, out, E)
            /\ HasNext(Receive(job, m)) /\ fate' = Becomes({m}, "Held")
        BY <1>5, <2>7 DEF Say, Deliverable, Idle, Over
      <3> DEFINE j == Receive(job, m)
      <3> HIDE DEF m, E, j
      <3>2. job' = Give(j) /\ Adds(deferred, out, E)
        BY <2>3, <2>5, <2>6, <3>1, DeliverWrites DEF j
      <3>3. PICK F \in SUBSET Effect :
              /\ Seen(n + 1) \in F /\ F \intersect Lasting = {Seen(n + 1)}
              /\ Write(deferred, out, F)
        BY <2>5, <3>2 DEF Adds
      <3>4. /\ job' \in Record /\ Held(job') = Held(job) \union {n + 1}
            /\ job'.room = job.room /\ job'.progress = "Working"
            /\ job.progress \notin Over
        BY <2>1, <2>3, <2>4, <2>6, <2>7, <3>1, <3>2, GiveInOrder, HeldSame
           DEF InOrder, Give, Record, Over, j
      <3>. QED  BY <1>0, <1>1, <2>1, <2>2, <3>1, <3>3, <3>4, ReceivedPromises
    <2>8. CASE job.progress = "Working" /\ ~Deliverable(Receive(job, m), turn)
      <3>1. /\ job' = Receive(job, m) /\ Write(deferred, out, E)
            /\ fate' = Becomes({m}, "Held")
        BY <1>5, <2>8 DEF Say, Idle, Over
      <3>2. job.progress \notin Over  BY <2>8 DEF Over
      <3> HIDE DEF m, E
      <3>. QED  BY <1>0, <1>1, <2>1, <2>2, <2>3, <2>4, <2>5, <2>8, <3>1, <3>2,
                   ReceivedPromises
    <2>9. CASE job.progress \in Idle
      <3> DEFINE g == Give(Receive(job, m))
                 j == [g EXCEPT !.progress = "Working"]
      <3>1. StartGiven(j, deferred, out, E) /\ fate' = Becomes({m}, "Held")
        BY <1>5, <2>9 DEF Say, Idle, Over
      <3>2. HasNext(Receive(job, m))
        BY <1>1, <2>1 DEF HasNext, Receive, InOrder, Record
      <3>25. g \in Record /\ InOrder(g, n + 1)
        BY <2>3, <2>6, <3>2, GiveInOrder DEF InOrder
      <3>26. g.room = job.room /\ Held(g) = Held(job) \union {m}
        BY <2>3, <2>4, HeldSame
      <3>27. g.given > 0
        BY <1>1, <2>3, <2>4 DEF Give, Record
      <3>3. InOrder(g, n + 1) /\ g \in Record /\ g.given > 0 /\ g.room = job.room
            /\ Held(g) = Held(job) \union {m}
        BY <3>25, <3>26, <3>27
      <3> HIDE DEF g
      <3>4. /\ InOrder(j, n + 1) /\ j.given > 0 /\ j.progress = "Working"
            /\ j \in Record /\ j.room = job.room /\ Held(j) = Held(job) \union {m}
        BY <2>6, <3>3, ProgressInOrder, HeldSame DEF Progress, InOrder, Record
      <3> HIDE DEF j, m, E
      <3>5. job' = j /\ Adds(deferred, out, E)
        BY <2>5, <2>6, <3>1, <3>4, StartGivenWrites
      <3>6. PICK F \in SUBSET Effect :
              /\ Seen(n + 1) \in F /\ F \intersect Lasting = {Seen(n + 1)}
              /\ Write(deferred, out, F)
        BY <2>5, <3>5 DEF Adds
      <3>7. job.progress \notin Over  BY <2>9 DEF Idle, Over
      <3>. QED  BY <1>0, <1>1, <2>1, <2>2, <3>1, <3>4, <3>5, <3>6, <3>7, ReceivedPromises
    <2>10. CASE job.progress \in Over
      <3>1. /\ UNCHANGED <<job, deferred, out>>
            /\ fate' = Becomes({m}, "Refused")
        BY <1>5, <2>10 DEF Say, Idle, Over
      <3>2. \A k \in Message : fate'[k] = "Held" => fate[k] = "Held"
        BY <3>1 DEF Becomes
      <3>3. \A k \in Message : fate'[k] = "Forgotten" => fate[k] = "Forgotten"
        BY <3>1 DEF Becomes
      <3>4. \A k \in Message : k <= n => k <= n + 1  BY DEF Message
      <3> HIDE DEF m
      <3>. QED  BY <1>0, <1>1, <2>1, <2>2, <3>1, <3>2, <3>3, <3>4 DEF Promising, Promises
    <2>. QED  BY <1>5, <2>7, <2>8, <2>9, <2>10 DEF Say
  <1>6. CASE Stop
    <2>1. UNCHANGED <<job, deferred, out, fate, disk, container, said>>
      BY <1>6 DEF Stop
    <2>2. used'.retires = used.retires  BY <1>1, <1>6 DEF Stop
    <2>. QED  BY <1>1, <2>1, <2>2, SamePromises
  <1>7. CASE Retire
    <2>1. /\ UNCHANGED <<fate, disk, container, said>>
          /\ used'.retires = used.retires + 1 /\ used'.retires <= MaxRetires
      BY <1>1, <1>7 DEF Retire
    <2>2. CASE /\ job.progress \in Idle
               /\ job' = [job EXCEPT !.progress = "Retired"]
               /\ Write(deferred, out, {Discard})
      <3> DEFINE E == {Discard}
      <3>1. /\ job' \in Record /\ Held(job') = Held(job) /\ job'.mail = job.mail
            /\ job'.room = job.room /\ job'.progress = "Retired" /\ job'.progress \in Over
        BY <1>1, <2>2, HeldSame DEF Record, Progress, Over
      <3>2. job.progress \notin Over /\ job.mail = <<>>
        BY <1>3, <2>2 DEF Tidy, Idle, Over
      <3>3. Tidy(job')  BY <1>3, <3>1, <3>2 DEF Tidy, Rooms
      <3>4. E \in SUBSET Effect /\ Write(deferred, out, E)  BY <2>2, Kinds
      <3>5. \A m \in Message : Seen(m) \in Effect \ E
        BY Kinds, SpokenKind
      <3>51. Discard \in E  OBVIOUS
      <3> HIDE DEF E
      <3>6. /\ Len(deferred') = Len(deferred) + 1
            /\ \A e \in Effect \ E : Places(e, deferred', out') = Places(e, deferred, out)
            /\ \A e \in E : Places(e, deferred', out')
                              = Places(e, deferred, out) \union {Len(deferred) + 1}
            /\ \A k \in 0..Len(deferred) :
                 RecordAt(deferred', disk', k) = RecordAt(deferred, disk, k)
            /\ RecordAt(deferred', disk', Len(deferred) + 1) = job'
        BY <1>1, <2>1, <3>1, <3>4, WritePlaces
      <3>7. \A k \in 0..Len(deferred') : k \in 0..Len(deferred) \/ k = Len(deferred) + 1
        BY <1>1, <3>6
      <3>8. \A k \in 0..Len(deferred') : Tidy(RecordAt(deferred', disk', k))
        BY <1>1, <3>3, <3>6, <3>7 DEF Promises
      <3>9. Places(Discard, deferred', out') = {Len(deferred) + 1}
        BY <1>1, <3>2, <3>51, <3>6 DEF Promises
      <3>10. ASSUME NEW i \in Places(Discard, deferred', out'), NEW k \in i..Len(deferred')
             PROVE  RecordAt(deferred', disk', k).progress \in Over
        <4>1. k = Len(deferred) + 1  BY <1>1, <3>6, <3>9
        <4>. QED  BY <3>1, <3>6, <4>1
      <3>11. ASSUME NEW m \in Message
             PROVE  /\ fate'[m] = "Held" =>
                         /\ m \in Held(job')
                         /\ \A i \in Places(Seen(m), deferred', out') :
                              \A k \in i..Len(deferred') :
                                m \in Held(RecordAt(deferred', disk', k))
                    /\ fate'[m] = "Forgotten" => Places(Seen(m), deferred', out') = {}
                    /\ Places(Seen(m), deferred', out') # {} => m <= said'
        <4>1. Places(Seen(m), deferred', out') = Places(Seen(m), deferred, out)
          BY <3>5, <3>6
        <4>2. ASSUME fate[m] = "Held", NEW i \in Places(Seen(m), deferred, out),
                     NEW k \in i..(Len(deferred) + 1)
              PROVE  m \in Held(RecordAt(deferred', disk', k))
          <5>1. i \in 0..Len(deferred)  BY DEF Places
          <5>2. CASE k = Len(deferred) + 1  BY <1>2, <3>1, <3>6, <4>2, <5>2
          <5>3. CASE k \in i..Len(deferred)
            <6>1. m \in Held(RecordAt(deferred, disk, k))
              BY <1>1, <4>2, <5>3 DEF Promises
            <6>. QED  BY <1>1, <3>6, <5>1, <5>3, <6>1
          <5>. QED  BY <1>1, <5>1, <5>2, <5>3
        <4>. QED  BY <1>1, <1>2, <2>1, <3>1, <3>6, <4>1, <4>2 DEF Promises
      <3>12. used'.retires # 0  BY <1>1, <2>1
      <3>. QED  BY <2>1, <3>1, <3>3, <3>8, <3>10, <3>11, <3>12 DEF Promising, Promises
    <2>3. CASE /\ job.progress \in Over /\ job' = job
               /\ Release(deferred, out, {Discard})
      <3> DEFINE E == {Discard}
      <3>1. Release(deferred, out, E)  BY <2>3
      <3>2. \A m \in Message : Seen(m) \in Effect \ E
        BY Kinds, SpokenKind
      <3> HIDE DEF E
      <3>3. /\ deferred' = deferred
            /\ \A e \in Effect \ E : Places(e, deferred', out') = Places(e, deferred, out)
        BY <1>1, <3>1, ReleasePlaces
      <3>4. \A m \in Message :
              Places(Seen(m), deferred', out') = Places(Seen(m), deferred, out)
        BY <3>2, <3>3
      <3>5. used'.retires # 0 /\ (used'.retires <= 1 => used.retires = 0)
        BY <1>1, <2>1
      <3>6. container /\ used.retires = 0 => FALSE
        BY <1>1, <2>3 DEF Promises
      <3>. QED  BY <1>1, <2>1, <2>3, <3>3, <3>4, <3>5, <3>6 DEF Promising, Promises
    <2>. QED  BY <1>7, <2>2, <2>3 DEF Retire
  <1>. QED  BY <1>4, <1>5, <1>6, <1>7 DEF Person

LEMMA PromisingAgents == Kempt /\ Agent => Promising'
  <1> SUFFICES ASSUME Kempt, Agent PROVE Promising'
    OBVIOUS
  <1>0. PICK n \in Nat : Kept(n)  BY DEF Kempt, Inv
  <1>1. /\ deferred \in Seq(Deferred) /\ Looping /\ Promising
        /\ Promises(deferred, out, disk)
    BY <1>0 DEF Kempt, Kept, Queue, Promising
  <1>2. turn.stage \in Speaking \union {"Closing"} => job.progress = "Working"
    BY <1>1, TalkingIsStill
  <1>3. ASSUME NEW b \in BOOLEAN, AgentReady(b) PROVE Promising'
    <2> DEFINE t == [turn EXCEPT !.stage = "Prompting", !.steerable = b]
    <2>1. turn.stage = "Opening" /\ HandedOn(t, out)
          /\ UNCHANGED <<disk, said, fate, container, used>>
      BY <1>3 DEF AgentReady
    <2> HIDE DEF t
    <2>. QED  BY <1>0, <1>1, <1>2, <2>1, HandedOnPromises DEF Speaking
  <1>4. ASSUME NEW b \in BOOLEAN, AgentAnswered(b) PROVE Promising'
    <2>1. UNCHANGED <<job, deferred, out, fate, disk, said, container, used>>
      BY <1>4 DEF AgentAnswered, world
    <2>. QED  BY <1>1, <2>1, SamePromises
  <1>5. CASE AgentSpoke
    <2>1. turn.stage = "Prompting" /\ HandedOn(turn, out)
          /\ UNCHANGED <<disk, said, fate, container, used>>
      BY <1>5 DEF AgentSpoke, Deliverable, CanSteer, world
    <2>. QED  BY <1>0, <1>1, <1>2, <2>1, HandedOnPromises DEF Speaking
  <1>6. CASE Claim
    <2>1. UNCHANGED <<job, deferred, out, fate, disk, said, container, used>>
      BY <1>6 DEF Claim, world
    <2>. QED  BY <1>1, <2>1, SamePromises
  <1>7. ASSUME NEW m \in Message, SteerLanded(m) PROVE Promising'
    <2> DEFINE t == [turn EXCEPT !.delivery = "Open", !.steering = FALSE,
                                 !.claimed = FALSE]
               o == out \ {Steer(m)}
    <2>1. turn.stage = "Prompting" /\ HandedOn(t, o)
          /\ UNCHANGED <<disk, said, fate, container, used>>
      BY <1>7 DEF SteerLanded
    <2>2. Promises(deferred, o, disk)  BY <1>1, TakenPromises
    <2>3. \A e \in Lasting : Places(e, deferred, o) \subseteq Places(e, deferred, out)
      BY DEF Places, At
    <2> HIDE DEF t, o
    <2>. QED  BY <1>0, <1>1, <1>2, <2>1, <2>2, <2>3, HandedOnPromises DEF Speaking
  <1>8. ASSUME NEW m \in Message, SteerWaits(m) PROVE Promising'
    <2> DEFINE o == out \ {Steer(m)}
    <2>1. /\ job' = HandBack(job) /\ Write(deferred, o, {})
          /\ UNCHANGED <<disk, said, fate, container, used>>
      BY <1>8 DEF SteerWaits, world
    <2>2. Promises(deferred, o, disk)  BY <1>1, TakenPromises
    <2> HIDE DEF o
    <2>. QED  BY <1>0, <1>1, <2>1, <2>2, HandedBackPromises
  <1>. QED  BY <1>3, <1>4, <1>5, <1>6, <1>7, <1>8 DEF Agent

LEMMA PromisingCommands == Kempt /\ CommandAnswered => Promising'
  <1> SUFFICES ASSUME Kempt, NEW ok \in BOOLEAN,
                      \/ Looked(ok) \/ Built(ok) \/ Made(ok)
                      \/ Up(ok) \/ Wrapped(ok) \/ CheckedOut(ok)
               PROVE  Promising'
    BY DEF CommandAnswered
  <1>0. PICK n \in Nat : Kept(n)  BY DEF Kempt, Inv
  <1>1. /\ deferred \in Seq(Deferred) /\ out \in SUBSET Effect /\ Looping /\ Promising
        /\ Promises(deferred, out, disk)
    BY <1>0 DEF Kempt, Kept, Queue, Promising
  <1>2. PICK failed \in BOOLEAN :
          \E stage :
            /\ GoesOn(failed, stage) /\ Step \in out /\ turn.stage \in Commanding
            /\ UNCHANGED <<disk, said, used>>
    BY DEF Looked, Built, Made, Up, Wrapped, CheckedOut, Answered, Commanding, world
  <1>22. PICK stage :
            /\ GoesOn(failed, stage) /\ Step \in out /\ turn.stage \in Commanding
            /\ UNCHANGED <<disk, said, used>>
    BY <1>2
  <1>3. job.progress = "Working" /\ job.progress \notin Over
    BY <1>1, <1>22, AnsweredIsStill DEF Over
  <1> DEFINE o == out \ {Step}
  <1>4. o \in SUBSET Effect /\ o \subseteq out /\ Promises(deferred, o, disk)
    BY <1>1, TakenPromises
  <1>5. CASE turn.stopping \/ failed
    <2>1. Ended(FALSE, o)  BY <1>22, <1>5 DEF GoesOn
    <2> HIDE DEF o
    <2>. QED  BY <1>0, <1>1, <1>22, <1>3, <1>4, <2>1, EndedPromises
  <1>6. CASE ~(turn.stopping \/ failed)
    <2>1. /\ UNCHANGED <<job, deferred, fate>>
          /\ out' \subseteq out
      BY <1>22, <1>6 DEF GoesOn
    <2>2. \A e \in Lasting : Places(e, deferred', out') \subseteq Places(e, deferred, out)
      BY <2>1 DEF Places, At
    <2>. QED  BY <1>1, <1>22, <1>3, <2>1, <2>2, SamePromises
  <1>. QED  BY <1>5, <1>6

LEMMA PromisingRooms == Kempt /\ RoomAnswered => Promising'
  <1> SUFFICES ASSUME Kempt, MakeRoom \in out, RoomMade \/ RoomRefused
               PROVE  Promising'
    BY DEF RoomAnswered, RoomMade, RoomRefused
  <1> DEFINE o == out \ {MakeRoom}
  <1>1. /\ job \in Record /\ deferred \in Seq(Deferred) /\ Looping /\ Promising
        /\ Promises(deferred, out, disk)
    BY DEF Kempt, Inv, Kept, Queue, InOrder, Promising
  <1>2. job.progress = "Working" /\ ~job.room
    <2>1. Len(deferred) \in Nat  BY <1>1
    <2>2. 0 \in Places(MakeRoom, deferred, out)  BY <2>1 DEF Places, At
    <2>. QED  BY <1>1, <2>2 DEF Looping, Stands
  <1>3. Promises(deferred, o, disk)  BY <1>1, TakenPromises
  <1>4. CASE RoomMade
    <2> DEFINE E == {Step}
    <2>1. /\ job' = [job EXCEPT !.room = TRUE]
          /\ Write(deferred, o, E)
          /\ UNCHANGED <<disk, said, fate, container, used>>
      BY <1>4 DEF RoomMade, world
    <2>2. E \in SUBSET Effect /\ E \intersect Lasting = {}
      BY Kinds, LastingKinds
    <2> HIDE DEF o, E
    <2>3. /\ job' \in Record /\ job'.room /\ job'.progress = "Working"
          /\ Held(job') = Held(job)
      BY <1>1, <1>2, <2>1 DEF Record, Held
    <2>4. Tidy(job') /\ job'.progress \notin Over /\ job.progress \notin Over
      BY <1>2, <2>3, WorkingIsTidy DEF Over
    <2>5. \A k \in Message : fate[k] = "Held" => k \in Held(job)
      BY <1>1 DEF Promises
    <2>. QED  BY <1>1, <1>3, <2>1, <2>2, <2>3, <2>4, <2>5, WritePromises
  <1>5. CASE RoomRefused
    <2>1. Roomless(deferred, o) /\ UNCHANGED <<disk, said, container, used>>
      BY <1>5 DEF RoomRefused, world
    <2> HIDE DEF o
    <2>. QED  BY <1>1, <1>2, <1>3, <2>1, RoomlessPromises
  <1>. QED  BY <1>4, <1>5

LEMMA PromisingWrites == Kempt /\ WriteAnswered => Promising'
  <1> SUFFICES ASSUME Kempt, WriteAnswered PROVE Promising'
    OBVIOUS
  <1>0. PICK n \in Nat : Kept(n)  BY DEF Kempt, Inv
  <1> DEFINE q    == Tail(deferred)
             gone == Head(deferred).effects
  <1>1. /\ job \in Record /\ deferred \in Seq(Deferred) /\ deferred # <<>>
        /\ q \in Seq(Deferred) /\ Looping /\ Promising
        /\ Promises(deferred, out, disk)
        /\ used \in [stops : Nat, retires : Nat, failures : Nat, crashes : Nat]
    BY HeadTailProperties
       DEF Kempt, Inv, Kept, Queue, InOrder, WriteAnswered, Landed, Unwritten, Promising
  <1>2. CASE Landed
    <2>1. /\ UNCHANGED <<job, fate, container, said, used>>
          /\ deferred' = q /\ out' = out \union gone /\ disk' = Head(deferred).snap
      BY <1>2 DEF Landed, Release
    <2>2. Promises(deferred', out', disk')
      BY <1>1, <2>1, LandedPromises
    <2>. QED  BY <2>1, <2>2 DEF Promising, Promises
  <1>3. CASE Unwritten
    <2> DEFINE unasked == gone \intersect Reads # {}
    <2>1. /\ \/ (Step \in gone \/ (unasked /\ pending = "Job")) /\ Abandoned(q, out)
             \/ NotTaken(q, out) /\ UNCHANGED fate
             \/ MakeRoom \in gone /\ Roomless(q, out)
             \/ Release(q, out, {}) /\ UNCHANGED <<job, fate>>
          /\ UNCHANGED <<disk, container, said>>
          /\ used' = [used EXCEPT !.failures = @ + 1]
      BY <1>3 DEF Unwritten
    <2>2. used'.retires = used.retires  BY <1>1, <2>1
    <2>3. Promises(q, out, disk)  BY <1>1, DroppedPromises
    <2>4. /\ Step \in gone => Places(Step, deferred, out) # {}
          /\ MakeRoom \in gone => Places(MakeRoom, deferred, out) # {}
      BY <1>1, DroppedOne, Kinds
    <2> HIDE DEF q, gone
    <2>5. CASE (Step \in gone \/ (unasked /\ pending = "Job")) /\ Abandoned(q, out)
      <3>1. job.progress = "Working"
        BY <1>1, <2>4, <2>5 DEF Looping, Stands, Commanding
      <3>. QED  BY <1>0, <1>1, <2>1, <2>2, <2>3, <2>5, <3>1, AbandonedPromises
    <2>6. CASE NotTaken(q, out) /\ UNCHANGED fate
      BY <1>0, <1>1, <2>1, <2>2, <2>3, <2>6, HandedBackPromises DEF NotTaken
    <2>7. CASE MakeRoom \in gone /\ Roomless(q, out)
      <3>1. job.progress = "Working" /\ ~job.room
        BY <1>1, <2>4, <2>7 DEF Looping, Stands
      <3>. QED  BY <1>1, <2>1, <2>2, <2>3, <2>7, <3>1, RoomlessPromises
    <2>8. CASE Release(q, out, {}) /\ UNCHANGED <<job, fate>>
      <3>1. deferred' = q /\ out' = out  BY <2>8 DEF Release
      <3>. QED  BY <2>1, <2>2, <2>3, <2>8, <3>1 DEF Promising, Promises
    <2>. QED  BY <2>1, <2>5, <2>6, <2>7, <2>8
  <1>. QED  BY <1>2, <1>3 DEF WriteAnswered

LEMMA PromisingThreads == Kempt /\ ThreadAnswered => Promising'
  <1> SUFFICES ASSUME Kempt, NEW e \in Reads, ThreadRead(e) PROVE Promising'
    BY DEF ThreadAnswered
  <1>0. PICK n \in Nat : Kept(n)  BY DEF Kempt, Inv
  <1> DEFINE o == out \ {e}
  <1>1. /\ deferred \in Seq(Deferred) /\ Promising
        /\ Promises(deferred, out, disk)
    BY <1>0 DEF Kempt, Kept, Queue, Promising
  <1>2. UNCHANGED <<fate, disk, said, container, used>>  BY DEF ThreadRead, world
  <1>3. Promises(deferred, o, disk)  BY <1>1, TakenPromises
  <1>4. \A x \in Lasting : Places(x, deferred, o) \subseteq Places(x, deferred, out)
    BY DEF Places, At
  <1> HIDE DEF o
  <1>5. ASSUME NEW x \in Effect \ Lasting, UNCHANGED job,
               AfterWrites(deferred, o, {x})
        PROVE  Promising'
    <2> DEFINE E == {x}
    <2>1. E \in SUBSET Effect /\ \A y \in Lasting : y \in Effect \ E
      BY <1>5, LastingKinds
    <2>2. AfterWrites(deferred, o, E)  BY <1>5
    <2> HIDE DEF E
    <2>3. /\ deferred' \in Seq(Deferred) /\ Len(deferred') = Len(deferred)
          /\ \A y \in Effect \ E : Places(y, deferred', out') = Places(y, deferred, o)
          /\ \A k \in 0..Len(deferred) :
               RecordAt(deferred', disk, k) = RecordAt(deferred, disk, k)
      BY <1>1, <2>1, <2>2, AfterWritesPlaces
    <2>. QED  BY <1>1, <1>2, <1>4, <1>5, <2>1, <2>3, SamePromises
  <1>6. CASE UNCHANGED job /\ AfterWrites(deferred, o, {Step})
    BY <1>5, <1>6, Kinds, LastingKinds
  <1>7. CASE /\ job.given > 0 /\ UNCHANGED job
             /\ AfterWrites(deferred, o, {Steer(LastGiven(job))})
    <2>1. LastGiven(job) \in Message  BY <1>0, <1>7, GivenIsMessage DEF Kept
    <2>2. Steer(LastGiven(job)) \in Effect \ Lasting
      BY <2>1, SpokenKind, LastingKinds
    <2>. QED  BY <1>5, <1>7, <2>2
  <1>8. CASE NotTaken(deferred, o)
    BY <1>0, <1>1, <1>2, <1>3, <1>8, HandedBackPromises DEF NotTaken
  <1>9. CASE UNCHANGED job /\ Release(deferred, o, {})
    <2>1. deferred' = deferred /\ out' = o  BY <1>9 DEF Release
    <2>. QED  BY <1>1, <1>2, <1>4, <1>9, <2>1, SamePromises
  <1>. QED  BY <1>6, <1>7, <1>8, <1>9 DEF ThreadRead, o

LEMMA PromisingRest ==
  Kempt /\ (ProcessEnded \/ CancelOverdue \/ \E ok \in BOOLEAN : Discarded(ok))
    => Promising'
  <1> SUFFICES ASSUME Kempt, ProcessEnded \/ CancelOverdue
                             \/ \E ok \in BOOLEAN : Discarded(ok)
               PROVE  Promising'
    OBVIOUS
  <1>0. PICK n \in Nat : Kept(n)  BY DEF Kempt, Inv
  <1>1. /\ deferred \in Seq(Deferred) /\ out \in SUBSET Effect /\ Looping /\ Promising
        /\ Promises(deferred, out, disk)
    BY <1>0 DEF Kempt, Kept, Queue, Promising
  <1>2. CASE ProcessEnded
    <2>1. PICK b \in BOOLEAN : Ended(b, out)
      <3>1. (turn.stage = "Closing" /\ turn.answered) \in BOOLEAN  OBVIOUS
      <3>. QED  BY <1>2, <3>1 DEF ProcessEnded
    <2>2. job.progress = "Working" /\ UNCHANGED <<disk, said, container, used>>
      BY <1>1, <1>2, TalkingIsStill DEF ProcessEnded, world
    <2>. QED  BY <1>0, <1>1, <2>1, <2>2, EndedPromises
  <1>3. CASE CancelOverdue
    <2>1. UNCHANGED <<job, deferred, out, fate, disk, said, container, used>>
      BY <1>3 DEF CancelOverdue, world
    <2>. QED  BY <1>1, <2>1, SamePromises
  <1>4. ASSUME NEW ok \in BOOLEAN, Discarded(ok) PROVE Promising'
    <2>1. /\ out' = out \ {Discard} /\ UNCHANGED <<job, deferred, fate, disk, said, used>>
          /\ container' => container
      BY <1>4 DEF Discarded
    <2>2. \A e \in Lasting : Places(e, deferred', out') \subseteq Places(e, deferred, out)
      BY <2>1 DEF Places, At
    <2>. QED  BY <1>1, <2>1, <2>2, SamePromises
  <1>. QED  BY <1>2, <1>3, <1>4

\* A record read back is no more than was written: what it held is held or
\* dropped, and it is over when it was, or when no container is there.
LEMMA WakingSame ==
  ASSUME NEW n \in Nat, NEW r, InOrder(r, n), Tidy(r), NEW there \in BOOLEAN
  PROVE  LET j == Waking(Opened(r), there) IN
         /\ j \in Record /\ Tidy(j) /\ Held(j) \subseteq Held(r)
         /\ r.progress \in Over => j.progress \in Over
         /\ j.progress \in Over => r.progress \in Over \/ ~there
  <1> DEFINE d == Opened(r)
             j == Waking(d, there)
  <1>1. /\ d \in Record /\ Held(d) \subseteq Held(r) /\ d.room = r.room
        /\ d.progress = r.progress
        /\ d.mail = r.mail \/ d.mail = <<>>
        /\ d.progress # "Working" => d.mail = <<>>
    <2>1. r \in Record  BY DEF InOrder
    <2>2. CASE r.progress = "Working"  BY <2>1, <2>2 DEF Opened
    <2>3. CASE r.progress # "Working"
      <3>1. d = Drain(r)  BY <2>3 DEF Opened
      <3>2. Drain(r) \in Record  BY DrainInOrder DEF InOrder
      <3>3. Drain(r).progress = r.progress  BY <2>1 DEF Drain, Record
      <3>. QED  BY <2>1, <3>1, <3>2, <3>3, HeldDrained
    <2>. QED  BY <2>2, <2>3
  <1> HIDE DEF d
  <1>2. \/ j = d
        \/ /\ j = [d EXCEPT !.progress = "Lost"] /\ ~there
           /\ d.progress \notin {"Unbegun"} \union Over
    BY DEF Waking
  <1>3. Tidy(d)
    BY <1>1 DEF Tidy, Rooms
  <1> DEFINE l == [d EXCEPT !.progress = "Lost"]
  <1>4. /\ l \in Record /\ l.progress = "Lost" /\ l.mail = d.mail /\ l.room = d.room
        /\ Held(l) = Held(d)
    <2>1. d \in Record  BY <1>1
    <2>2. l \in Record /\ l.progress = "Lost" /\ l.mail = d.mail /\ l.room = d.room
      BY <2>1 DEF Record, Progress, Over
    <2>3. Held(l) = Held(d)  BY <2>1, <2>2 DEF Held
    <2>. QED  BY <2>2, <2>3
  <1> HIDE DEF j, l
  <1>5. Tidy(l)
    BY <1>3, <1>4 DEF Tidy, Rooms
  <1>6. CASE j = d
    BY <1>1, <1>3, <1>6 DEF j, d
  <1>7. CASE j = l /\ ~there /\ d.progress \notin Over
    <2>1. l.progress \in Over  BY <1>4 DEF Over
    <2>2. j \in Record /\ Tidy(j) /\ Held(j) \subseteq Held(r) /\ r.progress \notin Over
      BY <1>1, <1>4, <1>5, <1>7
    <2>. QED  BY <1>7, <2>1, <2>2 DEF j, d
  <1>. QED  BY <1>2, <1>6, <1>7 DEF l

LEMMA PromisingRestart == Kempt /\ Restart => Promising'
  <1> SUFFICES ASSUME Kempt, Restart PROVE Promising'
    OBVIOUS
  <1>0. PICK n \in Nat : Kept(n) /\ InOrder(disk, n)  BY DEF Kempt, Inv
  <1>1. /\ deferred \in Seq(Deferred) /\ Len(deferred) \in Nat /\ Looping
        /\ Promises(deferred, out, disk) /\ container \in BOOLEAN
        /\ fate \in [Message -> Fates] /\ out \subseteq Effect
        /\ used \in [stops : Nat, retires : Nat, failures : Nat, crashes : Nat]
    BY <1>0 DEF Kempt, Inv, Kept, Queue, Promising
  <1> DEFINE o == {e \in out : e.kind = "Seen"}
                  \union (IF turn'.stage = "Starting" THEN {Step} ELSE {})
                  \union (IF job'.progress \in Over /\ container'
                            THEN {Discard} ELSE {})
  <1>2. /\ Write(<<>>, o, {}) /\ said' = said
        /\ job' = Waking(Opened(disk'), container')
        /\ fate' = [m \in Message |->
                      IF m \in Held(job') THEN "Held"
                      ELSE IF fate[m] # "Held" THEN fate[m]
                      ELSE IF m \in Held(disk') THEN "Dropped" ELSE "Forgotten"]
        /\ used' = [used EXCEPT !.crashes = @ + 1]
    BY DEF Restart
  <1>3. PICK k \in 0..Len(deferred) : disk' = RecordAt(deferred, disk, k)
    <2>1. disk' \in {disk} \union {deferred[i].snap : i \in DOMAIN deferred}
      BY DEF Restart
    <2>2. DOMAIN deferred = 1..Len(deferred)  BY <1>1
    <2>3. CASE disk' = disk
      <3>1. 0 \in 0..Len(deferred) /\ RecordAt(deferred, disk, 0) = disk
        BY <1>1 DEF RecordAt
      <3>. QED  BY <2>3, <3>1
    <2>4. CASE disk' # disk
      <3>1. PICK i \in 1..Len(deferred) : disk' = deferred[i].snap
        BY <2>1, <2>2, <2>4
      <3>2. i \in 0..Len(deferred) /\ RecordAt(deferred, disk, i) = deferred[i].snap
        BY <1>1 DEF RecordAt
      <3>. QED  BY <3>1, <3>2
    <2>. QED  BY <2>3, <2>4
  <1>4. InOrder(disk', n) /\ Tidy(disk')
    BY <1>0, <1>1, <1>3 DEF Kept, Queue, RecordAt, Promises
  <1>5. container' \in BOOLEAN /\ (container' => container \/ turn.stage = "Creating")
    BY <1>1 DEF Restart, Answered
  <1>6. /\ job' \in Record /\ Tidy(job') /\ Held(job') \subseteq Held(disk')
        /\ disk'.progress \in Over => job'.progress \in Over
        /\ job'.progress \in Over => disk'.progress \in Over \/ ~container'
    BY <1>2, <1>4, <1>5, WakingSame
  <1>7. /\ Discard \in o <=> job'.progress \in Over /\ container'
        /\ \A m \in Message : Seen(m) \in o => Seen(m) \in out
    BY Kinds, SpokenKind
  <1> HIDE DEF o
  <1>8. /\ Len(deferred') = 1
        /\ \A e \in Effect : Places(e, deferred', out') = IF e \in o THEN {0} ELSE {}
        /\ RecordAt(deferred', disk', 0) = disk'
        /\ RecordAt(deferred', disk', 1) = job'
    <2>1. deferred' = <<[snap |-> job', effects |-> {}]>> /\ out' = o
      BY <1>2 DEF Write
    <2>2. Len(deferred') = 1 /\ deferred'[1] = [snap |-> job', effects |-> {}]
      BY <2>1
    <2>3. 0..1 = {0, 1}  OBVIOUS
    <2>4. /\ At(deferred', out', 0) = o /\ At(deferred', out', 1) = {}
          /\ RecordAt(deferred', disk', 0) = disk'
          /\ RecordAt(deferred', disk', 1) = job'
      BY <2>1, <2>2 DEF At, RecordAt
    <2>5. \A e : Places(e, deferred', out') = IF e \in o THEN {0} ELSE {}
      BY <2>2, <2>3, <2>4 DEF Places
    <2>. QED  BY <2>2, <2>4, <2>5
  <1>9. \A i \in 0..Len(deferred') :
          RecordAt(deferred', disk', i) \in {disk', job'}
    <2>1. \A i \in 0..1 : i = 0 \/ i = 1  OBVIOUS
    <2>. QED  BY <1>8, <2>1
  <1>10. ASSUME NEW m \in Message
         PROVE  /\ fate'[m] = "Held" =>
                     /\ m \in Held(job')
                     /\ \A i \in Places(Seen(m), deferred', out') : \A l \in i..Len(deferred') :
                          m \in Held(RecordAt(deferred', disk', l))
                /\ fate'[m] = "Forgotten" => Places(Seen(m), deferred', out') = {}
                /\ Places(Seen(m), deferred', out') # {} => m <= said'
    <2>1. Seen(m) \in Effect  BY SpokenKind
    <2>2. Seen(m) \in o => 0 \in Places(Seen(m), deferred, out)
      BY <1>1, <1>7 DEF Places, At
    <2>3. fate'[m] = "Held" => m \in Held(job')  BY <1>2
    <2>4. fate'[m] = "Forgotten" => Seen(m) \notin o
      <3>1. SUFFICES ASSUME fate'[m] = "Forgotten", Seen(m) \in o PROVE FALSE
        OBVIOUS
      <3>2. CASE fate[m] = "Held"
        <4>1. m \notin Held(disk')  BY <1>2, <3>1, <3>2
        <4>2. m \in Held(RecordAt(deferred, disk, k))
          BY <1>1, <2>2, <3>1, <3>2 DEF Promises
        <4>. QED  BY <1>3, <4>1, <4>2
      <3>3. CASE fate[m] # "Held"
        <4>1. fate[m] = "Forgotten"  BY <1>2, <3>1, <3>3
        <4>. QED  BY <1>1, <2>2, <3>1, <4>1 DEF Promises
      <3>. QED  BY <3>2, <3>3
    <2>5. Places(Seen(m), deferred', out') # {} => m <= said'
      BY <1>1, <1>2, <1>8, <2>1, <2>2 DEF Promises
    <2>6. \A i \in Places(Seen(m), deferred', out') : i = 0
      BY <1>8, <2>1
    <2>. QED  BY <1>6, <1>8, <1>9, <2>1, <2>3, <2>4, <2>5, <2>6
  <1>11. job'.progress \notin Over =>
           /\ Places(Discard, deferred', out') = {}
           /\ \A i \in 0..Len(deferred') :
                RecordAt(deferred', disk', i).progress \notin Over
    BY <1>6, <1>7, <1>8, <1>9, Kinds
  <1>12. \A i \in Places(Discard, deferred', out') : \A l \in i..Len(deferred') :
           RecordAt(deferred', disk', l).progress \in Over
    <2>1. Places(Discard, deferred', out') # {} => job'.progress \in Over /\ container'
      BY <1>7, <1>8, Kinds
    <2>2. \A i \in Places(Discard, deferred', out') : i = 0
      BY <1>8, Kinds
    <2>. QED  BY <1>6, <1>9, <2>1, <2>2
  <1>13. used'.retires = used.retires  BY <1>1, <1>2
  <1>14. job'.progress \in Over /\ used'.retires = 0 => ~container'
    <2>1. SUFFICES ASSUME job'.progress \in Over, used.retires = 0, container'
                   PROVE  FALSE
      BY <1>13
    <2>2. RecordAt(deferred, disk, k).progress \in Over  BY <1>3, <1>6, <2>1
    <2>3. job.progress \in Over  BY <1>1, <2>2 DEF Promises
    <2>4. ~container  BY <1>1, <2>1, <2>3 DEF Promises
    <2>5. turn.stage = "Creating" /\ job.progress = "Working"
      BY <1>1, <1>5, <2>1, <2>4 DEF Looping, Stands
    <2>. QED  BY <2>3, <2>5 DEF Over
  <1>15. used'.retires <= MaxRetires  BY <1>1, <1>13 DEF Promises
  <1>16. \A i \in 0..Len(deferred') : Tidy(RecordAt(deferred', disk', i))
    BY <1>4, <1>6, <1>9
  <1>. QED  BY <1>6, <1>10, <1>11, <1>12, <1>14, <1>15, <1>16 DEF Promising, Promises

LEMMA PromisingStart == Init => Looping /\ Promising
  <1> SUFFICES ASSUME Init PROVE Looping /\ Promising
    OBVIOUS
  <1>1. /\ job.progress = "Unbegun" /\ ~job.room /\ job.mail = <<>> /\ job.given = 0
        /\ turn.stage = "None" /\ pending = "None" /\ deferred = <<>> /\ disk = job
        /\ out = {} /\ ~container /\ used.retires = 0 /\ Len(deferred) = 0
    BY DEF Init, NoTurn
  <1>2. \A m \in Message : fate[m] = "Unsaid"  BY DEF Init
  <1>3. 0..0 = {0}  OBVIOUS
  <1>4. /\ \A e : Places(e, deferred, out) = {}
        /\ \A k \in 0..Len(deferred) : RecordAt(deferred, disk, k) = job
    BY <1>1, <1>3 DEF Places, At, RecordAt
  <1>5. Looping
    BY <1>1, <1>4 DEF Looping, Stands, AtMostOne, Commanding
  <1>6. Tidy(job)  BY <1>1 DEF Tidy, Rooms
  <1>. QED  BY <1>1, <1>2, <1>4, <1>5, <1>6, JobAssumption DEF Promising, Promises, Over

----------------------------------------------------------------------------
(* What holds always. *)

\* Whatever the people, the agent, the disk and the crashes do, the loop that
\* drives a job and the promises made in its room are kept: each rests on the
\* other, and both on the order of the inbox.
THEOREM PromisesInvariance == Spec => []Kempt
  <1>1. Init => Kempt  BY Initially, PromisingStart DEF Kempt
  <1>2. Kempt /\ [Next]_vars => Kempt'
    <2> SUFFICES ASSUME Kempt, [Next]_vars PROVE Kempt'
      OBVIOUS
    <2>1. Inv /\ Looping /\ Promising /\ Rooms(job)
      BY DEF Kempt, Promising, Promises, Tidy
    <2>2. Inv'
      BY <2>1, StepPersons, StepAgents, StepCommands, StepRooms, StepWrites,
         StepThreads, StepRestart, StepRest, StepIdle DEF Next
    <2>3. CASE UNCHANGED vars
      <3>1. UNCHANGED <<job, turn, pending, deferred, disk, out, container, said, fate, used>>
        BY <2>3 DEF vars, memory, world
      <3>2. Looping'  BY <2>1, <3>1 DEF Looping, Reading
      <3>3. Promising'  BY <2>1, <3>1 DEF Promising, Promises
      <3>. QED  BY <2>2, <3>2, <3>3 DEF Kempt
    <2>4. CASE Next
      <3>1. Looping'
        BY <2>1, <2>2, <2>4, LoopingPersons, LoopingAgents, LoopingCommands,
           LoopingRooms, LoopingWrites, LoopingThreads, LoopingRestart, LoopingRest
           DEF Next
      <3>2. Promising'
        BY <2>4, PromisingPersons, PromisingAgents, PromisingCommands,
           PromisingRooms, PromisingWrites, PromisingThreads, PromisingRestart,
           PromisingRest DEF Next
      <3>. QED  BY <2>2, <3>1, <3>2 DEF Kempt
    <2>. QED  BY <2>3, <2>4
  <1>. QED  BY <1>1, <1>2, PTL DEF Spec

\* To come is to stand somewhere.
LEMMA ComingPlaces ==
  ASSUME deferred \in Seq(Deferred), NEW e
  PROVE  Coming(e) <=> Places(e, deferred, out) # {}
  <1>1. DOMAIN deferred = 1..Len(deferred) /\ Len(deferred) \in Nat
    BY LenProperties
  <1>. QED  BY <1>1 DEF Coming, Places, At

\* A job that is not working holds no message, whatever ended its turn and
\* whichever write failed: nobody's words lie where no turn will take them up.
THEOREM NothingIsLeftWaiting == Spec => []NothingWaiting
  <1>1. Kempt => NothingWaiting
    BY DEF Kempt, Promising, Promises, Tidy, NothingWaiting
  <1>. QED  BY <1>1, PromisesInvariance, PTL

\* A job that says it is working has something coming: a registered turn, a
\* thread still being read for the turn that waits on it, or its room.
THEOREM WorkingIsNeverIdle == Spec => []WorkingHasSomethingComing
  <1>1. Kempt => WorkingHasSomethingComing
    <2> SUFFICES ASSUME Kempt PROVE WorkingHasSomethingComing
      OBVIOUS
    <2>1. \A e : Coming(e) <=> Places(e, deferred, out) # {}
      BY ComingPlaces DEF Kempt, Inv, Kept, Queue
    <2>. QED  BY <2>1 DEF Kempt, Looping, Stands, Reading, WorkingHasSomethingComing
  <1>. QED  BY <1>1, PromisesInvariance, PTL

\* One turn drives a job, and waits on one command at most: a command is asked
\* for exactly while the turn is at the stage that wants it, and once, across
\* the world and every write in flight.
THEOREM OneStepAtATime == Spec => []OneStepInFlight
  <1>1. Kempt => OneStepInFlight
    <2> SUFFICES ASSUME Kempt PROVE OneStepInFlight
      OBVIOUS
    <2>1. /\ \A e : Coming(e) <=> Places(e, deferred, out) # {}
          /\ DOMAIN deferred = 1..Len(deferred) /\ Len(deferred) \in Nat
      BY ComingPlaces, LenProperties DEF Kempt, Inv, Kept, Queue
    <2>2. /\ Step \in out => 0 \in Places(Step, deferred, out)
          /\ \A i \in DOMAIN deferred :
               Step \in deferred[i].effects => i \in Places(Step, deferred, out)
      BY <2>1 DEF Places, At
    <2>3. AtMostOne(Places(Step, deferred, out))  BY DEF Kempt, Looping, Stands
    <2>4. \A i \in DOMAIN deferred :
            Step \in deferred[i].effects =>
              /\ Step \notin out
              /\ \A k \in DOMAIN deferred : Step \in deferred[k].effects => i = k
      BY <2>1, <2>2, <2>3 DEF AtMostOne
    <2>. QED  BY <2>1, <2>4 DEF Kempt, Looping, Stands, OneStepInFlight
  <1>. QED  BY <1>1, PromisesInvariance, PTL

\* The eyes are put on a message once a record that holds it is on the disk,
\* and no record written after lets go of it unfinished: a crash at any point
\* brings it back.
THEOREM SeenIsKept == Spec => []SeenNeverForgotten
  <1>1. Kempt => SeenNeverForgotten
    <2> SUFFICES ASSUME Kempt, NEW m \in Message, Seen(m) \in out
                 PROVE  fate[m] # "Forgotten"
      BY DEF SeenNeverForgotten
    <2>1. Len(deferred) \in Nat  BY DEF Kempt, Inv, Kept, Queue
    <2>2. 0 \in Places(Seen(m), deferred, out)  BY <2>1 DEF Places, At
    <2>. QED  BY <2>2 DEF Kempt, Promising, Promises
  <1>. QED  BY <1>1, PromisesInvariance, PTL

\* A container is removed on the strength of a verdict that is on the disk, if
\* retiring is pressed no more than once: pressed again before the verdict has
\* landed, it asks for the removal at once.
THEOREM RemovedAfterVerdict == MaxRetires <= 1 => (Spec => DiscardAfterVerdict)
  <1>1. ASSUME MaxRetires <= 1, Kempt, [Next]_vars, container, ~container'
        PROVE  disk.progress \in Over
    <2>1. Len(deferred) \in Nat /\ used.retires \in Nat /\ used.retires <= MaxRetires
      BY <1>1 DEF Kempt, Inv, Kept, Queue, Promising, Promises
    <2>2. Discard \in out
      <3>1. CASE Restart  BY <1>1, <3>1 DEF Restart
      <3>2. CASE \E ok \in BOOLEAN : Discarded(ok)  BY <3>2 DEF Discarded
      <3>3. CASE CommandAnswered
        BY <1>1, <3>3 DEF CommandAnswered, Looked, Built, Made, Up, Wrapped, CheckedOut, world
      <3>4. CASE Person  BY <1>1, <3>4 DEF Person, Begin, Say, Stop, Retire, world
      <3>5. CASE Agent
        BY <1>1, <3>5 DEF Agent, AgentReady, AgentAnswered, AgentSpoke, Claim,
                          SteerLanded, SteerWaits, world
      <3>6. CASE RoomAnswered \/ WriteAnswered \/ ThreadAnswered
        BY <1>1, <3>6 DEF RoomAnswered, RoomMade, RoomRefused, WriteAnswered, Landed,
                          Unwritten, ThreadAnswered, ThreadRead, world
      <3>7. CASE ProcessEnded \/ CancelOverdue
        BY <1>1, <3>7 DEF ProcessEnded, CancelOverdue, world
      <3>8. CASE UNCHANGED vars  BY <1>1, <3>8 DEF vars, world
      <3>. QED  BY <1>1, <3>1, <3>2, <3>3, <3>4, <3>5, <3>6, <3>7, <3>8 DEF Next
    <2>3. 0 \in Places(Discard, deferred, out) /\ 0 \in 0..Len(deferred)
      BY <2>1, <2>2 DEF Places, At
    <2>4. RecordAt(deferred, disk, 0) = disk  BY DEF RecordAt
    <2>5. MaxRetires \in Nat  BY JobAssumption
    <2>6. container /\ used.retires <= 1 =>
            \A i \in Places(Discard, deferred, out) : \A k \in i..Len(deferred) :
              RecordAt(deferred, disk, k).progress \in Over
      BY <1>1 DEF Kempt, Promising, Promises
    <2>7. used.retires <= 1  BY <1>1, <2>1, <2>5
    <2>. QED  BY <1>1, <2>3, <2>4, <2>6, <2>7
  <1>2. MaxRetires <= 1 => (Kempt /\ [Next]_vars =>
          [container /\ ~container' => disk.progress \in Over]_vars)
    BY <1>1
  <1>3. ASSUME MaxRetires <= 1 PROVE Spec => DiscardAfterVerdict
    BY <1>2, <1>3, PromisesInvariance, PTL DEF Spec, DiscardAfterVerdict
  <1>. QED  BY <1>3

----------------------------------------------------------------------------
(* Handed over once.  p is how often each message was put to the agent, n  *)
(* how many have been said, j the record in memory, t the turn, w what     *)
(* waits on a thread, and q, o, d the writes in flight, what the world has *)
(* been asked for and the disk.                                            *)

Awaiting(j) == {j.mail[i] : i \in j.given + 1..Len(j.mail)}

(* A message put to the agent waits in no record a crash could bring back. *)
Settled(p, n, j, q, d) ==
  \A m \in Message : p[m] > 0 =>
    /\ p[m] = 1 /\ m <= n
    /\ m \notin Awaiting(j)
    /\ \A k \in 0..Len(q) : m \notin Awaiting(RecordAt(q, d, k))

(* The i-th record and all after it say that the message was given.        *)
Since(m, i, q, d) == \A k \in i..Len(q) : m \in InHand(RecordAt(q, d, k))

(* A turn not yet talking has still to put its question, which is recorded *)
(* as given wherever its next command could leave from.                    *)
Asks(p, t, j, q, o, d) ==
  t.stage \in Commanding \union {"Opening"} /\ t.question # NoMessage =>
    /\ p[t.question] = 0 /\ t.question \in InHand(j)
    /\ t.stage = "Opening" => Since(t.question, 0, q, d)
    /\ \A i \in Places(Step, q, o) : Since(t.question, i, q, d)

(* What waits on a thread was given last, and a thread is being read in a  *)
(* place that knows it.                                                    *)
ReadFor(j, q, o, d) ==
  \E i \in 0..Len(q) : At(q, o, i) \intersect Reads # {} /\ Since(LastGiven(j), i, q, d)

(* What is being handed over is the last given, and has still to be put.   *)
Hands(p, t, w, j, q, o, d) ==
  /\ t.delivery = "InFlight" =>
       t.stage \in {"Prompting", "Closing"} /\ j.given > 0 /\ p[LastGiven(j)] = 0
  /\ w = "Job" => j.given > 0 /\ p[LastGiven(j)] = 0
  /\ w = "Steer" =>
       t.delivery = "InFlight" /\ ~t.steering /\ LastGiven(j) \in Threaded
  /\ w # "None" => ReadFor(j, q, o, d)
  /\ \A m \in Message : Places(Steer(m), q, o) # {} =>
       /\ t.delivery = "InFlight" /\ t.steering /\ m = LastGiven(j)
       /\ AtMostOne(Places(Steer(m), q, o))
       /\ \A i \in Places(Steer(m), q, o) : Since(m, i, q, d)

Unstopped(t, h) == ~t.stopping /\ ~h

Clean ==
  /\ Unstopped(turn, stopsHeld)
  /\ Settled(put, said, job, deferred, disk)
  /\ Asks(put, turn, job, deferred, out, disk)
  /\ Hands(put, turn, pending, job, deferred, out, disk)

(* A stop drains an inbox under a thread still being read, and the message *)
(* that thread was for is then another turn's: of such a job this is not   *)
(* claimed.                                                                *)
Once == used.stops = 0 => Clean

Unsteering(q, o) == \A m \in Message : Places(Steer(m), q, o) = {}

----------------------------------------------------------------------------
(* What is in hand, what waits, and what moves between them.               *)

LEMMA MailShape ==
  ASSUME NEW n \in Nat, NEW j, InOrder(j, n)
  PROVE  /\ j \in Record /\ j.mail \in Seq(Message) /\ j.given \in Nat /\ Len(j.mail) \in Nat
         /\ j.given <= Len(j.mail)
         /\ \A i \in 1..Len(j.mail) : j.mail[i] \in Message
         /\ \A i, k \in 1..Len(j.mail) : i < k => j.mail[i] < j.mail[k]
         /\ \A i \in 1..Len(j.mail) : j.mail[i] <= n
  <1>1. j.mail \in Seq(Message) /\ j.given \in Nat  BY DEF InOrder, Record
  <1>2. \A i \in 1..Len(j.mail) : j.mail[i] \in Message
    BY <1>1, ElementOfSeq
  <1>. QED  BY <1>1, <1>2 DEF InOrder

LEMMA InHandOrAwaiting ==
  ASSUME NEW n \in Nat, NEW j, InOrder(j, n), NEW m \in InHand(j)
  PROVE  m \notin Awaiting(j) /\ m \in Message /\ m <= n
  <1>1. PICK i \in 1..j.given : m = j.mail[i]  BY DEF InHand
  <1>2. i \in 1..Len(j.mail)  BY MailShape
  <1>3. m \in Message /\ m <= n  BY <1>1, <1>2, MailShape
  <1>4. ASSUME NEW k \in j.given + 1..Len(j.mail) PROVE j.mail[k] # m
    <2>1. k \in 1..Len(j.mail) /\ i < k  BY MailShape
    <2>2. j.mail[i] < j.mail[k] /\ j.mail[k] \in Message
      BY <1>2, <2>1, MailShape
    <2>. QED  BY <1>1, <1>3, <2>2 DEF Message
  <1>. QED  BY <1>3, <1>4 DEF Awaiting

LEMMA LastIsInHand ==
  ASSUME NEW n \in Nat, NEW j, InOrder(j, n), j.given > 0
  PROVE  LastGiven(j) \in InHand(j) /\ LastGiven(j) \in Message
  <1>1. j.given \in 1..j.given  BY MailShape
  <1>. QED  BY <1>1, GivenIsMessage DEF LastGiven, InHand

LEMMA GiveMoves ==
  ASSUME NEW n \in Nat, NEW j, InOrder(j, n), HasNext(j)
  PROVE  /\ Give(j).given > 0
         /\ LastGiven(Give(j)) = j.mail[j.given + 1]
         /\ LastGiven(Give(j)) \in Awaiting(j)
         /\ Awaiting(Give(j)) \subseteq Awaiting(j)
         /\ InHand(j) \subseteq InHand(Give(j))
  <1>1. /\ Give(j).mail = j.mail /\ Give(j).given = j.given + 1
        /\ j.given \in Nat /\ Len(j.mail) \in Nat
    BY MailShape DEF Give, Record
  <1>2. j.given + 1 \in j.given + 1..Len(j.mail)  BY <1>1 DEF HasNext
  <1>3. /\ LastGiven(Give(j)) = j.mail[j.given + 1]
        /\ LastGiven(Give(j)) \in Awaiting(j)
    BY <1>1, <1>2 DEF LastGiven, Awaiting
  <1>4. 1..j.given \subseteq 1..Give(j).given  BY <1>1
  <1>5. (j.given + 1) + 1..Len(j.mail) \subseteq j.given + 1..Len(j.mail)  BY <1>1
  <1>. QED  BY <1>1, <1>3, <1>4, <1>5 DEF InHand, Awaiting

LEMMA HandBackMoves ==
  ASSUME NEW n \in Nat, NEW j, InOrder(j, n), j.given > 0
  PROVE  /\ Awaiting(HandBack(j)) \subseteq Awaiting(j) \union {LastGiven(j)}
         /\ HasNext(HandBack(j))
         /\ HandBack(j).mail[HandBack(j).given + 1] = LastGiven(j)
  <1>1. /\ HandBack(j).mail = j.mail /\ HandBack(j).given = j.given - 1
        /\ j.given \in Nat /\ Len(j.mail) \in Nat /\ j.given <= Len(j.mail)
    BY MailShape DEF HandBack, Record
  <1>2. \A i \in (j.given - 1) + 1..Len(j.mail) : i = j.given \/ i \in j.given + 1..Len(j.mail)
    BY <1>1
  <1>3. Awaiting(HandBack(j)) \subseteq Awaiting(j) \union {LastGiven(j)}
    BY <1>1, <1>2 DEF Awaiting, LastGiven
  <1>. QED  BY <1>1, <1>3 DEF HasNext, LastGiven

LEMMA Suffix ==
  ASSUME NEW s \in Seq(Message), NEW g \in Nat, g <= Len(s)
  PROVE  /\ SubSeq(s, g + 1, Len(s)) \in Seq(Message)
         /\ Len(SubSeq(s, g + 1, Len(s))) = Len(s) - g
         /\ \A i \in 1..Len(s) - g : SubSeq(s, g + 1, Len(s))[i] = s[g + i]
  OBVIOUS

LEMMA FinishMoves ==
  ASSUME NEW n \in Nat, NEW j, InOrder(j, n)
  PROVE  /\ Awaiting(Finish(j)) \subseteq Awaiting(j)
         /\ HasNext(j) <=> HasNext(Finish(j))
         /\ HasNext(j) =>
              Finish(j).mail[Finish(j).given + 1] = j.mail[j.given + 1]
  <1> DEFINE s == SubSeq(j.mail, j.given + 1, Len(j.mail))
  <1>1. j.mail \in Seq(Message) /\ j.given \in Nat /\ Len(j.mail) \in Nat
        /\ j.given <= Len(j.mail) /\ j \in Record
    BY MailShape
  <1>2. /\ s \in Seq(Message) /\ Len(s) = Len(j.mail) - j.given
        /\ \A i \in 1..Len(s) : s[i] = j.mail[j.given + i]
    <2>1. /\ s \in Seq(Message) /\ Len(s) = Len(j.mail) - j.given
          /\ \A i \in 1..Len(j.mail) - j.given : s[i] = j.mail[j.given + i]
      BY <1>1, Suffix, Zenon
    <2>. QED  BY <2>1
  <1>3. Finish(j).mail = s /\ Finish(j).given = 0
    BY <1>1 DEF Finish, Record
  <1> HIDE DEF s
  <1>4. \A i \in 0 + 1..Len(s) : i \in 1..Len(s) /\ j.given + i \in j.given + 1..Len(j.mail)
    BY <1>1, <1>2
  <1>5. Awaiting(Finish(j)) \subseteq Awaiting(j)
    BY <1>2, <1>3, <1>4 DEF Awaiting
  <1>6. HasNext(j) => 1 \in 1..Len(s)  BY <1>1, <1>2 DEF HasNext
  <1>. QED  BY <1>1, <1>2, <1>3, <1>5, <1>6 DEF HasNext

LEMMA ReceiveMoves ==
  ASSUME NEW n \in Nat, NEW j, InOrder(j, n), NEW m \in Message
  PROVE  /\ Awaiting(Receive(j, m)) \subseteq Awaiting(j) \union {m}
         /\ InHand(j) = InHand(Receive(j, m))
         /\ Receive(j, m).given = j.given
         /\ j.given > 0 => LastGiven(Receive(j, m)) = LastGiven(j)
  <1> DEFINE s == Append(j.mail, m)
  <1>1. /\ j.mail \in Seq(Message) /\ j.given \in Nat /\ Len(j.mail) \in Nat
        /\ j.given <= Len(j.mail) /\ j \in Record
    BY MailShape
  <1>2. /\ Len(s) = Len(j.mail) + 1
        /\ \A i \in 1..Len(j.mail) : s[i] = j.mail[i]
        /\ s[Len(j.mail) + 1] = m
    BY <1>1, AppendProperties
  <1>3. Receive(j, m).mail = s /\ Receive(j, m).given = j.given
    BY <1>1 DEF Receive, Record
  <1> HIDE DEF s
  <1>4. \A i \in j.given + 1..Len(s) :
          i = Len(j.mail) + 1 \/ (i \in j.given + 1..Len(j.mail) /\ i \in 1..Len(j.mail))
    BY <1>1, <1>2
  <1>5. Awaiting(Receive(j, m)) \subseteq Awaiting(j) \union {m}
    BY <1>2, <1>3, <1>4 DEF Awaiting
  <1>6. \A i \in 1..j.given : i \in 1..Len(j.mail)  BY <1>1
  <1>. QED  BY SMTT(30), <1>1, <1>2, <1>3, <1>5, <1>6 DEF InHand, LastGiven

\* A record changed in its progress or room alone.
LEMMA SameMail ==
  ASSUME NEW j, NEW k, k.mail = j.mail, k.given = j.given
  PROVE  /\ Awaiting(k) = Awaiting(j) /\ InHand(k) = InHand(j)
         /\ LastGiven(k) = LastGiven(j) /\ HasNext(k) = HasNext(j)
  BY DEF Awaiting, InHand, LastGiven, HasNext

LEMMA DrainEmpties ==
  ASSUME NEW n \in Nat, NEW j, InOrder(j, n)
  PROVE  Awaiting(Drain(j)) = {} /\ Drain(j).mail = <<>> /\ Drain(j).given = 0
  <1>1. Drain(j).mail = <<>> /\ Drain(j).given = 0
    BY MailShape DEF Drain, Record
  <1>2. 0 + 1..Len(<<>>) = {}  BY EmptySeq
  <1>. QED  BY <1>1, <1>2 DEF Awaiting

----------------------------------------------------------------------------
(* What was recorded since a place in the queue stays so, as it moves.     *)

LEMMA WriteSince ==
  ASSUME NEW q \in Seq(Deferred), NEW o, NEW E \in SUBSET Effect,
         job' \in Record, Write(q, o, E), NEW d, NEW m, m \in InHand(job')
  PROVE  /\ \A i \in 0..Len(q) : Since(m, i, q, d) => Since(m, i, deferred', d)
         /\ Since(m, Len(q) + 1, deferred', d)
  <1>1. /\ Len(q) \in Nat /\ Len(deferred') = Len(q) + 1
        /\ \A k \in 0..Len(q) : RecordAt(deferred', d, k) = RecordAt(q, d, k)
        /\ RecordAt(deferred', d, Len(q) + 1) = job'
    BY WritePlaces
  <1>2. \A i \in 0..Len(q) : \A k \in i..Len(q) + 1 : k = Len(q) + 1 \/ k \in i..Len(q)
    BY <1>1
  <1>3. \A i \in 0..Len(q) : \A k \in i..Len(q) : k \in 0..Len(q)
    BY <1>1
  <1>4. \A k \in Len(q) + 1..Len(q) + 1 : k = Len(q) + 1  BY <1>1
  <1>. QED  BY <1>1, <1>2, <1>3, <1>4 DEF Since

LEMMA WriteSettled ==
  ASSUME NEW q \in Seq(Deferred), NEW o, NEW E \in SUBSET Effect,
         job' \in Record, Write(q, o, E), NEW d,
         NEW p, NEW n, NEW j, Settled(p, n, j, q, d),
         \A m \in Message : p[m] > 0 => m \notin Awaiting(job')
  PROVE  Settled(p, n, job', deferred', d)
  <1>1. /\ Len(q) \in Nat /\ Len(deferred') = Len(q) + 1
        /\ \A k \in 0..Len(q) : RecordAt(deferred', d, k) = RecordAt(q, d, k)
        /\ RecordAt(deferred', d, Len(q) + 1) = job'
    BY WritePlaces
  <1>2. \A k \in 0..Len(q) + 1 : k = Len(q) + 1 \/ k \in 0..Len(q)
    BY <1>1
  <1>. QED  BY <1>1, <1>2 DEF Settled

\* The records of two queues are the same.
LEMMA SameSince ==
  ASSUME NEW q, NEW r, NEW d, NEW m, Len(r) = Len(q), Len(q) \in Nat,
         \A k \in 0..Len(q) : RecordAt(r, d, k) = RecordAt(q, d, k)
  PROVE  \A i \in 0..Len(q) : Since(m, i, q, d) => Since(m, i, r, d)
  <1>1. \A i \in 0..Len(q) : \A k \in i..Len(q) : k \in 0..Len(q)  OBVIOUS
  <1>. QED  BY <1>1 DEF Since

\* The oldest write lands, or is dropped.
LEMMA LandedSince ==
  ASSUME NEW q \in Seq(Deferred), q # <<>>, NEW d, NEW m
  PROVE  /\ Len(q) \in Nat \ {0} /\ Len(Tail(q)) = Len(q) - 1
         /\ \A i \in 0..Len(Tail(q)) :
              Since(m, i + 1, q, d) => Since(m, i, Tail(q), Head(q).snap)
         /\ Since(m, 0, q, d) => Since(m, 0, Tail(q), Head(q).snap)
  <1>1. /\ Len(q) \in Nat \ {0} /\ Len(Tail(q)) = Len(q) - 1
        /\ \A k \in 0..Len(Tail(q)) : RecordAt(Tail(q), Head(q).snap, k) = RecordAt(q, d, k + 1)
    BY LandedPlaces
  <1>2. \A i \in 0..Len(q) - 1 : \A k \in i..Len(q) - 1 :
          k \in 0..Len(q) - 1 /\ k + 1 \in i + 1..Len(q) /\ k + 1 \in i..Len(q)
    BY <1>1
  <1>. QED  BY <1>1, <1>2 DEF Since

LEMMA DroppedSince ==
  ASSUME NEW q \in Seq(Deferred), q # <<>>, NEW d, NEW m
  PROVE  /\ Len(q) \in Nat \ {0} /\ Len(Tail(q)) = Len(q) - 1
         /\ \A i \in 1..Len(Tail(q)) : Since(m, i + 1, q, d) => Since(m, i, Tail(q), d)
         /\ Since(m, 0, q, d) => Since(m, 0, Tail(q), d)
  <1>1. /\ Len(q) \in Nat \ {0} /\ Len(Tail(q)) = Len(q) - 1
        /\ \A k \in 1..Len(Tail(q)) : RecordAt(Tail(q), d, k) = RecordAt(q, d, k + 1)
    BY DroppedPlaces
  <1>2. RecordAt(Tail(q), d, 0) = RecordAt(q, d, 0)  BY DEF RecordAt
  <1>3. \A i \in 1..Len(q) - 1 : \A k \in i..Len(q) - 1 :
          k \in 1..Len(q) - 1 /\ k + 1 \in i + 1..Len(q)
    BY <1>1
  <1>4. \A k \in 0..Len(q) - 1 :
          k = 0 \/ (k \in 1..Len(q) - 1 /\ k + 1 \in 0..Len(q))
    BY <1>1
  <1>5. 0 \in 0..Len(q)  BY <1>1
  <1>. QED  BY <1>1, <1>2, <1>3, <1>4, <1>5 DEF Since

LEMMA LandedSettled ==
  ASSUME NEW q \in Seq(Deferred), q # <<>>, NEW d,
         NEW p, NEW n, NEW j, Settled(p, n, j, q, d)
  PROVE  Settled(p, n, j, Tail(q), Head(q).snap)
  <1>1. /\ Len(q) \in Nat \ {0} /\ Len(Tail(q)) = Len(q) - 1
        /\ \A k \in 0..Len(Tail(q)) : RecordAt(Tail(q), Head(q).snap, k) = RecordAt(q, d, k + 1)
    BY LandedPlaces
  <1>2. \A k \in 0..Len(q) - 1 : k + 1 \in 0..Len(q)  BY <1>1
  <1>. QED  BY <1>1, <1>2 DEF Settled

LEMMA DroppedSettled ==
  ASSUME NEW q \in Seq(Deferred), q # <<>>, NEW d,
         NEW p, NEW n, NEW j, Settled(p, n, j, q, d)
  PROVE  Settled(p, n, j, Tail(q), d)
  <1>1. /\ Len(q) \in Nat \ {0} /\ Len(Tail(q)) = Len(q) - 1
        /\ \A k \in 1..Len(Tail(q)) : RecordAt(Tail(q), d, k) = RecordAt(q, d, k + 1)
    BY DroppedPlaces
  <1>2. RecordAt(Tail(q), d, 0) = RecordAt(q, d, 0)  BY DEF RecordAt
  <1>3. \A k \in 0..Len(q) - 1 : k = 0 \/ (k \in 1..Len(q) - 1 /\ k + 1 \in 0..Len(q))
    BY <1>1
  <1>4. 0 \in 0..Len(q)  BY <1>1
  <1>. QED  BY <1>1, <1>2, <1>3, <1>4 DEF Settled

LEMMA SameSettled ==
  ASSUME NEW q, NEW r, NEW d, Len(r) = Len(q),
         \A k \in 0..Len(q) : RecordAt(r, d, k) = RecordAt(q, d, k),
         NEW p, NEW n, NEW j, Settled(p, n, j, q, d)
  PROVE  Settled(p, n, j, r, d)
  BY DEF Settled

----------------------------------------------------------------------------
(* What is asked and handed over, under the ways a step ends.              *)

LEMMA QuietHands ==
  ASSUME NEW p, NEW t, NEW j, NEW q, NEW o, NEW d,
         t.delivery # "InFlight", Unsteering(q, o)
  PROVE  Hands(p, t, "None", j, q, o, d)
  BY DEF Hands, Unsteering

LEMMA HandsQuiet ==
  ASSUME NEW p, NEW t, NEW w, NEW j, NEW q, NEW o, NEW d,
         Hands(p, t, w, j, q, o, d),
         t.stage \notin {"Prompting", "Closing"} \/ t.delivery # "InFlight"
  PROVE  t.delivery # "InFlight" /\ Unsteering(q, o) /\ w # "Steer"
  BY DEF Hands, Unsteering

LEMMA FewerAsks ==
  ASSUME NEW p, NEW t, NEW j, NEW q, NEW o, NEW d, Asks(p, t, j, q, o, d),
         NEW u, u.stage = t.stage, u.question = t.question, NEW x, x \subseteq o
  PROVE  Asks(p, u, j, q, x, d)
  <1>1. Places(Step, q, x) \subseteq Places(Step, q, o)  BY DEF Places, At
  <1>. QED  BY <1>1 DEF Asks

LEMMA FewerHands ==
  ASSUME NEW p, NEW t, NEW w, NEW j, NEW q, NEW o, NEW d, Hands(p, t, w, j, q, o, d),
         NEW u, u.delivery = t.delivery, u.steering = t.steering,
         t.delivery = "InFlight" => u.stage \in {"Prompting", "Closing"},
         NEW x, x \subseteq o, w # "None" => x \intersect Reads = o \intersect Reads
  PROVE  Hands(p, u, w, j, q, x, d)
  <1>1. \A m : Places(Steer(m), q, x) \subseteq Places(Steer(m), q, o)
    BY DEF Places, At
  <1>2. w # "None" => \A i : At(q, x, i) \intersect Reads = At(q, o, i) \intersect Reads
    BY DEF At
  <1>3. ReadFor(j, q, o, d) /\ w # "None" => ReadFor(j, q, x, d)
    BY <1>2 DEF ReadFor
  <1>. QED  BY <1>1, <1>3 DEF Hands, AtMostOne

LEMMA WriteAsks ==
  ASSUME NEW q \in Seq(Deferred), NEW o, NEW E \in SUBSET Effect,
         job' \in Record, Write(q, o, E), Step \notin E,
         NEW p, NEW t, NEW j, NEW d, Asks(p, t, j, q, o, d),
         InHand(j) \subseteq InHand(job'),
         NEW u, u.stage = t.stage, u.question = t.question
  PROVE  Asks(p, u, job', deferred', out', d)
  <1> SUFFICES ASSUME t.stage \in Commanding \union {"Opening"}, t.question # NoMessage
               PROVE  /\ p[t.question] = 0 /\ t.question \in InHand(job')
                      /\ t.stage = "Opening" => Since(t.question, 0, deferred', d)
                      /\ \A i \in Places(Step, deferred', out') :
                           Since(t.question, i, deferred', d)
    BY DEF Asks
  <1> DEFINE m == t.question
  <1>1. /\ p[m] = 0 /\ m \in InHand(job')
        /\ t.stage = "Opening" => Since(m, 0, q, d)
        /\ \A i \in Places(Step, q, o) : Since(m, i, q, d)
    BY DEF Asks
  <1>2. Places(Step, deferred', out') = Places(Step, q, o) /\ Len(q) \in Nat
    BY WritePlaces, Kinds
  <1> HIDE DEF m
  <1>3. \A i \in 0..Len(q) : Since(m, i, q, d) => Since(m, i, deferred', d)
    BY <1>1, WriteSince
  <1>4. 0 \in 0..Len(q) /\ Places(Step, q, o) \subseteq 0..Len(q)
    BY <1>2 DEF Places
  <1>. QED  BY <1>1, <1>2, <1>3, <1>4 DEF m

LEMMA WriteHands ==
  ASSUME NEW q \in Seq(Deferred), NEW o, NEW E \in SUBSET Effect,
         job' \in Record, Write(q, o, E), \A m \in Message : Steer(m) \notin E,
         NEW p, NEW t, NEW w \in {"None", "Job", "Steer"}, NEW j, NEW d,
         Hands(p, t, w, j, q, o, d), NEW n \in Nat, InOrder(j, n),
         InHand(j) \subseteq InHand(job'), job'.given = j.given,
         j.given > 0 => LastGiven(job') = LastGiven(j),
         NEW u, u.stage = t.stage, u.delivery = t.delivery, u.steering = t.steering
  PROVE  Hands(p, u, w, job', deferred', out', d)
  <1>1. /\ Len(q) \in Nat /\ Len(deferred') = Len(q) + 1 /\ out' = o
        /\ \A m \in Message : Places(Steer(m), deferred', out') = Places(Steer(m), q, o)
        /\ \A e \in Reads : Places(e, q, o) \subseteq Places(e, deferred', out')
    BY WritePlaces, SpokenKind, ReadsKind
  <1>2. \A m \in InHand(j) : \A i \in 0..Len(q) : Since(m, i, q, d) => Since(m, i, deferred', d)
    BY WriteSince
  <1>3. w # "None" => ReadFor(job', deferred', out', d)
    <2> SUFFICES ASSUME w # "None" PROVE ReadFor(job', deferred', out', d)
      OBVIOUS
    <2>1. ReadFor(j, q, o, d) /\ j.given > 0  BY DEF Hands
    <2>2. PICK i \in 0..Len(q) :
            At(q, o, i) \intersect Reads # {} /\ Since(LastGiven(j), i, q, d)
      BY <2>1 DEF ReadFor
    <2>3. LastGiven(j) \in InHand(j)  BY <2>1, LastIsInHand
    <2>4. Since(LastGiven(job'), i, deferred', d)
      BY <1>2, <2>1, <2>2, <2>3
    <2>5. PICK e \in Reads : e \in At(q, o, i)  BY <2>2
    <2>6. i \in Places(e, deferred', out')  BY <1>1, <2>5 DEF Places
    <2>7. i \in 0..Len(deferred') /\ At(deferred', out', i) \intersect Reads # {}
      BY <2>5, <2>6 DEF Places
    <2>. QED  BY <2>4, <2>7 DEF ReadFor
  <1>4. \A m \in Message : Places(Steer(m), deferred', out') # {} =>
          /\ u.delivery = "InFlight" /\ u.steering /\ m = LastGiven(job')
          /\ AtMostOne(Places(Steer(m), deferred', out'))
          /\ \A i \in Places(Steer(m), deferred', out') : Since(m, i, deferred', d)
    <2> SUFFICES ASSUME NEW m \in Message, Places(Steer(m), q, o) # {}
                 PROVE  /\ u.delivery = "InFlight" /\ u.steering /\ m = LastGiven(job')
                        /\ AtMostOne(Places(Steer(m), q, o))
                        /\ \A i \in Places(Steer(m), q, o) : Since(m, i, deferred', d)
      BY <1>1
    <2>1. /\ t.delivery = "InFlight" /\ t.steering /\ m = LastGiven(j) /\ j.given > 0
          /\ AtMostOne(Places(Steer(m), q, o))
          /\ \A i \in Places(Steer(m), q, o) : Since(m, i, q, d)
      BY DEF Hands
    <2>2. m \in InHand(j)  BY <2>1, LastIsInHand
    <2>3. Places(Steer(m), q, o) \subseteq 0..Len(q)  BY DEF Places
    <2>. QED  BY <1>2, <2>1, <2>2, <2>3
  <1>. QED  BY <1>3, <1>4 DEF Hands

\* Where a thread is read for what was given last, the last record knows it.
LEMMA LastRecordKnows ==
  ASSUME NEW j, NEW q, NEW o, NEW d, ReadFor(j, q, o, d), Len(q) \in Nat
  PROVE  Since(LastGiven(j), Len(q), q, d)
  BY DEF ReadFor, Since


----------------------------------------------------------------------------
(* Starting a turn, handing a message to one, and ending one.              *)

\* A question, or a thread to be read for one, is recorded as it is asked.
LEMMA StartGivenOnce ==
  ASSUME NEW n \in Nat, NEW p, NEW j, InOrder(j, n), j.given > 0,
         p[LastGiven(j)] = 0,
         \A m \in Message : p[m] > 0 => m \notin Awaiting(j),
         NEW q \in Seq(Deferred), NEW o, NEW E \in SUBSET Effect, Still(q, o),
         \A m \in Message : Steer(m) \notin E, Step \notin E,
         Unsteering(q, o), NEW i, NEW k, Settled(p, i, k, q, disk),
         pending = "None" \/ LastGiven(j) \in Threaded, ~stopsHeld,
         StartGiven(j, q, o, E)
  PROVE  /\ Unstopped(turn', stopsHeld')
         /\ Settled(p, i, job', deferred', disk)
         /\ Asks(p, turn', job', deferred', out', disk)
         /\ Hands(p, turn', pending', job', deferred', out', disk)
  <1> DEFINE m == LastGiven(j)
  <1>1. m \in InHand(j) /\ m \in Message  BY LastIsInHand
  <1>2. job' = j /\ job' \in Record /\ Len(q) \in Nat
    BY MailShape DEF StartGiven
  <1>3. CASE m \in Threaded
    <2>1. /\ pending' = "Job" /\ turn' = NoTurn /\ stopsHeld' = stopsHeld
          /\ Write(q, o, E \union {Start(m)})
      BY <1>3 DEF StartGiven
    <2> DEFINE F == E \union {Start(m)}
    <2>2. F \in SUBSET Effect /\ Start(m) \in F /\ Start(m) \in Reads
          /\ \A k2 \in Message : Steer(k2) \notin F
      BY <1>1, ReadsKind, SpokenKind
    <2> HIDE DEF F
    <2>3. Write(q, o, F)  BY <2>1 DEF F
    <2>4. Settled(p, i, job', deferred', disk)
      BY <1>2, <2>2, <2>3, WriteSettled
    <2>5. /\ Len(deferred') = Len(q) + 1
          /\ Unsteering(deferred', out')
          /\ Len(q) + 1 \in Places(Start(m), deferred', out')
      BY <1>2, <2>2, <2>3, WritePlaces, SpokenKind, ReadsKind DEF Unsteering
    <2>6. Since(m, Len(q) + 1, deferred', disk)
      BY <1>1, <1>2, <2>2, <2>3, WriteSince
    <2>7. ReadFor(job', deferred', out', disk)
      BY <1>2, <2>2, <2>5, <2>6 DEF ReadFor, Places
    <2>8. /\ turn'.stage = "None" /\ turn'.delivery = "Open" /\ ~turn'.stopping
      BY <2>1 DEF NoTurn
    <2>9. Asks(p, turn', job', deferred', out', disk)
      BY <2>8 DEF Asks, Commanding
    <2>10. Hands(p, turn', pending', job', deferred', out', disk)
      BY <1>2, <2>1, <2>5, <2>7, <2>8 DEF Hands, Unsteering
    <2>. QED  BY <2>1, <2>4, <2>8, <2>9, <2>10 DEF Unstopped
  <1>4. CASE m \notin Threaded
    <2>1. /\ pending' = "None" /\ turn' = Resumed(m, read) /\ stopsHeld' = FALSE
          /\ Write(q, o, E \union {Step})
      BY <1>4 DEF StartGiven, Registered
    <2> DEFINE F == E \union {Step}
    <2>2. F \in SUBSET Effect /\ Step \in F
          /\ \A k2 \in Message : Steer(k2) \notin F
      BY Kinds, SpokenKind
    <2> HIDE DEF F
    <2>3. Write(q, o, F)  BY <2>1 DEF F
    <2>4. Settled(p, i, job', deferred', disk)
      BY <1>2, <2>2, <2>3, WriteSettled
    <2>5. /\ Unsteering(deferred', out')
          /\ Places(Step, deferred', out') = {Len(q) + 1}
      BY <1>2, <2>2, <2>3, WritePlaces, SpokenKind, Kinds DEF Unsteering, Still
    <2>6. Since(m, Len(q) + 1, deferred', disk)
      BY <1>1, <1>2, <2>2, <2>3, WriteSince
    <2>7. /\ turn'.stage = "Starting" /\ turn'.delivery = "Open" /\ ~turn'.stopping
          /\ turn'.question = m
      BY <2>1 DEF NoTurn, Resumed
    <2>8. Asks(p, turn', job', deferred', out', disk)
      BY <1>1, <1>2, <2>5, <2>6, <2>7 DEF Asks
    <2>9. Hands(p, turn', "None", job', deferred', out', disk)
      BY <2>5, <2>7, QuietHands
    <2>. QED  BY <2>1, <2>4, <2>7, <2>8, <2>9 DEF Unstopped
  <1>. QED  BY <1>3, <1>4

\* So is a message handed to the turn t.
LEMMA DeliverOnce ==
  ASSUME NEW n \in Nat, NEW p \in [Message -> Nat], NEW j, InOrder(j, n), HasNext(j),
         \A m \in Message : p[m] > 0 => m \notin Awaiting(j),
         deferred \in Seq(Deferred), NEW o, NEW E \in SUBSET Effect,
         \A m \in Message : Steer(m) \notin E,
         Unsteering(deferred, o), NEW i, NEW k, Settled(p, i, k, deferred, disk),
         pending = "None", ~stopsHeld,
         NEW t \in Turn, t.stage = "Prompting", ~t.steering, ~t.stopping,
         Deliver(j, t, o, E)
  PROVE  /\ Unstopped(turn', stopsHeld') /\ turn'.stage = "Prompting"
         /\ Settled(p, i, job', deferred', disk)
         /\ Hands(p, turn', pending', job', deferred', out', disk)
  <1> DEFINE m == j.mail[j.given + 1]
  <1>1. /\ m = LastGiven(Give(j)) /\ m \in Awaiting(j) /\ Give(j).given > 0
        /\ Awaiting(Give(j)) \subseteq Awaiting(j)
    BY GiveMoves
  <1>2. m \in InHand(Give(j)) /\ m \in Message
    BY <1>1, GiveInOrder, LastIsInHand
  <1>3. p[m] = 0  BY <1>1, <1>2
  <1>4. /\ job' = Give(j) /\ stopsHeld' = stopsHeld /\ Len(deferred) \in Nat
        /\ job' \in Record
    BY GiveInOrder, MailShape DEF Deliver
  <1>5. \A k2 \in Message : p[k2] > 0 => k2 \notin Awaiting(job')
    BY <1>1, <1>4
  <1>6. CASE m \in Threaded
    <2>1. /\ pending' = "Steer" /\ turn' = [t EXCEPT !.delivery = "InFlight"]
          /\ Write(deferred, o, E \union {Hand(m)})
      BY <1>6 DEF Deliver
    <2> DEFINE F == E \union {Hand(m)}
    <2>2. F \in SUBSET Effect /\ Hand(m) \in F /\ Hand(m) \in Reads
          /\ \A k2 \in Message : Steer(k2) \notin F
      BY <1>2, ReadsKind, SpokenKind
    <2> HIDE DEF F, m
    <2>3. Write(deferred, o, F)  BY <2>1 DEF F
    <2>4. Settled(p, i, job', deferred', disk)
      BY <1>4, <1>5, <2>2, <2>3, WriteSettled
    <2>5. /\ Len(deferred') = Len(deferred) + 1
          /\ Unsteering(deferred', out')
          /\ Len(deferred) + 1 \in Places(Hand(m), deferred', out')
      BY <1>4, <2>2, <2>3, WritePlaces, SpokenKind, ReadsKind DEF Unsteering
    <2>6. Since(m, Len(deferred) + 1, deferred', disk)
      BY <1>2, <1>4, <2>2, <2>3, WriteSince
    <2>7. ReadFor(job', deferred', out', disk)
      BY <1>1, <1>4, <2>2, <2>5, <2>6 DEF ReadFor, Places
    <2>8. /\ turn'.stage = "Prompting" /\ turn'.delivery = "InFlight"
          /\ ~turn'.stopping /\ ~turn'.steering
      BY <2>1 DEF Turn
    <2>9. Hands(p, turn', pending', job', deferred', out', disk)
      BY <1>1, <1>3, <1>4, <1>6, <2>1, <2>5, <2>7, <2>8 DEF Hands, Unsteering
    <2>. QED  BY <1>4, <2>4, <2>8, <2>9 DEF Unstopped
  <1>7. CASE m \notin Threaded
    <2>1. /\ pending' = "None"
          /\ turn' = [t EXCEPT !.delivery = "InFlight", !.steering = TRUE]
          /\ Write(deferred, o, E \union {Steer(m)})
      BY <1>7 DEF Deliver
    <2> DEFINE F == E \union {Steer(m)}
    <2>2. F \in SUBSET Effect /\ Steer(m) \in F
          /\ \A k2 \in Message : k2 # m => Steer(k2) \notin F
      BY <1>2, SpokenKind DEF Steer
    <2> HIDE DEF F, m
    <2>3. Write(deferred, o, F)  BY <2>1 DEF F
    <2>4. Settled(p, i, job', deferred', disk)
      BY <1>4, <1>5, <2>2, <2>3, WriteSettled
    <2>5. /\ Places(Steer(m), deferred', out') = {Len(deferred) + 1}
          /\ \A k2 \in Message : k2 # m => Places(Steer(k2), deferred', out') = {}
      BY <1>2, <1>4, <2>2, <2>3, WritePlaces, SpokenKind DEF Unsteering
    <2>6. Since(m, Len(deferred) + 1, deferred', disk)
      BY <1>2, <1>4, <2>2, <2>3, WriteSince
    <2>7. /\ turn'.stage = "Prompting" /\ turn'.delivery = "InFlight"
          /\ ~turn'.stopping /\ turn'.steering
      BY <2>1 DEF Turn
    <2>8. Hands(p, turn', pending', job', deferred', out', disk)
      BY <1>1, <1>3, <1>4, <2>1, <2>5, <2>6, <2>7 DEF Hands, AtMostOne
    <2>. QED  BY <1>4, <2>4, <2>7, <2>8 DEF Unstopped
  <1>. QED  BY <1>6, <1>7


\* A turn that ends puts back what it was still handing over, and starts the
\* next on what waits; a thread read for a message put back is waited for by
\* the turn it starts.
LEMMA EndedOnce ==
  ASSUME NEW n \in Nat, Kept(n), ~turn.stopping, ~stopsHeld,
         put \in [Message -> Nat], NEW answered \in BOOLEAN, NEW o \in SUBSET Effect,
         Still(deferred, o), pending # "Job",
         Settled(put, said, job, deferred, disk),
         Hands(put, turn, pending, job, deferred, out, disk),
         Ended(answered, o)
  PROVE  /\ Unstopped(turn', stopsHeld')
         /\ Settled(put, said, job', deferred', disk)
         /\ Asks(put, turn', job', deferred', out', disk)
         /\ Hands(put, turn', pending', job', deferred', out', disk)
  <1> DEFINE back == IF turn.delivery = "InFlight" THEN HandBack(job) ELSE job
             left == [Finish(back) EXCEPT !.progress = Outcome(turn, answered)]
             q    == Unspoken(deferred)
             u    == Unsteered(o)
             next == [Give(left) EXCEPT !.progress = "Working"]
  <1>1. InOrder(job, n) /\ deferred \in Seq(Deferred)  BY DEF Kept, Queue
  <1>2. /\ InOrder(back, n)
        /\ \A m \in Message : put[m] > 0 => m \notin Awaiting(back)
        /\ turn.delivery = "InFlight" =>
             HasNext(back) /\ back.mail[back.given + 1] = LastGiven(job)
    <2>1. CASE turn.delivery = "InFlight"
      <3>1. job.given > 0 /\ put[LastGiven(job)] = 0  BY <2>1 DEF Hands
      <3>2. /\ Awaiting(HandBack(job)) \subseteq Awaiting(job) \union {LastGiven(job)}
            /\ HasNext(HandBack(job))
            /\ HandBack(job).mail[HandBack(job).given + 1] = LastGiven(job)
        BY <1>1, <3>1, HandBackMoves
      <3>3. InOrder(HandBack(job), n)  BY <1>1, HandBackInOrder
      <3>. QED  BY <2>1, <3>1, <3>2, <3>3 DEF Settled
    <2>2. CASE turn.delivery # "InFlight"
      BY <1>1, <2>2 DEF Settled
    <2>. QED  BY <2>1, <2>2
  <1> HIDE DEF back
  <1>3. /\ InOrder(Finish(back), n)
        /\ Awaiting(Finish(back)) \subseteq Awaiting(back)
        /\ HasNext(back) =>
             /\ HasNext(Finish(back))
             /\ Finish(back).mail[Finish(back).given + 1] = back.mail[back.given + 1]
    BY <1>2, FinishInOrder, FinishMoves
  <1>4. /\ InOrder(left, n)
        /\ left.mail = Finish(back).mail /\ left.given = Finish(back).given
    <2>1. Outcome(turn, answered) \in Progress  BY OutcomeTyped DEF Kept
    <2>2. InOrder(left, n)  BY <1>3, <2>1, ProgressInOrder
    <2>. QED  BY <1>3, <2>2 DEF InOrder, Record
  <1>5. /\ \A m \in Message : put[m] > 0 => m \notin Awaiting(left)
        /\ turn.delivery = "InFlight" =>
             HasNext(left) /\ left.mail[left.given + 1] = LastGiven(job)
    BY <1>2, <1>3, <1>4, SameMail
  <1>6. /\ q \in Seq(Deferred) /\ Len(q) = Len(deferred)
        /\ \A d, k : k \in 0..Len(deferred) => RecordAt(q, d, k) = RecordAt(deferred, d, k)
    BY <1>1, UnspokenPlaces
  <1>7. Unsteering(q, u)  BY <1>1, UnspokenPlaces, SpokenKind DEF Unsteering
  <1>8. Still(q, u)  BY <1>1, UnspokenStill
  <1>9. Settled(put, said, job, q, disk)  BY <1>6, SameSettled
  <1>10. pending = "Steer" =>
           HasNext(left) /\ left.mail[left.given + 1] \in Threaded
    BY <1>5 DEF Hands
  <1>11. CASE ~HasNext(left)
    <2>1. /\ job' = left /\ turn' = NoTurn /\ stopsHeld' = stopsHeld
          /\ pending' = pending /\ Write(q, u, {})
      BY <1>11 DEF Ended, back
    <2> HIDE DEF left, q, u
    <2>2. {} \in SUBSET Effect /\ job' \in Record  BY <1>4, <2>1, MailShape
    <2>3. Settled(put, said, job', deferred', disk)
      BY <1>5, <1>6, <1>9, <2>1, <2>2, WriteSettled
    <2>4. Unsteering(deferred', out')
      BY <1>6, <1>7, <2>1, <2>2, WritePlaces, SpokenKind DEF Unsteering
    <2>5. /\ turn'.stage = "None" /\ turn'.delivery = "Open" /\ ~turn'.stopping
      BY <2>1 DEF NoTurn
    <2>6. pending' = "None"  BY <1>10, <1>11, <2>1 DEF Kept
    <2>7. Hands(put, turn', "None", job', deferred', out', disk)
      BY <2>4, <2>5, QuietHands
    <2>8. Asks(put, turn', job', deferred', out', disk)
      BY <2>5 DEF Asks, Commanding
    <2>. QED  BY <2>1, <2>3, <2>5, <2>6, <2>7, <2>8 DEF Unstopped
  <1>12. CASE HasNext(left)
    <2>1. StartGiven(next, q, u, {})  BY <1>12 DEF Ended, back
    <2> HIDE DEF left, q, u
    <2>2. /\ InOrder(Give(left), n) /\ Give(left).given > 0
          /\ LastGiven(Give(left)) = left.mail[left.given + 1]
          /\ LastGiven(Give(left)) \in Awaiting(left)
          /\ Awaiting(Give(left)) \subseteq Awaiting(left)
      BY <1>4, <1>12, GiveMoves, GiveInOrder
    <2>3. /\ InOrder(next, n) /\ next.mail = Give(left).mail /\ next.given = Give(left).given
      <3>1. InOrder(next, n)  BY <2>2, ProgressInOrder DEF Progress
      <3>. QED  BY <2>2, <3>1 DEF InOrder, Record
    <2> HIDE DEF next
    <2>4. /\ next.given > 0 /\ LastGiven(next) = left.mail[left.given + 1]
          /\ LastGiven(next) \in Awaiting(left)
          /\ Awaiting(next) \subseteq Awaiting(left)
      BY <2>2, <2>3, SameMail
    <2>5. LastGiven(next) \in Message  BY <2>3, <2>4, LastIsInHand
    <2>6. put[LastGiven(next)] = 0  BY <1>5, <2>4, <2>5
    <2>7. pending = "None" \/ LastGiven(next) \in Threaded
      BY <1>10, <2>4 DEF Kept
    <2>8. {} \in SUBSET Effect  OBVIOUS
    <2>. QED  BY <1>5, <1>6, <1>7, <1>8, <1>9, <2>1, <2>3, <2>4, <2>6, <2>7, <2>8, StartGivenOnce
  <1>. QED  BY <1>11, <1>12

\* A line is heard, and what waits may be handed over.
LEMMA HandedOnOnce ==
  ASSUME NEW n \in Nat, Kept(n), NEW p \in [Message -> Nat],
         NEW o \in SUBSET Effect, NEW i, Settled(p, i, job, deferred, disk),
         ~stopsHeld, NEW t \in Turn, t.stage = "Prompting", ~t.stopping,
         Hands(p, t, pending, job, deferred, o, disk),
         HandedOn(t, o)
  PROVE  /\ Unstopped(turn', stopsHeld') /\ turn'.stage = "Prompting"
         /\ Settled(p, i, job', deferred', disk)
         /\ Asks(p, turn', job', deferred', out', disk)
         /\ Hands(p, turn', pending', job', deferred', out', disk)
  <1>1. /\ Unstopped(turn', stopsHeld') /\ turn'.stage = "Prompting"
        /\ Settled(p, i, job', deferred', disk)
        /\ Hands(p, turn', pending', job', deferred', out', disk)
    <2>1. CASE Deliverable(job, t)
      <3>1. /\ HasNext(job) /\ Deliver(job, t, o, {}) /\ pending = "None"
            /\ t.delivery # "InFlight" /\ ~t.steering
        BY <2>1 DEF HandedOn, Deliverable, CanSteer
      <3>2. Unsteering(deferred, o)  BY <3>1, HandsQuiet
      <3>3. {} \in SUBSET Effect  OBVIOUS
      <3>4. InOrder(job, n) /\ deferred \in Seq(Deferred)  BY DEF Kept, Queue
      <3>5. \A m \in Message : p[m] > 0 => m \notin Awaiting(job)  BY DEF Settled
      <3>. QED  BY <3>1, <3>2, <3>3, <3>4, <3>5, DeliverOnce
    <2>2. CASE ~Deliverable(job, t)
      <3>1. turn' = t /\ out' = o /\ UNCHANGED <<job, stopsHeld, pending, deferred>>
        BY <2>2 DEF HandedOn
      <3>. QED  BY <3>1 DEF Unstopped
    <2>. QED  BY <2>1, <2>2
  <1>2. Asks(p, turn', job', deferred', out', disk)
    BY <1>1 DEF Asks, Commanding
  <1>. QED  BY <1>1, <1>2

----------------------------------------------------------------------------
(* The invariant, action by action.                                        *)

LEMMA KemptHolds ==
  ASSUME Kempt
  PROVE  /\ said \in Nat /\ Kept(said) /\ InOrder(job, said) /\ InOrder(disk, said)
         /\ deferred \in Seq(Deferred) /\ out \in SUBSET Effect
         /\ Len(deferred) \in Nat
         /\ put \in [Message -> Nat] /\ turn \in Turn
         /\ pending \in {"None", "Job", "Steer"}
         /\ job.progress # "Working" => turn.stage = "None" /\ pending # "Job"
         /\ turn.stage \in Commanding <=> Places(Step, deferred, out) # {}
         /\ AtMostOne(Places(Step, deferred, out))
         /\ Places(MakeRoom, deferred, out) # {} =>
              job.progress = "Working" /\ turn.stage = "None" /\ pending = "None"
         /\ pending = "Job" => turn.stage = "None" /\ job.progress = "Working"
         /\ used.stops \in Nat
  BY DEF Kempt, Inv, Kept, Queue, Looping, Stands

LEMMA EffectsApart ==
  /\ \A m \in Message : Steer(m) \notin {MakeRoom, Discard, Step, Seen(m)}
  /\ \A m, k \in Message : Steer(m) # Seen(k)
  /\ \A m \in Message : Seen(m) # Step
  BY DEF Steer, Seen, MakeRoom, Discard, Step

\* With no turn, nothing is being handed over.
LEMMA AtRest ==
  ASSUME Kempt, Clean, turn.stage = "None"
  PROVE  /\ turn.delivery # "InFlight" /\ Unsteering(deferred, out) /\ pending # "Steer"
         /\ Places(Step, deferred, out) = {}
         /\ job.progress # "Working" => pending = "None" /\ Still(deferred, out)
  <1>1. turn.delivery # "InFlight" /\ Unsteering(deferred, out) /\ pending # "Steer"
    BY HandsQuiet DEF Clean
  <1>2. Places(Step, deferred, out) = {}  BY KemptHolds DEF Commanding
  <1>. QED  BY <1>1, <1>2, KemptHolds DEF Still

\* A turn with nothing in hand to be put is asked for nothing.
LEMMA RestClean ==
  ASSUME Unstopped(turn', stopsHeld'), Settled(put', said', job', deferred', disk'),
         turn'.stage \notin Commanding \union {"Opening"} \/ turn'.question = NoMessage,
         turn'.delivery # "InFlight", Unsteering(deferred', out'), pending' = "None"
  PROVE  Clean'
  <1>1. Asks(put', turn', job', deferred', out', disk')  BY DEF Asks
  <1>2. Hands(put', turn', pending', job', deferred', out', disk')  BY QuietHands
  <1>. QED  BY <1>1, <1>2 DEF Clean

\* A write that leaves what is in hand, and the turn, as they were.
LEMMA WriteClean ==
  ASSUME Kempt, Clean, job' \in Record, NEW E \in SUBSET Effect,
         Write(deferred, out, E), Step \notin E, \A m \in Message : Steer(m) \notin E,
         InHand(job) \subseteq InHand(job'), job'.given = job.given,
         job.given > 0 => LastGiven(job') = LastGiven(job),
         \A m \in Message : put[m] > 0 => m \notin Awaiting(job'),
         UNCHANGED <<turn, stopsHeld, pending, put, disk>>,
         said' \in Nat, said <= said'
  PROVE  Clean'
  <1>1. /\ deferred \in Seq(Deferred) /\ InOrder(job, said) /\ said \in Nat
        /\ pending \in {"None", "Job", "Steer"}
    BY KemptHolds
  <1>2. Settled(put, said, job', deferred', disk)
    BY <1>1, WriteSettled DEF Clean
  <1>3. Settled(put, said', job', deferred', disk)
    BY <1>1, <1>2 DEF Settled, Message
  <1>4. Asks(put, turn, job', deferred', out', disk)
    BY <1>1, WriteAsks DEF Clean
  <1>5. Hands(put, turn, pending, job', deferred', out', disk)
    BY <1>1, WriteHands DEF Clean
  <1>. QED  BY <1>3, <1>4, <1>5 DEF Clean

\* Nothing moves but what the world owes, which shrinks by no thread.
LEMMA TakenClean ==
  ASSUME Kempt, Clean, out' \subseteq out,
         pending # "None" => out' \intersect Reads = out \intersect Reads,
         turn'.stage = turn.stage, turn'.question = turn.question,
         turn'.delivery = turn.delivery, turn'.steering = turn.steering,
         ~turn'.stopping,
         UNCHANGED <<job, stopsHeld, pending, deferred, put, disk, said>>
  PROVE  Clean'
  <1>1. Asks(put, turn', job, deferred, out', disk)
    BY FewerAsks DEF Clean
  <1>2. turn.delivery = "InFlight" => turn'.stage \in {"Prompting", "Closing"}
    BY DEF Clean, Hands
  <1>3. Hands(put, turn', pending, job, deferred, out', disk)
    BY <1>2, FewerHands DEF Clean
  <1>. QED  BY <1>1, <1>3 DEF Clean, Unstopped

LEMMA SayClean == Kempt /\ Clean /\ Say => Clean'
  <1> SUFFICES ASSUME Kempt, Clean, Say PROVE Clean'
    OBVIOUS
  <1> DEFINE m == said + 1
             j == Receive(job, m)
  <1>1. /\ m \in Message /\ said' = m
        /\ UNCHANGED <<disk, put>>
    BY DEF Say
  <1>2. /\ InOrder(job, said) /\ said \in Nat /\ deferred \in Seq(Deferred)
        /\ put \in [Message -> Nat] /\ turn \in Turn /\ out \in SUBSET Effect
    BY KemptHolds
  <1>3. /\ Awaiting(j) \subseteq Awaiting(job) \union {m}
        /\ InHand(job) = InHand(j) /\ j.given = job.given
        /\ job.given > 0 => LastGiven(j) = LastGiven(job)
        /\ InOrder(j, m)
    BY <1>1, <1>2, ReceiveMoves, ReceiveInOrder
  <1>4. \A k \in Message : put[k] > 0 => k <= said /\ k \notin Awaiting(job)
    BY DEF Clean, Settled
  <1>5. \A k \in Message : put[k] > 0 => k \notin Awaiting(j)
    BY <1>2, <1>3, <1>4 DEF Message
  <1>6. /\ {Seen(m)} \in SUBSET Effect /\ Step \notin {Seen(m)}
        /\ \A k \in Message : Steer(k) \notin {Seen(m)}
    BY <1>1, SpokenKind, EffectsApart
  <1>7. Settled(put, m, job, deferred, disk)
    BY <1>2 DEF Clean, Settled, Message
  <1>8. ~stopsHeld /\ ~turn.stopping  BY DEF Clean, Unstopped
  <1> HIDE DEF m, j
  <1>9. CASE job.progress = "Working" /\ Deliverable(j, turn)
    <2>1. Deliver(j, turn, out, {Seen(m)})  BY <1>9 DEF Say, Idle, Over, m, j
    <2>2. /\ HasNext(j) /\ pending = "None" /\ turn.delivery # "InFlight"
          /\ turn.stage = "Prompting" /\ ~turn.steering
      BY <1>9 DEF Deliverable, CanSteer
    <2>3. Unsteering(deferred, out)  BY <2>2, HandsQuiet DEF Clean
    <2>4. m \in Nat  BY <1>1 DEF Message
    <2>5. /\ Unstopped(turn', stopsHeld') /\ turn'.stage = "Prompting"
          /\ Settled(put, m, job', deferred', disk)
          /\ Hands(put, turn', pending', job', deferred', out', disk)
      BY <1>2, <1>3, <1>5, <1>6, <1>7, <1>8, <2>1, <2>2, <2>3, <2>4, DeliverOnce
    <2>6. Asks(put, turn', job', deferred', out', disk)
      BY <2>5 DEF Asks, Commanding
    <2>. QED  BY <1>1, <2>5, <2>6 DEF Clean
  <1>10. CASE job.progress = "Working" /\ ~Deliverable(j, turn)
    <2>1. /\ job' = j /\ Write(deferred, out, {Seen(m)})
          /\ UNCHANGED <<turn, stopsHeld, pending, put, disk>>
      BY <1>1, <1>10 DEF Say, Idle, Over, m, j
    <2>2. job' \in Record /\ said' \in Nat /\ said <= said'
      BY <1>1, <1>2, <1>3, <2>1 DEF InOrder, m, Message
    <2>. QED  BY <1>3, <1>5, <1>6, <2>1, <2>2, WriteClean
  <1>11. CASE job.progress \in Idle
    <2> DEFINE g == [Give(j) EXCEPT !.progress = "Working"]
    <2>1. StartGiven(g, deferred, out, {Seen(m)})
      BY <1>11 DEF Say, Idle, Over, m, j
    <2>2. job.progress # "Working"  BY <1>11 DEF Idle
    <2>3. Unsteering(deferred, out) /\ pending = "None" /\ Still(deferred, out)
      BY <2>2, KemptHolds, AtRest
    <2>4. m \in Nat /\ HasNext(j)
      <3>1. m \in Nat  BY <1>1 DEF Message
      <3>2. j.mail = Append(job.mail, m) /\ j.given = job.given
        BY <1>2 DEF j, Receive, InOrder, Record
      <3>3. job.mail \in Seq(Message) /\ job.given <= Len(job.mail) /\ job.given \in Nat
        BY <1>2, MailShape
      <3>. QED  BY <1>1, <3>1, <3>2, <3>3 DEF HasNext
    <2>5. /\ InOrder(Give(j), m) /\ Give(j).given > 0
          /\ LastGiven(Give(j)) \in Awaiting(j)
          /\ Awaiting(Give(j)) \subseteq Awaiting(j)
      BY <1>3, <2>4, GiveMoves, GiveInOrder
    <2>6. /\ InOrder(g, m) /\ g.mail = Give(j).mail /\ g.given = Give(j).given
      <3>1. InOrder(g, m)  BY <2>4, <2>5, ProgressInOrder DEF Progress
      <3>. QED  BY <2>5, <3>1 DEF InOrder, Record
    <2> HIDE DEF g
    <2>7. /\ g.given > 0 /\ LastGiven(g) \in Awaiting(j)
          /\ Awaiting(g) \subseteq Awaiting(j)
      BY <2>5, <2>6, SameMail
    <2>8. LastGiven(g) \in Message  BY <2>4, <2>6, <2>7, LastIsInHand
    <2>9. put[LastGiven(g)] = 0  BY <1>2, <1>5, <2>7, <2>8
    <2>10. \A k \in Message : put[k] > 0 => k \notin Awaiting(g)
      BY <1>5, <2>7
    <2>11. /\ Unstopped(turn', stopsHeld')
           /\ Settled(put, m, job', deferred', disk)
           /\ Asks(put, turn', job', deferred', out', disk)
           /\ Hands(put, turn', pending', job', deferred', out', disk)
      BY <1>2, <1>6, <1>7, <1>8, <2>1, <2>3, <2>4, <2>6, <2>7, <2>9, <2>10, StartGivenOnce
    <2>. QED  BY <1>1, <2>11 DEF Clean
  <1>12. CASE job.progress \in Over
    <2>1. UNCHANGED <<job, turn, stopsHeld, pending, deferred, out>>
      BY <1>12 DEF Say, Idle, Over
    <2>. QED  BY <1>1, <1>7, <2>1 DEF Clean, m
  <1>. QED  BY <1>9, <1>10, <1>11, <1>12 DEF Say

LEMMA BeginClean == Kempt /\ Clean /\ Begin => Clean'
  <1> SUFFICES ASSUME Kempt, Clean, Begin PROVE Clean'
    OBVIOUS
  <1>1. /\ job' = [job EXCEPT !.progress = "Working"]
        /\ Write(deferred, out, {MakeRoom})
        /\ UNCHANGED <<turn, stopsHeld, pending, put, disk, said>>
    BY DEF Begin, memory, world
  <1>2. InOrder(job, said) /\ said \in Nat  BY KemptHolds
  <1>3. /\ job' \in Record /\ job'.mail = job.mail /\ job'.given = job.given
    BY <1>1, <1>2 DEF InOrder, Record, Progress
  <1>4. /\ {MakeRoom} \in SUBSET Effect /\ Step \notin {MakeRoom}
        /\ \A m \in Message : Steer(m) \notin {MakeRoom}
    BY Kinds, EffectsApart
  <1>5. /\ Awaiting(job') = Awaiting(job) /\ InHand(job') = InHand(job)
        /\ LastGiven(job') = LastGiven(job)
    BY <1>3, SameMail
  <1>6. \A m \in Message : put[m] > 0 => m \notin Awaiting(job')
    BY <1>5 DEF Clean, Settled
  <1>. QED  BY <1>1, <1>2, <1>3, <1>4, <1>5, <1>6, WriteClean

LEMMA RetireClean == Kempt /\ Clean /\ Retire => Clean'
  <1> SUFFICES ASSUME Kempt, Clean, Retire PROVE Clean'
    OBVIOUS
  <1>1. UNCHANGED <<turn, stopsHeld, pending, put, disk, said>>
    BY DEF Retire, memory
  <1>2. InOrder(job, said) /\ said \in Nat /\ out \in SUBSET Effect
    BY KemptHolds
  <1>3. job.progress # "Working"  BY DEF Retire, Idle, Over
  <1>4. /\ {Discard} \in SUBSET Effect /\ Step \notin {Discard}
        /\ \A m \in Message : Steer(m) \notin {Discard}
    BY Kinds, EffectsApart
  <1>5. CASE job' = [job EXCEPT !.progress = "Retired"] /\ Write(deferred, out, {Discard})
    <2>1. /\ job' \in Record /\ job'.mail = job.mail /\ job'.given = job.given
      BY <1>2, <1>5 DEF InOrder, Record, Progress, Over
    <2>2. /\ Awaiting(job') = Awaiting(job) /\ InHand(job') = InHand(job)
          /\ LastGiven(job') = LastGiven(job)
      BY <2>1, SameMail
    <2>3. \A m \in Message : put[m] > 0 => m \notin Awaiting(job')
      BY <2>2 DEF Clean, Settled
    <2>. QED  BY <1>1, <1>2, <1>4, <1>5, <2>1, <2>2, <2>3, WriteClean
  <1>6. CASE UNCHANGED job /\ Release(deferred, out, {Discard})
    <2>1. turn.stage = "None"  BY <1>3, KemptHolds
    <2>2. /\ turn.delivery # "InFlight" /\ Unsteering(deferred, out) /\ pending = "None"
      BY <1>3, <2>1, AtRest
    <2>3. deferred' = deferred /\ Unsteering(deferred', out')
      BY <1>4, <1>6, <2>2, KemptHolds, ReleasePlaces, SpokenKind DEF Unsteering
    <2>4. Settled(put', said', job', deferred', disk') /\ Unstopped(turn', stopsHeld')
      BY <1>1, <1>6, <2>3 DEF Clean
    <2>. QED  BY <1>1, <2>1, <2>2, <2>3, <2>4, RestClean DEF Commanding
  <1>. QED  BY <1>5, <1>6 DEF Retire

\* The question is put, once its record is everywhere a crash could look.
LEMMA AgentReadyClean ==
  ASSUME Kempt, Clean, NEW b \in BOOLEAN, AgentReady(b)
  PROVE  Clean'
  <1> DEFINE t == [turn EXCEPT !.stage = "Prompting", !.steerable = b]
             p == [m \in Message |->
                     IF m = turn.question /\ ~turn.closed THEN put[m] + 1 ELSE put[m]]
  <1>1. /\ turn.stage = "Opening" /\ HandedOn(t, out) /\ put' = p
        /\ UNCHANGED <<disk, said>>
    BY DEF AgentReady
  <1>2. /\ InOrder(job, said) /\ InOrder(disk, said) /\ Kept(said)
        /\ said \in Nat /\ turn \in Turn /\ put \in [Message -> Nat]
        /\ out \in SUBSET Effect /\ Len(deferred) \in Nat
    BY KemptHolds
  <1>3. /\ t \in Turn /\ t.stage = "Prompting" /\ t.delivery = turn.delivery
        /\ t.stopping = turn.stopping
    BY <1>2 DEF Turn, Stage, Speaking
  <1>4. p \in [Message -> Nat]  BY <1>2
  <1>5. turn.delivery # "InFlight" /\ Unsteering(deferred, out) /\ pending = "None"
    BY <1>1, HandsQuiet, KemptHolds DEF Clean
  <1>6. Settled(p, said, job, deferred, disk)
    <2> SUFFICES ASSUME NEW m \in Message, p[m] > 0
                 PROVE  /\ p[m] = 1 /\ m <= said /\ m \notin Awaiting(job)
                        /\ \A k \in 0..Len(deferred) :
                             m \notin Awaiting(RecordAt(deferred, disk, k))
      BY DEF Settled
    <2>1. CASE ~(m = turn.question /\ ~turn.closed)
      BY <2>1 DEF Clean, Settled
    <2>2. CASE m = turn.question /\ ~turn.closed
      <3>1. m # NoMessage  BY DEF Message, NoMessage
      <3>2. /\ put[m] = 0 /\ m \in InHand(job) /\ Since(m, 0, deferred, disk)
        BY <1>1, <2>2, <3>1 DEF Clean, Asks
      <3>3. p[m] = 1  BY <2>2, <3>2
      <3>4. m \notin Awaiting(job) /\ m <= said  BY <1>2, <3>2, InHandOrAwaiting
      <3>5. ASSUME NEW k \in 0..Len(deferred)
            PROVE  m \notin Awaiting(RecordAt(deferred, disk, k))
        <4>1. InOrder(RecordAt(deferred, disk, k), said)
          BY <1>2 DEF RecordAt, Kept, Queue
        <4>2. m \in InHand(RecordAt(deferred, disk, k))
          BY <3>2 DEF Since
        <4>. QED  BY <1>2, <4>1, <4>2, InHandOrAwaiting
      <3>. QED  BY <3>3, <3>4, <3>5
    <2>. QED  BY <2>1, <2>2
  <1> HIDE DEF t, p
  <1>7. Hands(p, t, pending, job, deferred, out, disk)
    BY <1>3, <1>5, QuietHands
  <1>8. ~stopsHeld /\ ~t.stopping  BY <1>3 DEF Clean, Unstopped
  <1>9. /\ Unstopped(turn', stopsHeld')
        /\ Settled(p, said, job', deferred', disk)
        /\ Asks(p, turn', job', deferred', out', disk)
        /\ Hands(p, turn', pending', job', deferred', out', disk)
    BY <1>1, <1>2, <1>3, <1>4, <1>6, <1>7, <1>8, HandedOnOnce
  <1>. QED  BY <1>1, <1>9 DEF Clean

LEMMA AgentSpokeClean == Kempt /\ Clean /\ AgentSpoke => Clean'
  <1> SUFFICES ASSUME Kempt, Clean, AgentSpoke PROVE Clean'
    OBVIOUS
  <1>1. /\ turn.stage = "Prompting" /\ HandedOn(turn, out)
        /\ UNCHANGED <<disk, said, put>>
    BY DEF AgentSpoke, Deliverable, CanSteer, world
  <1>2. /\ Unstopped(turn', stopsHeld')
        /\ Settled(put, said, job', deferred', disk)
        /\ Asks(put, turn', job', deferred', out', disk)
        /\ Hands(put, turn', pending', job', deferred', out', disk)
    BY <1>1, KemptHolds, HandedOnOnce DEF Clean, Unstopped
  <1>. QED  BY <1>1, <1>2 DEF Clean

LEMMA ClaimClean == Kempt /\ Clean /\ Claim => Clean'
  <1> SUFFICES ASSUME Kempt, Clean, Claim PROVE Clean'
    OBVIOUS
  <1>1. /\ turn' = [turn EXCEPT !.claimed = TRUE]
        /\ UNCHANGED <<job, stopsHeld, pending, deferred, out, put, disk, said>>
    BY DEF Claim, world
  <1>2. /\ turn'.stage = turn.stage /\ turn'.question = turn.question
        /\ turn'.delivery = turn.delivery /\ turn'.steering = turn.steering
        /\ turn'.stopping = turn.stopping
    BY <1>1, KemptHolds DEF Turn
  <1>. QED  BY <1>1, <1>2, TakenClean DEF Clean, Unstopped

LEMMA AgentAnsweredClean ==
  ASSUME Kempt, Clean, NEW b \in BOOLEAN, AgentAnswered(b)
  PROVE  Clean'
  <1>1. /\ turn' = [turn EXCEPT !.stage = "Closing", !.closed = TRUE, !.answered = b]
        /\ UNCHANGED <<job, stopsHeld, pending, deferred, out, put, disk, said>>
    BY DEF AgentAnswered, world
  <1>2. /\ turn'.stage = "Closing"
        /\ turn'.delivery = turn.delivery /\ turn'.steering = turn.steering
        /\ turn'.stopping = turn.stopping
    BY <1>1, KemptHolds DEF Turn
  <1>3. Asks(put, turn', job, deferred, out, disk)
    BY <1>2 DEF Asks, Commanding
  <1>4. Hands(put, turn', pending, job, deferred, out, disk)
    BY <1>2, FewerHands DEF Clean
  <1>. QED  BY <1>1, <1>2, <1>3, <1>4 DEF Clean, Unstopped

\* The line landed, and its record is everywhere a crash could look.
LEMMA SteerLandedClean ==
  ASSUME Kempt, Clean, NEW m \in Message, SteerLanded(m)
  PROVE  Clean'
  <1> DEFINE t == [turn EXCEPT !.delivery = "Open", !.steering = FALSE, !.claimed = FALSE]
             p == [put EXCEPT ![m] = @ + 1]
             o == out \ {Steer(m)}
  <1>1. /\ turn.stage = "Prompting" /\ turn.steering /\ Steer(m) \in out
        /\ HandedOn(t, o) /\ put' = p
        /\ UNCHANGED <<disk, said>>
    BY DEF SteerLanded
  <1>2. /\ InOrder(job, said) /\ InOrder(disk, said) /\ Kept(said)
        /\ said \in Nat /\ turn \in Turn /\ put \in [Message -> Nat]
        /\ o \in SUBSET Effect /\ Len(deferred) \in Nat /\ deferred \in Seq(Deferred)
    BY KemptHolds
  <1>3. /\ t \in Turn /\ t.stage = "Prompting" /\ t.delivery = "Open"
        /\ t.stopping = turn.stopping
    BY <1>1, <1>2 DEF Turn, Stage, Speaking
  <1>4. p \in [Message -> Nat] /\ p[m] = put[m] + 1 /\ \A k \in Message : k # m => p[k] = put[k]
    BY <1>2
  <1>5. 0 \in Places(Steer(m), deferred, out)  BY <1>1, <1>2 DEF Places, At
  <1>6. /\ m = LastGiven(job) /\ turn.delivery = "InFlight" /\ job.given > 0
        /\ put[m] = 0 /\ Since(m, 0, deferred, disk)
        /\ AtMostOne(Places(Steer(m), deferred, out))
        /\ pending # "Steer"
        /\ \A k \in Message : k # m => Places(Steer(k), deferred, out) = {}
    BY <1>1, <1>5 DEF Clean, Hands
  <1>7. pending = "None"  BY <1>1, <1>6, KemptHolds
  <1>8. Unsteering(deferred, o)
    <2>1. Places(Steer(m), deferred, o) = {}
      BY <1>1, <1>2, <1>6, SpokenKind, TakenOnly
    <2>2. \A k \in Message : Places(Steer(k), deferred, o) \subseteq Places(Steer(k), deferred, out)
      BY DEF Places, At
    <2>. QED  BY <1>6, <2>1, <2>2 DEF Unsteering
  <1>9. Settled(p, said, job, deferred, disk)
    <2> SUFFICES ASSUME NEW i \in Message, p[i] > 0
                 PROVE  /\ p[i] = 1 /\ i <= said /\ i \notin Awaiting(job)
                        /\ \A k \in 0..Len(deferred) :
                             i \notin Awaiting(RecordAt(deferred, disk, k))
      BY DEF Settled
    <2>1. CASE i # m
      BY <1>4, <2>1 DEF Clean, Settled
    <2>2. CASE i = m
      <3>1. p[i] = 1  BY <1>4, <1>6, <2>2
      <3>2. m \in InHand(job)  BY <1>2, <1>6, LastIsInHand
      <3>3. m \notin Awaiting(job) /\ m <= said  BY <1>2, <3>2, InHandOrAwaiting
      <3>4. ASSUME NEW k \in 0..Len(deferred)
            PROVE  m \notin Awaiting(RecordAt(deferred, disk, k))
        <4>1. InOrder(RecordAt(deferred, disk, k), said)
          BY <1>2 DEF RecordAt, Kept, Queue
        <4>2. m \in InHand(RecordAt(deferred, disk, k))
          BY <1>6 DEF Since
        <4>. QED  BY <1>2, <4>1, <4>2, InHandOrAwaiting
      <3>. QED  BY <2>2, <3>1, <3>3, <3>4
    <2>. QED  BY <2>1, <2>2
  <1> HIDE DEF t, p, o
  <1>10. Hands(p, t, pending, job, deferred, o, disk)
    BY <1>3, <1>7, <1>8, QuietHands
  <1>11. ~stopsHeld /\ ~t.stopping  BY <1>3 DEF Clean, Unstopped
  <1>12. /\ Unstopped(turn', stopsHeld')
         /\ Settled(p, said, job', deferred', disk)
         /\ Asks(p, turn', job', deferred', out', disk)
         /\ Hands(p, turn', pending', job', deferred', out', disk)
    BY <1>1, <1>2, <1>3, <1>4, <1>9, <1>10, <1>11, HandedOnOnce
  <1>. QED  BY <1>1, <1>12 DEF Clean

\* A message being handed over that is not taken waits again, still new.
LEMMA HandedBackOnce ==
  ASSUME Kempt, Clean, turn.delivery = "InFlight",
         NEW q \in Seq(Deferred), NEW o, Settled(put, said, job, q, disk),
         Unsteering(q, o), Write(q, o, {}), job' = HandBack(job),
         turn'.stage = turn.stage, turn'.delivery # "InFlight", ~turn'.stopping,
         pending' = "None", UNCHANGED <<stopsHeld, put, disk, said>>
  PROVE  Clean'
  <1>1. InOrder(job, said) /\ said \in Nat /\ put \in [Message -> Nat]
    BY KemptHolds
  <1>2. /\ job.given > 0 /\ put[LastGiven(job)] = 0
        /\ turn.stage \in {"Prompting", "Closing"}
    BY DEF Clean, Hands
  <1>3. Awaiting(job') \subseteq Awaiting(job) \union {LastGiven(job)}
    BY <1>1, <1>2, HandBackMoves
  <1>4. \A m \in Message : put[m] > 0 => m \notin Awaiting(job')
    BY <1>2, <1>3 DEF Settled
  <1>5. job' \in Record  BY <1>1, HandBackInOrder, MailShape
  <1>6. {} \in SUBSET Effect  OBVIOUS
  <1>7. Settled(put, said, job', deferred', disk)
    BY <1>4, <1>5, <1>6, WriteSettled
  <1>8. Unsteering(deferred', out')
    BY <1>5, <1>6, WritePlaces, SpokenKind DEF Unsteering
  <1>. QED  BY <1>2, <1>7, <1>8, RestClean DEF Clean, Unstopped, Commanding

LEMMA SteerWaitsClean ==
  ASSUME Kempt, Clean, NEW m \in Message, SteerWaits(m)
  PROVE  Clean'
  <1>1. /\ turn.stage = "Prompting" /\ turn.steering /\ Steer(m) \in out
        /\ turn' = [turn EXCEPT !.delivery = "Declined", !.steering = FALSE]
        /\ job' = HandBack(job)
        /\ Write(deferred, out \ {Steer(m)}, {})
        /\ UNCHANGED <<stopsHeld, pending, put, disk, said>>
    BY DEF SteerWaits, world
  <1>2. turn \in Turn /\ Len(deferred) \in Nat /\ deferred \in Seq(Deferred)
    BY KemptHolds
  <1>3. /\ turn'.stage = turn.stage /\ turn'.delivery = "Declined"
        /\ turn'.stopping = turn.stopping
    BY <1>1, <1>2 DEF Turn
  <1>4. 0 \in Places(Steer(m), deferred, out)  BY <1>1, <1>2 DEF Places, At
  <1>5. /\ turn.delivery = "InFlight" /\ pending # "Steer"
        /\ AtMostOne(Places(Steer(m), deferred, out))
        /\ \A k \in Message : k # m => Places(Steer(k), deferred, out) = {}
    BY <1>1, <1>4 DEF Clean, Hands
  <1>6. pending = "None"  BY <1>1, KemptHolds, <1>5
  <1>7. Unsteering(deferred, out \ {Steer(m)})
    <2>1. Places(Steer(m), deferred, out \ {Steer(m)}) = {}
      BY <1>1, <1>2, <1>5, SpokenKind, TakenOnly
    <2>2. \A k \in Message :
            Places(Steer(k), deferred, out \ {Steer(m)}) \subseteq Places(Steer(k), deferred, out)
      BY DEF Places, At
    <2>. QED  BY <1>5, <2>1, <2>2 DEF Unsteering
  <1> DEFINE o == out \ {Steer(m)}
  <1> HIDE DEF o
  <1>8. Write(deferred, o, {}) /\ Unsteering(deferred, o)  BY <1>1, <1>7 DEF o
  <1>9. Settled(put, said, job, deferred, disk) /\ ~turn.stopping
    BY DEF Clean, Unstopped
  <1>. QED  BY <1>1, <1>2, <1>3, <1>5, <1>6, <1>8, <1>9, HandedBackOnce

LEMMA AgentClean == Kempt /\ Clean /\ Agent => Clean'
  BY AgentReadyClean, AgentAnsweredClean, AgentSpokeClean, ClaimClean,
     SteerLandedClean, SteerWaitsClean DEF Agent

LEMMA ProcessEndedClean == Kempt /\ Clean /\ ProcessEnded => Clean'
  <1> SUFFICES ASSUME Kempt, Clean, ProcessEnded PROVE Clean'
    OBVIOUS
  <1> DEFINE b == turn.stage = "Closing" /\ turn.answered
  <1>1. /\ turn.stage \in Speaking \union {"Closing"} /\ Ended(b, out)
        /\ UNCHANGED <<put, disk, said>>
    BY DEF ProcessEnded, world
  <1>2. /\ Kept(said) /\ said \in Nat /\ put \in [Message -> Nat] /\ out \in SUBSET Effect
        /\ turn \in Turn
    BY KemptHolds
  <1>3. b \in BOOLEAN  OBVIOUS
  <1> HIDE DEF b
  <1>4. pending # "Job" /\ Still(deferred, out)
    BY <1>1, KemptHolds DEF Still, Commanding, Speaking
  <1>. QED  BY <1>1, <1>2, <1>3, <1>4, EndedOnce DEF Clean, Unstopped

LEMMA CommandsClean == Kempt /\ Clean /\ CommandAnswered => Clean'
  <1> SUFFICES ASSUME Kempt, Clean, CommandAnswered PROVE Clean'
    OBVIOUS
  <1>1. PICK failed \in BOOLEAN :
          \E stage \in Commanding \union {"Opening"} :
            /\ GoesOn(failed, stage) /\ Step \in out /\ turn.stage \in Commanding
            /\ UNCHANGED <<disk, said, put>>
    BY DEF CommandAnswered, Looked, Built, Made, Up, Wrapped, CheckedOut, Answered,
           Commanding, world
  <1>2. PICK stage \in Commanding \union {"Opening"} :
          /\ GoesOn(failed, stage) /\ Step \in out /\ turn.stage \in Commanding
          /\ UNCHANGED <<disk, said, put>>
    BY <1>1
  <1>3. /\ Kept(said) /\ said \in Nat /\ put \in [Message -> Nat] /\ out \in SUBSET Effect
        /\ turn \in Turn /\ Len(deferred) \in Nat /\ deferred \in Seq(Deferred)
        /\ AtMostOne(Places(Step, deferred, out))
        /\ Places(MakeRoom, deferred, out) = {} /\ pending # "Job"
    BY <1>2, KemptHolds DEF Commanding
  <1>4. /\ turn.delivery # "InFlight" /\ Unsteering(deferred, out) /\ pending = "None"
    BY <1>2, <1>3, HandsQuiet, KemptHolds DEF Clean, Commanding
  <1>5. 0 \in Places(Step, deferred, out)  BY <1>2, <1>3 DEF Places, At
  <1>6. Places(Step, deferred, out \ {Step}) = {}  BY <1>2, <1>3, Kinds, TakenOnly
  <1>7. CASE failed
    <2> DEFINE o == out \ {Step}
    <2>1. Ended(FALSE, o)  BY <1>2, <1>7 DEF GoesOn
    <2>2. Places(MakeRoom, deferred, o) = {}
      BY <1>3 DEF Places, At
    <2>3. o \in SUBSET Effect /\ Still(deferred, o)
      BY <1>3, <1>6, <2>2 DEF Still
    <2> HIDE DEF o
    <2>4. FALSE \in BOOLEAN  OBVIOUS
    <2>. QED  BY <1>2, <1>3, <2>1, <2>3, <2>4, EndedOnce DEF Clean, Unstopped
  <1>8. CASE ~failed
    <2>1. /\ turn' = [turn EXCEPT !.stage = stage]
          /\ out' = IF stage = "Opening" THEN out \ {Step} ELSE out
          /\ UNCHANGED <<job, stopsHeld, pending, deferred>>
      BY <1>2, <1>8 DEF GoesOn, Clean, Unstopped
    <2>2. /\ turn'.stage = stage /\ turn'.question = turn.question
          /\ turn'.delivery = turn.delivery /\ turn'.stopping = turn.stopping
      BY <1>3, <2>1 DEF Turn
    <2>3. \A e : Places(e, deferred, out') \subseteq Places(e, deferred, out)
      BY <2>1 DEF Places, At
    <2>4. Unsteering(deferred, out')  BY <1>4, <2>3 DEF Unsteering
    <2>5. Hands(put, turn', "None", job, deferred, out', disk)
      BY <1>4, <2>2, <2>4, QuietHands
    <2>6. Asks(put, turn', job, deferred, out', disk)
      BY <1>2, <1>5, <2>2, <2>3 DEF Asks, Clean
    <2>. QED  BY <1>2, <1>4, <2>1, <2>2, <2>5, <2>6 DEF Clean, Unstopped
  <1>. QED  BY <1>7, <1>8

LEMMA RoomsClean == Kempt /\ Clean /\ RoomAnswered => Clean'
  <1> SUFFICES ASSUME Kempt, Clean, RoomAnswered PROVE Clean'
    OBVIOUS
  <1>1. /\ MakeRoom \in out /\ UNCHANGED <<pending, put, disk, said>>
    BY DEF RoomAnswered, RoomMade, RoomRefused, world
  <1>2. /\ InOrder(job, said) /\ deferred \in Seq(Deferred) /\ Len(deferred) \in Nat
        /\ said \in Nat
    BY KemptHolds
  <1>3. 0 \in Places(MakeRoom, deferred, out)  BY <1>1, <1>2 DEF Places, At
  <1>4. turn.stage = "None" /\ pending = "None"  BY <1>3, KemptHolds
  <1>5. turn.delivery # "InFlight" /\ Unsteering(deferred, out)
    BY <1>4, AtRest
  <1> DEFINE o == out \ {MakeRoom}
  <1>6. Unsteering(deferred, o)
    BY <1>5 DEF Unsteering, Places, At
  <1>7. PICK E \in {{}, {Step}} :
          /\ Write(deferred, o, E)
          /\ job' \in Record /\ job'.mail = job.mail /\ job'.given = job.given
          /\ Unstopped(turn', stopsHeld')
          /\ turn'.stage = "None" \/ turn'.question = NoMessage
          /\ turn'.delivery # "InFlight"
    <2>1. CASE RoomMade
      <3>1. /\ job' = [job EXCEPT !.room = TRUE] /\ stopsHeld' = FALSE
            /\ turn' = [NoTurn EXCEPT !.stage = "Looking", !.fresh = TRUE,
                                      !.stopping = stopsHeld]
            /\ Write(deferred, o, {Step})
        BY <2>1 DEF RoomMade, Registered
      <3>2. /\ job' \in Record /\ job'.mail = job.mail /\ job'.given = job.given
        BY <1>2, <3>1 DEF InOrder, Record
      <3>3. /\ turn'.question = NoMessage /\ turn'.delivery = "Open" /\ turn'.stopping = stopsHeld
        BY <3>1 DEF NoTurn
      <3>. QED  BY <3>1, <3>2, <3>3 DEF Clean, Unstopped
    <2>2. CASE RoomRefused
      <3>1. /\ job' = [job EXCEPT !.progress = "Failed"] /\ UNCHANGED <<turn, stopsHeld>>
            /\ Write(deferred, o, {})
        BY <2>2 DEF RoomRefused, Roomless
      <3>2. /\ job' \in Record /\ job'.mail = job.mail /\ job'.given = job.given
        BY <1>2, <3>1 DEF InOrder, Record, Progress, Idle
      <3>. QED  BY <1>4, <1>5, <3>1, <3>2 DEF Clean
    <2>. QED  BY <2>1, <2>2 DEF RoomAnswered
  <1> HIDE DEF o
  <1>8. E \in SUBSET Effect /\ \A m \in Message : Steer(m) \notin E
    BY Kinds, EffectsApart
  <1>9. \A m \in Message : put[m] > 0 => m \notin Awaiting(job')
    BY <1>7, SameMail DEF Clean, Settled
  <1>10. Settled(put, said, job', deferred', disk)
    <2>1. Settled(put, said, job, deferred, disk)  BY DEF Clean
    <2>. QED  BY <1>2, <1>7, <1>8, <1>9, <2>1, WriteSettled
  <1>11. Unsteering(deferred', out')
    BY <1>2, <1>6, <1>7, <1>8, WritePlaces, SpokenKind DEF Unsteering
  <1>. QED  BY <1>1, <1>4, <1>7, <1>10, <1>11, RestClean DEF Commanding

LEMMA ThreadsClean == Kempt /\ Clean /\ ThreadAnswered => Clean'
  <1> SUFFICES ASSUME Kempt, Clean, NEW e \in Reads, ThreadRead(e) PROVE Clean'
    BY DEF ThreadAnswered
  <1> DEFINE o == out \ {e}
             m == LastGiven(job)
  <1>1. /\ e \in out /\ pending' = "None" /\ UNCHANGED <<put, disk, said>>
    BY DEF ThreadRead, world
  <1>2. /\ InOrder(job, said) /\ said \in Nat /\ deferred \in Seq(Deferred)
        /\ Len(deferred) \in Nat /\ turn \in Turn /\ pending \in {"None", "Job", "Steer"}
        /\ out \in SUBSET Effect /\ put \in [Message -> Nat]
    BY KemptHolds
  <1>3. /\ Settled(put, said, job, deferred, disk) /\ ~turn.stopping /\ ~stopsHeld
        /\ Hands(put, turn, pending, job, deferred, out, disk)
    BY DEF Clean, Unstopped
  <1>4. \A x : Places(x, deferred, o) \subseteq Places(x, deferred, out)
    BY DEF Places, At
  <1>5. job.given > 0 => m \in InHand(job) /\ m \in Message
    BY <1>2, LastIsInHand
  <1>6. pending # "None" /\ job.given > 0 => Since(m, Len(deferred), deferred, disk)
    BY <1>2, <1>3, LastRecordKnows DEF Hands
  <1> HIDE DEF o
  <1>7. CASE pending = "Job" /\ job.given > 0
    <2>1. /\ turn' = Resumed(m, e.of) /\ stopsHeld' = FALSE /\ job' = job
          /\ AfterWrites(deferred, o, {Step})
      BY <1>7 DEF ThreadRead, Registered, o
    <2> HIDE DEF m
    <2>2. turn.stage = "None"  BY <1>7, KemptHolds
    <2>3. Unsteering(deferred, out) /\ Places(Step, deferred, out) = {}
      BY <2>2, AtRest
    <2>4. Unsteering(deferred, o) /\ Places(Step, deferred, o) = {}
      BY <1>4, <2>3 DEF Unsteering
    <2>5. {Step} \in SUBSET Effect /\ \A k \in Message : Steer(k) \notin {Step}
      BY Kinds, EffectsApart
    <2>6. /\ Len(deferred') = Len(deferred)
          /\ Places(Step, deferred', out') = {Len(deferred)}
          /\ Unsteering(deferred', out')
          /\ \A k \in 0..Len(deferred) :
               RecordAt(deferred', disk, k) = RecordAt(deferred, disk, k)
      BY <1>2, <2>1, <2>4, <2>5, AfterWritesPlaces, SpokenKind, Kinds DEF Unsteering
    <2>7. /\ turn'.stage = "Starting" /\ turn'.delivery = "Open" /\ turn'.question = m
          /\ ~turn'.stopping
      BY <1>3, <2>1 DEF Resumed, NoTurn
    <2>8. Settled(put, said, job, deferred', disk)
      BY <1>3, <2>6, SameSettled
    <2>9. Since(m, Len(deferred), deferred', disk)
      BY <1>2, <1>6, <1>7, <2>6, SameSince DEF m
    <2>10. put[m] = 0  BY <1>3, <1>7 DEF Hands, m
    <2>11. Asks(put, turn', job, deferred', out', disk)
      BY <1>5, <1>7, <2>6, <2>7, <2>9, <2>10 DEF Asks
    <2>12. Hands(put, turn', "None", job, deferred', out', disk)
      BY <2>6, <2>7, QuietHands
    <2>. QED  BY <1>1, <2>1, <2>7, <2>8, <2>11, <2>12 DEF Clean, Unstopped
  <1>8. CASE pending = "Steer" /\ job.given > 0 /\ CanSteer(turn)
    <2>1. /\ turn' = [turn EXCEPT !.steering = TRUE] /\ stopsHeld' = stopsHeld
          /\ job' = job /\ AfterWrites(deferred, o, {Steer(m)})
      BY <1>8 DEF ThreadRead, o
    <2>2. /\ turn.delivery = "InFlight" /\ ~turn.steering /\ turn.stage = "Prompting"
          /\ put[m] = 0
      BY <1>3, <1>8 DEF Hands, CanSteer
    <2>3. Unsteering(deferred, o)
      BY <1>3, <1>4, <2>2 DEF Hands, Unsteering
    <2>4. /\ turn'.stage = "Prompting" /\ turn'.delivery = "InFlight" /\ turn'.steering
          /\ ~turn'.stopping
      BY <1>2, <1>3, <2>1, <2>2 DEF Turn
    <2>5. m \in Message /\ Since(m, Len(deferred), deferred, disk)
      BY <1>5, <1>6, <1>8
    <2> DEFINE E == {Steer(m)}
    <2>6. /\ E \in SUBSET Effect /\ Steer(m) \in E
          /\ \A k \in Message : k # m => Steer(k) \notin E
      BY <2>5, SpokenKind DEF Steer
    <2>7. AfterWrites(deferred, o, E)  BY <2>1
    <2> HIDE DEF m, E
    <2>8. /\ Len(deferred') = Len(deferred)
          /\ Places(Steer(m), deferred', out') = {Len(deferred)}
          /\ \A k \in Message : k # m => Places(Steer(k), deferred', out') = {}
          /\ \A k \in 0..Len(deferred) :
               RecordAt(deferred', disk, k) = RecordAt(deferred, disk, k)
      BY <1>2, <2>3, <2>5, <2>6, <2>7, AfterWritesPlaces, SpokenKind DEF Unsteering
    <2>9. Settled(put, said, job, deferred', disk)
      BY <1>3, <2>8, SameSettled
    <2>10. Since(m, Len(deferred), deferred', disk)
      BY <1>2, <2>5, <2>8, SameSince
    <2>11. Asks(put, turn', job, deferred', out', disk)
      BY <2>4 DEF Asks, Commanding
    <2>12. Hands(put, turn', "None", job, deferred', out', disk)
      BY <1>8, <2>2, <2>4, <2>8, <2>10 DEF Hands, AtMostOne, m
    <2>. QED  BY <1>1, <1>3, <2>1, <2>4, <2>9, <2>11, <2>12 DEF Clean, Unstopped
  <1>9. CASE pending = "Steer" /\ job.given > 0 /\ ~CanSteer(turn)
    <2>1. /\ turn' = [turn EXCEPT !.delivery = "Open"] /\ job' = HandBack(job)
          /\ Write(deferred, o, {}) /\ stopsHeld' = stopsHeld
      BY <1>9 DEF ThreadRead, NotTaken, o
    <2>2. turn.delivery = "InFlight" /\ ~turn.steering
      BY <1>3, <1>9 DEF Hands
    <2>3. Unsteering(deferred, o)
      BY <1>3, <1>4, <2>2 DEF Hands, Unsteering
    <2>4. turn'.stage = turn.stage /\ turn'.delivery = "Open" /\ ~turn'.stopping
      BY <1>2, <1>3, <2>1 DEF Turn
    <2>. QED  BY <1>1, <1>2, <1>3, <2>1, <2>2, <2>3, <2>4, HandedBackOnce
  <1>10. CASE pending = "None" \/ job.given = 0
    <2>1. pending = "None"  BY <1>2, <1>3, <1>10 DEF Hands
    <2>2. /\ UNCHANGED <<job, turn, stopsHeld, deferred>> /\ out' = o
      BY <2>1, <1>10 DEF ThreadRead, Release, o
    <2>. QED  BY <1>1, <1>3, <2>1, <2>2, TakenClean DEF o
  <1>11. job.given = 0 \/ job.given > 0  BY <1>2, MailShape
  <1>. QED  BY <1>2, <1>7, <1>8, <1>9, <1>10, <1>11

LEMMA LandedClean == Kempt /\ Clean /\ Landed => Clean'
  <1> SUFFICES ASSUME Kempt, Clean, Landed PROVE Clean'
    OBVIOUS
  <1> DEFINE q == Tail(deferred)
             o == out \union Head(deferred).effects
             d == Head(deferred).snap
  <1>1. /\ deferred # <<>> /\ disk' = d /\ deferred' = q /\ out' = o
        /\ UNCHANGED <<job, turn, stopsHeld, pending, said, put>>
    BY DEF Landed, Release, memory
  <1>2. deferred \in Seq(Deferred) /\ pending \in {"None", "Job", "Steer"}  BY KemptHolds
  <1>3. /\ Len(deferred) \in Nat \ {0} /\ Len(q) = Len(deferred) - 1
        /\ \A e \in Effect, i \in 0..Len(q) :
             i \in Places(e, q, o) <=>
               i + 1 \in Places(e, deferred, out) \/ (i = 0 /\ 0 \in Places(e, deferred, out))
    BY <1>1, <1>2, LandedPlaces
  <1>4. \A m : /\ \A i \in 0..Len(q) : Since(m, i + 1, deferred, disk) => Since(m, i, q, d)
               /\ Since(m, 0, deferred, disk) => Since(m, 0, q, d)
    BY <1>1, <1>2, LandedSince
  <1>5. Settled(put, said, job, q, d)
    BY <1>1, <1>2, LandedSettled DEF Clean
  <1>6. \A e \in Effect :
          Places(e, q, o) \subseteq 0..Len(q) /\ (Places(e, q, o) # {} => Places(e, deferred, out) # {})
    BY <1>3 DEF Places
  <1>7. \A m \in Message : AtMostOne(Places(Steer(m), deferred, out)) =>
                             AtMostOne(Places(Steer(m), q, o))
    BY <1>1, <1>2, LandedOne, SpokenKind
  <1> HIDE DEF q, o, d
  <1>8. ASSUME NEW e \in Effect, NEW m,
               \A i \in Places(e, deferred, out) : Since(m, i, deferred, disk)
        PROVE  \A i \in Places(e, q, o) : Since(m, i, q, d)
    <2> TAKE i \in Places(e, q, o)
    <2>1. i \in 0..Len(q)  BY <1>6
    <2>2. i + 1 \in Places(e, deferred, out) \/ (i = 0 /\ 0 \in Places(e, deferred, out))
      BY <1>3, <2>1
    <2>. QED  BY <1>4, <1>8, <2>1, <2>2
  <1>9. Asks(put, turn, job, q, o, d)
    BY <1>4, <1>8, Kinds DEF Asks, Clean
  <1>10. pending # "None" => ReadFor(job, q, o, d)
    <2> SUFFICES ASSUME pending # "None" PROVE ReadFor(job, q, o, d)
      OBVIOUS
    <2>1. PICK i \in 0..Len(deferred) :
            /\ At(deferred, out, i) \intersect Reads # {}
            /\ Since(LastGiven(job), i, deferred, disk)
      BY DEF Clean, Hands, ReadFor
    <2>2. PICK e \in Reads : i \in Places(e, deferred, out)
      BY <2>1 DEF Places
    <2>3. e \in Effect  BY ReadsKind
    <2>4. CASE i = 0
      <3>1. 0 \in Places(e, q, o) /\ Since(LastGiven(job), 0, q, d)
        BY <1>3, <1>4, <2>1, <2>2, <2>3, <2>4
      <3>. QED  BY <3>1 DEF ReadFor, Places
    <2>5. CASE i # 0
      <3>1. i - 1 \in 0..Len(q) /\ (i - 1) + 1 = i  BY <1>3, <2>5
      <3>2. i - 1 \in Places(e, q, o) /\ Since(LastGiven(job), i - 1, q, d)
        BY <1>3, <1>4, <2>1, <2>2, <2>3, <3>1
      <3>. QED  BY <3>2 DEF ReadFor, Places
    <2>. QED  BY <2>4, <2>5
  <1>11. Hands(put, turn, pending, job, q, o, d)
    <2>1. ASSUME NEW m \in Message, Places(Steer(m), q, o) # {}
          PROVE  /\ turn.delivery = "InFlight" /\ turn.steering /\ m = LastGiven(job)
                 /\ AtMostOne(Places(Steer(m), q, o))
                 /\ \A i \in Places(Steer(m), q, o) : Since(m, i, q, d)
      <3>1. Steer(m) \in Effect  BY SpokenKind
      <3>2. Places(Steer(m), deferred, out) # {}  BY <1>6, <2>1, <3>1
      <3>3. /\ turn.delivery = "InFlight" /\ turn.steering /\ m = LastGiven(job)
            /\ AtMostOne(Places(Steer(m), deferred, out))
            /\ \A i \in Places(Steer(m), deferred, out) : Since(m, i, deferred, disk)
        BY <3>2 DEF Clean, Hands
      <3>. QED  BY <1>7, <1>8, <3>1, <3>3
    <2>. QED  BY <1>10, <2>1 DEF Clean, Hands
  <1>. QED  BY <1>1, <1>5, <1>9, <1>11 DEF Clean

\* A write that fails takes what waited on it: the turn, the thread or the
\* room that was to come is given up, and a line to the agent is not sent.
LEMMA UnwrittenClean == Kempt /\ Clean /\ Unwritten => Clean'
  <1> SUFFICES ASSUME Kempt, Clean, Unwritten PROVE Clean'
    OBVIOUS
  <1> DEFINE q == Tail(deferred)
             gone == Head(deferred).effects
             unasked == gone \intersect Reads # {}
  <1>1. /\ deferred # <<>> /\ UNCHANGED <<put, disk, said>>
        /\ pending' = IF unasked THEN "None" ELSE pending
    BY DEF Unwritten
  <1>2. /\ deferred \in Seq(Deferred) /\ pending \in {"None", "Job", "Steer"}
        /\ InOrder(job, said) /\ said \in Nat /\ turn \in Turn
    BY KemptHolds
  <1>3. /\ q \in Seq(Deferred) /\ Len(deferred) \in Nat \ {0} /\ Len(q) = Len(deferred) - 1
        /\ \A e \in Effect, i \in 1..Len(q) :
             i \in Places(e, q, out) <=> i + 1 \in Places(e, deferred, out)
        /\ \A e \in Effect : 0 \in Places(e, q, out) <=> 0 \in Places(e, deferred, out)
        /\ \A e \in Effect : e \in gone <=> 1 \in Places(e, deferred, out)
    BY <1>1, <1>2, DroppedPlaces
  <1>4. \A m : /\ \A i \in 1..Len(q) : Since(m, i + 1, deferred, disk) => Since(m, i, q, disk)
               /\ Since(m, 0, deferred, disk) => Since(m, 0, q, disk)
    BY <1>1, <1>2, DroppedSince
  <1>5. Settled(put, said, job, q, disk)
    BY <1>1, <1>2, DroppedSettled DEF Clean
  <1>6. /\ \A m \in Message : AtMostOne(Places(Steer(m), deferred, out)) =>
                                AtMostOne(Places(Steer(m), q, out))
        /\ Step \in gone => Places(Step, deferred, out) # {}
        /\ MakeRoom \in gone => Places(MakeRoom, deferred, out) # {}
    BY <1>1, <1>2, DroppedOne, SpokenKind, Kinds
  <1>7. ASSUME NEW e \in Effect, NEW i \in Places(e, q, out)
        PROVE  /\ i \in 0..Len(q)
               /\ i = 0 => i \in Places(e, deferred, out)
               /\ i # 0 => i \in 1..Len(q) /\ i + 1 \in Places(e, deferred, out)
    <2>1. i \in 0..Len(q)  BY DEF Places
    <2>2. i # 0 => i \in 1..Len(q)  BY <1>3, <2>1
    <2>. QED  BY <1>3, <2>1, <2>2
  <1> HIDE DEF q, gone
  <1>8. \A e \in Effect : Places(e, q, out) # {} => Places(e, deferred, out) # {}
    BY <1>7
  <1>9. ASSUME NEW e \in Effect, NEW m,
               \A i \in Places(e, deferred, out) : Since(m, i, deferred, disk)
        PROVE  \A i \in Places(e, q, out) : Since(m, i, q, disk)
    BY <1>4, <1>7, <1>9
  <1>10. ~turn.stopping /\ ~stopsHeld  BY DEF Clean, Unstopped
  <1>11. unasked => pending' = "None"  BY <1>1
  <1>12. Asks(put, turn, job, q, out, disk)
    BY <1>4, <1>9, Kinds DEF Asks, Clean
  <1>13. pending # "None" /\ ~unasked => ReadFor(job, q, out, disk)
    <2> SUFFICES ASSUME pending # "None", ~unasked PROVE ReadFor(job, q, out, disk)
      OBVIOUS
    <2>1. PICK i \in 0..Len(deferred) :
            /\ At(deferred, out, i) \intersect Reads # {}
            /\ Since(LastGiven(job), i, deferred, disk)
      BY DEF Clean, Hands, ReadFor
    <2>2. PICK e \in Reads : i \in Places(e, deferred, out)
      BY <2>1 DEF Places
    <2>3. e \in Effect  BY ReadsKind
    <2>4. i # 1  BY <1>3, <2>2, <2>3
    <2>5. CASE i = 0
      <3>1. 0 \in Places(e, q, out) /\ Since(LastGiven(job), 0, q, disk)
        BY <1>3, <1>4, <2>1, <2>2, <2>3, <2>5
      <3>. QED  BY <3>1 DEF ReadFor, Places
    <2>6. CASE i # 0
      <3>1. i - 1 \in 1..Len(q) /\ (i - 1) + 1 = i  BY <1>3, <2>4, <2>6
      <3>2. i - 1 \in Places(e, q, out) /\ Since(LastGiven(job), i - 1, q, disk)
        BY <1>3, <1>4, <2>1, <2>2, <2>3, <3>1
      <3>. QED  BY <3>2 DEF ReadFor, Places
    <2>. QED  BY <2>5, <2>6
  <1>14. \A m \in Message : Places(Steer(m), q, out) # {} =>
           /\ turn.delivery = "InFlight" /\ turn.steering /\ m = LastGiven(job)
           /\ AtMostOne(Places(Steer(m), q, out))
           /\ \A i \in Places(Steer(m), q, out) : Since(m, i, q, disk)
    <2> TAKE m \in Message
    <2> SUFFICES ASSUME Places(Steer(m), q, out) # {}
                 PROVE  /\ turn.delivery = "InFlight" /\ turn.steering /\ m = LastGiven(job)
                        /\ AtMostOne(Places(Steer(m), q, out))
                        /\ \A i \in Places(Steer(m), q, out) : Since(m, i, q, disk)
      OBVIOUS
    <2>1. Steer(m) \in Effect  BY SpokenKind
    <2>2. Places(Steer(m), deferred, out) # {}  BY <1>8, <2>1
    <2>3. /\ turn.delivery = "InFlight" /\ turn.steering /\ m = LastGiven(job)
          /\ AtMostOne(Places(Steer(m), deferred, out))
          /\ \A i \in Places(Steer(m), deferred, out) : Since(m, i, deferred, disk)
      BY <2>2 DEF Clean, Hands
    <2>. QED  BY <1>6, <1>9, <2>1, <2>3
  <1>15. {} \in SUBSET Effect  OBVIOUS
  <1>16. CASE (Step \in gone \/ (unasked /\ pending = "Job")) /\ Abandoned(q, out)
    <2>1. /\ job' = [Drain(job) EXCEPT !.progress = "Failed"]
          /\ turn' = NoTurn /\ stopsHeld' = FALSE /\ Write(q, out, {})
      BY <1>16 DEF Abandoned
    <2>2. turn.stage \notin {"Prompting", "Closing"}
      BY <1>6, <1>16, KemptHolds DEF Commanding
    <2>3. turn.delivery # "InFlight" /\ Unsteering(deferred, out) /\ pending # "Steer"
      BY <2>2, HandsQuiet DEF Clean
    <2>4. Unsteering(q, out)  BY <1>8, <2>3, SpokenKind DEF Unsteering
    <2>5. pending' = "None"
      BY <1>1, <1>2, <1>6, <1>16, <2>3, KemptHolds DEF Commanding
    <2>6. InOrder(job', said) /\ Awaiting(job') = {}
      <3>1. InOrder(Drain(job), said)  BY <1>2, DrainInOrder
      <3>2. InOrder(job', said)  BY <1>2, <2>1, <3>1, ProgressInOrder DEF Progress, Idle
      <3>3. job'.mail = Drain(job).mail /\ job'.given = Drain(job).given
        BY <2>1, <3>1 DEF InOrder, Record
      <3>. QED  BY <1>2, <3>2, <3>3, SameMail, DrainEmpties
    <2>7. job' \in Record  BY <2>6 DEF InOrder
    <2>8. Settled(put, said, job', deferred', disk)
      BY <1>3, <1>5, <1>15, <2>1, <2>6, <2>7, WriteSettled
    <2>9. Unsteering(deferred', out')
      BY <1>3, <1>15, <2>1, <2>4, <2>7, WritePlaces, SpokenKind DEF Unsteering
    <2>10. turn'.stage = "None" /\ turn'.delivery = "Open" /\ ~turn'.stopping
      BY <2>1 DEF NoTurn
    <2>. QED  BY <1>1, <2>1, <2>5, <2>8, <2>9, <2>10, RestClean DEF Unstopped, Commanding
  <1>17. CASE unasked /\ pending = "Steer" /\ NotTaken(q, out) /\ UNCHANGED stopsHeld
    <2>1. /\ turn' = [turn EXCEPT !.delivery = "Open"] /\ job' = HandBack(job)
          /\ Write(q, out, {}) /\ stopsHeld' = stopsHeld /\ pending' = "None"
      BY <1>11, <1>17 DEF NotTaken
    <2>2. turn.delivery = "InFlight" /\ ~turn.steering
      BY <1>17 DEF Clean, Hands
    <2>3. Unsteering(q, out)  BY <1>14, <2>2 DEF Unsteering
    <2>4. turn'.stage = turn.stage /\ turn'.delivery = "Open" /\ ~turn'.stopping
      BY <1>2, <1>10, <2>1 DEF Turn
    <2>. QED  BY <1>1, <1>3, <1>5, <2>1, <2>2, <2>3, <2>4, HandedBackOnce
  <1>18. CASE MakeRoom \in gone /\ Roomless(q, out)
    <2>1. /\ job' = [job EXCEPT !.progress = "Failed"] /\ Write(q, out, {})
          /\ UNCHANGED <<turn, stopsHeld>>
      BY <1>18 DEF Roomless
    <2>2. turn.stage = "None" /\ pending = "None"
      BY <1>6, <1>18, KemptHolds
    <2>3. turn.delivery # "InFlight" /\ Unsteering(deferred, out)
      BY <2>2, AtRest
    <2>4. Unsteering(q, out)  BY <1>8, <2>3, SpokenKind DEF Unsteering
    <2>5. /\ job' \in Record /\ job'.mail = job.mail /\ job'.given = job.given
      BY <1>2, <2>1 DEF InOrder, Record, Progress, Idle
    <2>6. \A m \in Message : put[m] > 0 => m \notin Awaiting(job')
      BY <2>5, SameMail DEF Clean, Settled
    <2>7. Settled(put, said, job', deferred', disk)
      BY <1>3, <1>5, <1>15, <2>1, <2>5, <2>6, WriteSettled
    <2>8. Unsteering(deferred', out')
      BY <1>3, <1>15, <2>1, <2>4, <2>5, WritePlaces, SpokenKind DEF Unsteering
    <2>9. pending' = "None"  BY <1>1, <2>2
    <2>. QED  BY <1>1, <1>10, <2>1, <2>2, <2>3, <2>7, <2>8, <2>9, RestClean
              DEF Unstopped, Commanding
  <1>19. CASE (unasked => pending = "None") /\ Release(q, out, {})
              /\ UNCHANGED <<job, turn, stopsHeld>>
    <2>1. deferred' = q /\ out' = out /\ pending' = pending
      BY <1>1, <1>19 DEF Release
    <2>2. Hands(put, turn, pending, job, q, out, disk)
      BY <1>13, <1>14, <1>19 DEF Clean, Hands
    <2>. QED  BY <1>1, <1>5, <1>12, <1>19, <2>1, <2>2 DEF Clean
  <1>. QED  BY <1>16, <1>17, <1>18, <1>19 DEF Unwritten, q, gone

LEMMA OthersClean ==
  Kempt /\ Clean /\ (CancelOverdue \/ \E ok \in BOOLEAN : Discarded(ok)) => Clean'
  <1> SUFFICES ASSUME Kempt, Clean, CancelOverdue \/ \E ok \in BOOLEAN : Discarded(ok)
               PROVE  Clean'
    OBVIOUS
  <1>1. CASE CancelOverdue
    <2>1. /\ turn' = [turn EXCEPT !.closed = @ \/ (turn.stopping /\ turn.stage \in Speaking)]
          /\ UNCHANGED <<job, stopsHeld, pending, deferred, out, put, disk, said>>
      BY <1>1 DEF CancelOverdue, world
    <2>2. /\ turn'.stage = turn.stage /\ turn'.question = turn.question
          /\ turn'.delivery = turn.delivery /\ turn'.steering = turn.steering
          /\ turn'.stopping = turn.stopping
      BY <2>1, KemptHolds DEF Turn
    <2>. QED  BY <2>1, <2>2, TakenClean DEF Clean, Unstopped
  <1>2. CASE \E ok \in BOOLEAN : Discarded(ok)
    <2>1. /\ out' = out \ {Discard}
          /\ UNCHANGED <<job, turn, stopsHeld, pending, deferred, put, disk, said>>
      BY <1>2 DEF Discarded, memory
    <2>2. out' \intersect Reads = out \intersect Reads /\ out' \subseteq out
      BY <2>1, ReadsKind
    <2>. QED  BY <2>1, <2>2, TakenClean DEF Clean, Unstopped
  <1>. QED  BY <1>1, <1>2

\* A start asks the turn it resumes no message, and what it reads back holds
\* nothing waiting that was already put.
LEMMA RestartClean == Kempt /\ Inv' /\ Clean /\ Restart => Clean'
  <1> SUFFICES ASSUME Kempt, Inv', Clean, Restart PROVE Clean'
    OBVIOUS
  <1>1. /\ disk' \in {disk} \union {deferred[i].snap : i \in DOMAIN deferred}
        /\ job' = Waking(Opened(disk'), container')
        /\ turn' = IF job'.progress = "Working"
                     THEN [NoTurn EXCEPT !.stage = "Starting"] ELSE NoTurn
        /\ stopsHeld' = FALSE /\ pending' = "None"
        /\ UNCHANGED <<said, put>>
    BY DEF Restart
  <1>2. /\ DOMAIN deferred = 1..Len(deferred) /\ Len(deferred) \in Nat
    BY KemptHolds, LenProperties
  <1>3. PICK k \in 0..Len(deferred) : disk' = RecordAt(deferred, disk, k)
    <2>1. CASE disk' = disk
      <3>1. 0 \in 0..Len(deferred) /\ disk' = RecordAt(deferred, disk, 0)
        BY <1>2, <2>1 DEF RecordAt
      <3>. QED  BY <3>1
    <2>2. CASE \E i \in DOMAIN deferred : disk' = deferred[i].snap
      <3>1. PICK i \in 1..Len(deferred) : disk' = deferred[i].snap  BY <1>2, <2>2
      <3>2. i \in 0..Len(deferred) /\ disk' = RecordAt(deferred, disk, i)
        BY <3>1 DEF RecordAt
      <3>. QED  BY <3>2
    <2>. QED  BY <1>1, <2>1, <2>2
  <1>4. \A m \in Message : put[m] > 0 => put[m] = 1 /\ m <= said /\ m \notin Awaiting(disk')
    BY <1>3 DEF Clean, Settled
  <1>5. InOrder(disk', said') /\ said' \in Nat /\ job' \in Record
    BY MailShape DEF Inv, Kept
  <1>6. Awaiting(job') \subseteq Awaiting(disk')
    <2>1. /\ Opened(disk') \in Record
          /\ Awaiting(Opened(disk')) \subseteq Awaiting(disk')
      BY <1>5, DrainInOrder, DrainEmpties DEF Opened, InOrder
    <2>2. job'.mail = Opened(disk').mail /\ job'.given = Opened(disk').given
      BY <1>1, <2>1 DEF Waking, Record
    <2>. QED  BY <2>1, <2>2, SameMail
  <1> DEFINE o == {e \in out : e.kind = "Seen"}
                  \union (IF turn'.stage = "Starting" THEN {Step} ELSE {})
                  \union (IF job'.progress \in Over /\ container' THEN {Discard} ELSE {})
  <1>7. Write(<<>>, o, {})  BY DEF Restart
  <1>8. Unsteering(<<>>, o)
    BY SpokenKind, EffectsApart, Kinds DEF Unsteering, Places, At
  <1> HIDE DEF o
  <1>9. <<>> \in Seq(Deferred) /\ {} \in SUBSET Effect /\ Len(<<>>) = 0  OBVIOUS
  <1>10. Settled(put, said, disk', <<>>, disk')
    BY <1>4, <1>9 DEF Settled, RecordAt
  <1>11. \A m \in Message : put[m] > 0 => m \notin Awaiting(job')
    BY <1>4, <1>6
  <1>12. Settled(put, said, job', deferred', disk')
    BY <1>5, <1>7, <1>9, <1>10, <1>11, WriteSettled
  <1> DEFINE q == <<>>
  <1> HIDE DEF q
  <1>13. Unsteering(deferred', out')
    <2>1. q \in Seq(Deferred) /\ Write(q, o, {}) /\ Unsteering(q, o) /\ {} \in SUBSET Effect
      BY <1>7, <1>8, <1>9 DEF q
    <2>2. \A e \in Effect : Places(e, deferred', out') = Places(e, q, o)
      BY <1>5, <2>1, WritePlaces
    <2>. QED  BY <2>1, <2>2, SpokenKind DEF Unsteering
  <1>14. turn'.question = NoMessage /\ turn'.delivery = "Open" /\ ~turn'.stopping
    BY <1>1 DEF NoTurn
  <1>. QED  BY <1>1, <1>12, <1>13, <1>14, RestClean DEF Unstopped

THEOREM OnceInvariance == Spec => []Once
  <1>1. Init => Once
    <2> SUFFICES ASSUME Init PROVE Clean
      BY DEF Once
    <2>1. /\ put = [m \in Message |-> 0] /\ turn = NoTurn /\ stopsHeld = FALSE
          /\ deferred = <<>> /\ out = {} /\ pending = "None"
      BY DEF Init
    <2>2. /\ turn.stage = "None" /\ turn.delivery = "Open" /\ ~turn.stopping
      BY <2>1 DEF NoTurn
    <2>3. Unsteering(deferred, out)  BY <2>1 DEF Unsteering, Places, At
    <2>4. Hands(put, turn, pending, job, deferred, out, disk)
      BY <2>1, <2>2, <2>3, QuietHands
    <2>5. Asks(put, turn, job, deferred, out, disk)
      BY <2>2 DEF Asks, Commanding
    <2>6. Settled(put, said, job, deferred, disk)  BY <2>1 DEF Settled
    <2>. QED  BY <2>1, <2>2, <2>4, <2>5, <2>6 DEF Clean, Unstopped
  <1>2. Kempt /\ Kempt' /\ Once /\ [Next]_vars => Once'
    <2> SUFFICES ASSUME Kempt, Kempt', Once, [Next]_vars, used'.stops = 0
                 PROVE  Clean'
      BY DEF Once
    <2>1. CASE UNCHANGED vars
      <3>1. UNCHANGED <<job, turn, stopsHeld, pending, deferred, disk, out, said, put, used>>
        BY <2>1 DEF vars, memory, world
      <3>. QED  BY <3>1 DEF Once, Clean
    <2>2. CASE Next
      <3>1. ~Stop /\ used.stops = 0
        <4>1. used \in [stops : Nat, retires : Nat, failures : Nat, crashes : Nat]
          BY DEF Kempt, Inv
        <4>2. CASE Stop
          <5>1. used'.stops = used.stops + 1  BY <4>1, <4>2 DEF Stop
          <5>. QED  BY <4>1, <5>1
        <4>3. CASE Retire \/ Unwritten \/ Restart
          <5>1. used'.stops = used.stops  BY <4>1, <4>3 DEF Retire, Unwritten, Restart
          <5>. QED  BY <4>2, <5>1
        <4>4. CASE ~(Stop \/ Retire \/ Unwritten \/ Restart)
          <5>1. used' = used
            BY <2>2, <4>4 DEF Next, Person, Begin, Say, Agent, AgentReady, AgentAnswered,
               AgentSpoke, Claim, SteerLanded, SteerWaits, RoomAnswered, RoomMade,
               RoomRefused, WriteAnswered, Landed, ThreadAnswered, ThreadRead,
               CommandAnswered, Looked, Built, Made, Up, Wrapped, CheckedOut,
               ProcessEnded, CancelOverdue, Discarded, world
          <5>. QED  BY <4>4, <5>1
        <4>. QED  BY <4>2, <4>3, <4>4
      <3>2. Clean /\ Inv'  BY <3>1 DEF Once, Kempt
      <3>. QED
        BY <2>2, <3>1, <3>2, BeginClean, SayClean, RetireClean, AgentClean, RoomsClean,
           LandedClean, UnwrittenClean, ThreadsClean, CommandsClean, ProcessEndedClean,
           OthersClean, RestartClean DEF Next, Person, WriteAnswered
    <2>. QED  BY <2>1, <2>2
  <1>. QED  BY <1>1, <1>2, PromisesInvariance, PTL DEF Spec

\* Of a job nobody has stopped: a message is put to the agent as new once at
\* most, as a question or by being handed over, and nothing outside hears of
\* it before the record that says so is on the disk.  However writes fail,
\* threads come late and the instance dies, no agent is asked a thing twice.
THEOREM PutToTheAgentOnce == Spec => []HandedOverOnce
  <1>1. Kempt /\ Once => HandedOverOnce
    <2> SUFFICES ASSUME Kempt, Clean PROVE NeverTwiceAsNew /\ RecordedBeforeHanded
      BY DEF Once, HandedOverOnce
    <2>1. put \in [Message -> Nat] /\ Len(deferred) \in Nat  BY KemptHolds
    <2>2. NeverTwiceAsNew
      <3> SUFFICES ASSUME NEW m \in Message PROVE put[m] <= 1
        BY DEF NeverTwiceAsNew
      <3>1. put[m] > 0 => put[m] = 1  BY DEF Clean, Settled
      <3>. QED  BY <2>1, <3>1
    <2>3. RecordedBeforeHanded
      <3> SUFFICES ASSUME NEW m \in Message,
                          Steer(m) \in out \/ (Step \in out /\ turn.question = m)
                   PROVE  m \in InHand(disk)
        BY DEF RecordedBeforeHanded
      <3>1. Since(m, 0, deferred, disk) => m \in InHand(disk)
        BY <2>1 DEF Since, RecordAt
      <3>2. CASE Steer(m) \in out
        <4>1. 0 \in Places(Steer(m), deferred, out)  BY <2>1, <3>2 DEF Places, At
        <4>. QED  BY <3>1, <4>1 DEF Clean, Hands
      <3>3. CASE Step \in out /\ turn.question = m
        <4>1. 0 \in Places(Step, deferred, out)  BY <2>1, <3>3 DEF Places, At
        <4>2. turn.stage \in Commanding  BY <4>1, KemptHolds
        <4>3. m # NoMessage  BY DEF Message, NoMessage
        <4>. QED  BY <3>1, <3>3, <4>1, <4>2, <4>3 DEF Clean, Asks
      <3>. QED  BY <3>2, <3>3
    <2>. QED  BY <2>2, <2>3
  <1>. QED  BY <1>1, PromisesInvariance, OnceInvariance, PTL

=============================================================================
