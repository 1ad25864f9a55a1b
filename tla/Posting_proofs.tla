--------------------------- MODULE Posting_proofs ---------------------------
(***************************************************************************)
(* A room's posts land in the order they were asked for, and its chain goes *)
(* on. Of a room's posts one is out, or waits for one write, while the       *)
(* others wait behind it in their order: Going says where that one is, and   *)
(* InOrder what the instance's memory is between two steps. Landing is what  *)
(* it is while that one's answer is dealt with and no other is out yet.      *)
(*                                                                         *)
(* A turn's messages are tended one after another, as many as there are;    *)
(* what that preserves is by induction on their number.                      *)
(***************************************************************************)
EXTENDS Posting, FiniteSetTheorems, SequenceTheorems, WellFoundedInduction, TLAPS

----------------------------------------------------------------------------
(* Induction on the natural numbers, from the least element of a set of them.*)

LEMMA Least ==
  ASSUME NEW T, T \subseteq Nat, T # {}
  PROVE  \E n \in T : \A m \in T : ~(m < n)
<1>1. IsWellFoundedOn(OpToRel(<, Nat), Nat)
  BY NatLessThanWellFounded, Zenon
<1>2. \E x \in T : \A y \in T : ~(<<y, x>> \in OpToRel(<, Nat))
  BY <1>1, WFMin, Zenon
<1> QED
  BY <1>2 DEF OpToRel

LEMMA Induction ==
  ASSUME NEW S, 0 \in S, \A n \in Nat : n \in S => n + 1 \in S
  PROVE  Nat \subseteq S
<1> DEFINE T == Nat \ S
<1>1. SUFFICES ASSUME T # {} PROVE FALSE
  OBVIOUS
<1>2. PICK n \in T : \A m \in T : ~(m < n)
  BY <1>1, Least
<1>3. n # 0 /\ n - 1 \in Nat
  BY <1>2
<1>4. n - 1 \in S
  BY <1>2, <1>3
<1> QED
  BY <1>2, <1>3, <1>4

----------------------------------------------------------------------------
(* What the instance holds of a room, within a step. *)

Memory == [next : Nat, kept : SUBSET Open, inFlight : BOOLEAN,
           waiting : Seq(Request), writes : Seq(Write), out : SUBSET Request,
           timers : SUBSET [turn : 1..MaxTurns, run : Nat], asked : Nat,
           staged : Seq(Request), notice : Nat]

\* One message at most is open.
OneOpen(m) == \A o, p \in m.kept : o.at = "Open" /\ p.at = "Open" => o = p

Sound == {m \in Memory : OneOpen(m)}

Sent(m) == {r \in m.out : r.kind # "Growing"}

\* What a step may do without touching the chain.
SameChain(m, n) ==
  /\ n.inFlight = m.inFlight /\ n.waiting = m.waiting /\ n.writes = m.writes
  /\ n.asked = m.asked /\ n.staged = m.staged /\ Sent(n) = Sent(m)

None(ws) == \A i \in 1..Len(ws) : ws[i].posts = <<>>

\* The post waits for one write, and no other waits for any.
Alone(ws, p) ==
  \E i \in 1..Len(ws) :
    /\ ws[i].posts = <<p>>
    /\ \A j \in 1..Len(ws) : j # i => ws[j].posts = <<>>

Idle(m) == Sent(m) = {} /\ None(m.writes) /\ m.staged = <<>>

\* Where the post is that is on its way.
Going(m, p) ==
  \/ Sent(m) = {p} /\ None(m.writes) /\ m.staged = <<>>
  \/ Sent(m) = {} /\ Alone(m.writes, p) /\ m.staged = <<>>
  \/ Sent(m) = {} /\ None(m.writes) /\ m.staged = <<p>>

\* The posts that wait are in their order, and after the one numbered.
Behind(m, k) ==
  \A i \in 1..Len(m.waiting) :
    /\ m.waiting[i].kind # "Growing"
    /\ k < m.waiting[i].n /\ m.waiting[i].n <= m.asked
    /\ \A j \in 1..Len(m.waiting) : i < j => m.waiting[i].n < m.waiting[j].n

\* The calls have their posts among those that wait.
Waited(m, calls) == \A c \in calls : \E i \in 1..Len(m.waiting) : m.waiting[i].call = c

First(m, k, calls, p) ==
  /\ p.kind # "Growing" /\ k < p.n /\ p.n <= m.asked
  /\ Going(m, p) /\ Behind(m, p.n)
  /\ Waited(m, calls \ {p.call})

\* k is the number of the room's last post, calls are those held open.
InOrder(k, calls) ==
  {m \in Sound :
     /\ k <= m.asked
     /\ m.inFlight => \E p \in Request : First(m, k, calls, p)
     /\ ~m.inFlight => Idle(m) /\ m.waiting = <<>> /\ calls = {}}

Landing(k, calls) ==
  {m \in Sound :
     /\ k <= m.asked /\ m.inFlight
     /\ Idle(m) /\ Behind(m, k) /\ Waited(m, calls)}

LEMMA ChainKept ==
  ASSUME NEW k \in Nat, NEW calls, NEW m \in Sound, NEW n \in Sound, SameChain(m, n)
  PROVE  /\ m \in InOrder(k, calls) => n \in InOrder(k, calls)
         /\ m \in Landing(k, calls) => n \in Landing(k, calls)
<1>1. /\ n.inFlight = m.inFlight /\ n.waiting = m.waiting /\ n.writes = m.writes
      /\ n.asked = m.asked /\ n.staged = m.staged /\ Sent(n) = Sent(m)
  BY DEF SameChain
<1>2. Idle(n) <=> Idle(m)
  BY <1>1 DEF Idle
<1>3. \A j : Behind(n, j) <=> Behind(m, j)
  BY <1>1 DEF Behind
<1>4. \A c : Waited(n, c) <=> Waited(m, c)
  BY <1>1 DEF Waited
<1>5. \A p : Going(n, p) <=> Going(m, p)
  BY <1>1 DEF Going
<1>6. \A p : First(n, k, calls, p) <=> First(m, k, calls, p)
  BY <1>1, <1>3, <1>4, <1>5 DEF First
<1>7. m \in InOrder(k, calls) => n \in InOrder(k, calls)
  BY <1>1, <1>2, <1>6 DEF InOrder
<1>8. m \in Landing(k, calls) => n \in Landing(k, calls)
  BY <1>1, <1>2, <1>3, <1>4 DEF Landing
<1> QED
  BY <1>7, <1>8

----------------------------------------------------------------------------
(* The chain of a room's posts. *)

LEMMA Numbered ==
  ASSUME NEW post \in Request, NEW n \in Nat
  PROVE  /\ [post EXCEPT !.n = n] \in Request
         /\ [post EXCEPT !.n = n].n = n
         /\ [post EXCEPT !.n = n].kind = post.kind
         /\ [post EXCEPT !.n = n].call = post.call
         /\ [post EXCEPT !.n = n].after = post.after
<1> DEFINE p == [post EXCEPT !.n = n]
<1>1. /\ post \in [kind : {"Notice", "Saying", "Transcript", "Growing"}, n : Nat,
                    run : Nat, turn : 0..MaxTurns, text : Seq(Entry),
                    message : Nat, call : Nat, after : BOOLEAN]
      /\ post.kind \in {"Transcript", "Growing"} => post.turn # 0
  BY DEF Request
<1>2. /\ p \in [kind : {"Notice", "Saying", "Transcript", "Growing"}, n : Nat,
                 run : Nat, turn : 0..MaxTurns, text : Seq(Entry),
                 message : Nat, call : Nat, after : BOOLEAN]
      /\ p.n = n /\ p.kind = post.kind /\ p.call = post.call
      /\ p.after = post.after /\ p.turn = post.turn
  BY <1>1
<1>3. p \in Request
  BY <1>1, <1>2 DEF Request
<1> QED
  BY <1>2, <1>3

LEMMA RequestTyped ==
  ASSUME NEW r \in Request
  PROVE  /\ r.n \in Nat /\ r.run \in Nat /\ r.turn \in 0..MaxTurns
         /\ r.kind \in {"Notice", "Saying", "Transcript", "Growing"}
         /\ r.kind \in {"Transcript", "Growing"} => r.turn # 0
         /\ r.text \in Seq(Entry) /\ r.message \in Nat /\ r.call \in Nat
         /\ r.after \in BOOLEAN
BY DEF Request

\* One more post at the end of those that wait.
LEMMA QueueGrows ==
  ASSUME NEW s \in Seq(Request), NEW p \in Request
  PROVE  /\ Append(s, p) \in Seq(Request) /\ Len(s) \in Nat
         /\ Len(Append(s, p)) = Len(s) + 1
         /\ Append(s, p)[Len(s) + 1] = p
         /\ \A i \in 1..Len(s) : Append(s, p)[i] = s[i]
         /\ \A i \in 1..Len(s) : s[i] \in Request /\ s[i].n \in Nat
<1>1. \A i \in 1..Len(s) : s[i] \in Request
  OBVIOUS
<1> QED
  BY <1>1, RequestTyped

LEMMA BehindGrows ==
  ASSUME NEW m, m.waiting \in Seq(Request), m.asked \in Nat, NEW k \in Nat, k <= m.asked,
         Behind(m, k), NEW p \in Request, p.kind # "Growing", p.n = m.asked + 1,
         NEW e, e.waiting = Append(m.waiting, p), e.asked = m.asked + 1
  PROVE  Behind(e, k)
<1> DEFINE l == Len(m.waiting)
<1>1. /\ l \in Nat /\ Len(e.waiting) = l + 1 /\ e.waiting[l + 1] = p
      /\ \A i \in 1..l : e.waiting[i] = m.waiting[i] /\ m.waiting[i].n \in Nat
  BY QueueGrows
<1>2. \A i \in 1..l : m.waiting[i].n <= m.asked
  BY DEF Behind
<1>3. ASSUME NEW i \in 1..Len(e.waiting)
      PROVE  /\ e.waiting[i].kind # "Growing"
             /\ k < e.waiting[i].n /\ e.waiting[i].n <= e.asked
  <2>1. CASE i = l + 1
    BY <1>1, <2>1
  <2>2. CASE i \in 1..l
    BY <1>1, <1>2, <2>2 DEF Behind
  <2> QED
    BY <1>1, <2>1, <2>2
<1>4. ASSUME NEW i \in 1..Len(e.waiting), NEW j \in 1..Len(e.waiting), i < j
      PROVE  e.waiting[i].n < e.waiting[j].n
  <2>1. i \in 1..l
    BY <1>1, <1>4
  <2>2. CASE j = l + 1
    BY <1>1, <1>2, <2>1, <2>2
  <2>3. CASE j \in 1..l
    BY <1>1, <1>4, <2>1, <2>3 DEF Behind
  <2> QED
    BY <1>1, <2>2, <2>3
<1> QED
  BY <1>3, <1>4 DEF Behind

LEMMA EnqueueSound ==
  ASSUME NEW m \in Sound, NEW post \in Request
  PROVE  enqueue(m, post) \in Sound
<1> DEFINE p == [post EXCEPT !.n = m.asked + 1]
<1>1. m.asked + 1 \in Nat
  BY DEF Sound, Memory
<1>2. p \in Request
  BY <1>1, Numbered
<1> HIDE DEF p
<1>3. Append(m.waiting, p) \in Seq(Request) /\ Append(m.staged, p) \in Seq(Request)
  BY <1>2 DEF Sound, Memory
<1>4. enqueue(m, post) \in Memory
  BY <1>1, <1>2, <1>3 DEF Sound, Memory, enqueue, p
<1>5. enqueue(m, post).kept = m.kept
  BY DEF Sound, Memory, enqueue
<1> QED
  BY <1>4, <1>5 DEF Sound, OneOpen

LEMMA EnqueueInOrder ==
  ASSUME NEW k \in Nat, NEW calls, NEW m \in InOrder(k, calls),
         NEW post \in Request, post.kind # "Growing",
         NEW more, more \subseteq calls \union {post.call}
  PROVE  enqueue(m, post) \in InOrder(k, more)
<1> DEFINE p == [post EXCEPT !.n = m.asked + 1]
           e == enqueue(m, post)
<1>1. m \in Sound /\ m.asked \in Nat /\ k <= m.asked /\ m.waiting \in Seq(Request)
  BY DEF InOrder, Sound, Memory
<1>2. /\ p \in Request /\ p.kind # "Growing" /\ p.n = m.asked + 1 /\ p.call = post.call
  BY <1>1, Numbered
<1>3. e \in Sound
  BY <1>1, EnqueueSound
<1>4. e.asked = m.asked + 1 /\ e.inFlight
  BY <1>1 DEF enqueue, Sound, Memory
<1>5. CASE m.inFlight
  <2>1. /\ e.waiting = Append(m.waiting, p) /\ e.writes = m.writes
        /\ e.staged = m.staged /\ e.out = m.out
    BY <1>1, <1>5 DEF enqueue, Sound, Memory
  <2>2. PICK q \in Request : First(m, k, calls, q)
    BY <1>5 DEF InOrder
  <2>3. Going(e, q)
    BY <2>1, <2>2 DEF Going, First, Sent
  <2> HIDE DEF p, e
  <2>4. /\ Len(e.waiting) = Len(m.waiting) + 1
        /\ e.waiting[Len(m.waiting) + 1] = p
        /\ \A i \in 1..Len(m.waiting) : e.waiting[i] = m.waiting[i]
    BY <1>1, <1>2, <2>1, QueueGrows
  <2>5. Behind(e, q.n)
    <3>1. Behind(m, q.n) /\ q.n <= m.asked /\ q.n \in Nat
      BY <2>2, RequestTyped DEF First
    <3> QED
      BY <1>1, <1>2, <1>4, <2>1, <2>4, <3>1, BehindGrows
  <2>6. Waited(e, more \ {q.call})
    <3>1. SUFFICES ASSUME NEW c \in more \ {q.call}
                   PROVE  \E i \in 1..Len(e.waiting) : e.waiting[i].call = c
      BY DEF Waited
    <3>2. CASE c = post.call
      BY <1>1, <1>2, <2>4, <3>2
    <3>3. CASE c # post.call
      <4>1. c \in calls \ {q.call}
        BY <3>1, <3>3
      <4>2. PICK i \in 1..Len(m.waiting) : m.waiting[i].call = c
        BY <4>1, <2>2 DEF First, Waited
      <4> QED
        BY <1>1, <4>2, <2>4
    <3> QED
      BY <3>2, <3>3
  <2>7. First(e, k, more, q)
    BY <1>1, <1>4, <2>2, <2>3, <2>5, <2>6, RequestTyped DEF First
  <2>8. k <= e.asked
    BY <1>1, <1>4
  <2> QED
    BY <1>3, <1>4, <2>7, <2>8, Zenon DEF InOrder, e
<1>6. CASE ~m.inFlight
  <2>1. /\ Idle(m) /\ m.waiting = <<>> /\ calls = {}
    BY <1>6 DEF InOrder
  <2>2. e.waiting = <<>> /\ e.writes = m.writes
    BY <1>1, <1>6, <2>1 DEF enqueue, Sound, Memory
  <2>3. Going(e, p)
    <3>1. CASE p.after
      <4>1. e.staged = Append(m.staged, p) /\ e.out = m.out
        BY <1>1, <1>6, <3>1 DEF enqueue, Sound, Memory
      <4>2. Append(m.staged, p) = <<p>>
        BY <2>1 DEF Idle
      <4> QED
        BY <2>1, <2>2, <4>1, <4>2 DEF Going, Idle, Sent
    <3>2. CASE ~p.after
      <4>1. e.staged = m.staged /\ e.out = m.out \union {p}
        BY <1>1, <1>6, <3>2 DEF enqueue, Sound, Memory
      <4> HIDE DEF p, e
      <4>2. Sent(e) = {p}
        BY <1>2, <2>1, <4>1 DEF Idle, Sent
      <4> QED
        BY <2>1, <2>2, <4>1, <4>2 DEF Going, Idle
    <3> QED
      BY <3>1, <3>2
  <2> HIDE DEF p, e
  <2>4. Behind(e, p.n) /\ Len(e.waiting) = 0
    BY <2>2 DEF Behind
  <2>5. more \ {p.call} = {}
    BY <1>2, <2>1
  <2>6. k < p.n /\ p.n <= e.asked /\ k <= e.asked
    BY <1>1, <1>2, <1>4
  <2>7. Waited(e, more \ {p.call})
    BY <2>5 DEF Waited
  <2>8. First(e, k, more, p)
    BY <1>2, <2>3, <2>4, <2>6, <2>7 DEF First
  <2> QED
    BY <1>2, <1>3, <1>4, <2>6, <2>8, Zenon DEF InOrder, e
<1> QED
  BY <1>5, <1>6

LEMMA EnqueueLanding ==
  ASSUME NEW k \in Nat, NEW calls, NEW m \in Landing(k, calls),
         NEW post \in Request, post.kind # "Growing"
  PROVE  enqueue(m, post) \in Landing(k, calls)
<1> DEFINE p == [post EXCEPT !.n = m.asked + 1]
           e == enqueue(m, post)
<1>1. m \in Sound /\ m.asked \in Nat /\ k <= m.asked /\ m.waiting \in Seq(Request)
  BY DEF Landing, Sound, Memory
<1>2. /\ p \in Request /\ p.kind # "Growing" /\ p.n = m.asked + 1
  <2>1. m.asked + 1 \in Nat
    BY <1>1
  <2> QED
    BY <2>1, Numbered
<1>3. e \in Sound
  BY <1>1, EnqueueSound
<1>4. /\ e.asked = m.asked + 1 /\ e.inFlight
      /\ e.waiting = Append(m.waiting, p) /\ e.writes = m.writes
      /\ e.staged = m.staged /\ e.out = m.out
  BY <1>1 DEF enqueue, Landing, Sound, Memory
<1>5. Idle(e)
  BY <1>4 DEF Idle, Sent, Landing
<1> HIDE DEF p, e
<1>6. /\ Len(e.waiting) = Len(m.waiting) + 1
      /\ e.waiting[Len(m.waiting) + 1] = p
      /\ \A i \in 1..Len(m.waiting) : e.waiting[i] = m.waiting[i]
  BY <1>1, <1>2, <1>4, QueueGrows
<1>8. Behind(e, k)
  BY <1>1, <1>2, <1>4, BehindGrows DEF Landing
<1>9. Waited(e, calls)
  <2>1. SUFFICES ASSUME NEW c \in calls
                 PROVE  \E i \in 1..Len(e.waiting) : e.waiting[i].call = c
    BY DEF Waited
  <2>2. Waited(m, calls)
    BY DEF Landing
  <2>3. PICK i \in 1..Len(m.waiting) : m.waiting[i].call = c
    BY <2>1, <2>2 DEF Waited
  <2>4. Len(m.waiting) \in Nat
    BY <1>1
  <2>5. i \in 1..Len(e.waiting) /\ e.waiting[i] = m.waiting[i]
    BY <1>6, <2>3, <2>4
  <2> QED
    BY <2>3, <2>5
<1>10. k <= e.asked
  BY <1>1, <1>4
<1> QED
  BY <1>3, <1>4, <1>5, <1>8, <1>9, <1>10, Zenon DEF Landing, e

\* The next of those that wait goes, at once or with the last write.
LEMMA NextPost ==
  ASSUME NEW k \in Nat, NEW calls, NEW m \in Landing(k, calls)
  PROVE  next_post(m) \in InOrder(k, calls)
<1> DEFINE e == next_post(m)
<1>1. /\ m \in Sound /\ m.asked \in Nat /\ k <= m.asked /\ m.waiting \in Seq(Request)
      /\ m.writes \in Seq(Write) /\ Idle(m) /\ Behind(m, k) /\ Waited(m, calls)
      /\ m.inFlight /\ m.out \subseteq Request /\ OneOpen(m) /\ m \in Memory
  BY DEF Landing, Sound, Memory
<1>2. CASE m.waiting = <<>>
  <2>1. calls = {}
    BY <1>1, <1>2 DEF Waited
  <2>2. e = [m EXCEPT !.inFlight = FALSE]
    BY <1>2 DEF next_post
  <2>3. e \in Memory /\ OneOpen(e)
    BY <1>1, <2>2 DEF Memory, OneOpen
  <2>4. Idle(e) /\ ~e.inFlight /\ e.waiting = <<>> /\ e.asked = m.asked
    BY <1>1, <1>2, <2>2 DEF Idle, Sent, Memory
  <2> QED
    BY <1>1, <2>1, <2>3, <2>4 DEF InOrder, Sound
<1>3. CASE m.waiting # <<>>
  <2> DEFINE p == Head(m.waiting)
             c == [m EXCEPT !.waiting = Tail(@)]
  <2>1. p \in Request /\ p = m.waiting[1] /\ Tail(m.waiting) \in Seq(Request)
    BY <1>1, <1>3
  <2>2. /\ Len(Tail(m.waiting)) = Len(m.waiting) - 1
        /\ \A i \in 1..Len(Tail(m.waiting)) : Tail(m.waiting)[i] = m.waiting[i + 1]
    BY <1>1, <1>3
  <2>3. p.kind # "Growing" /\ k < p.n /\ p.n <= m.asked
    BY <1>1, <1>3, <2>1 DEF Behind
  <2>4. /\ c \in Memory /\ c.kept = m.kept /\ c.writes = m.writes /\ c.out = m.out
        /\ c.waiting = Tail(m.waiting) /\ c.staged = m.staged
        /\ c.asked = m.asked /\ c.inFlight = m.inFlight
    BY <1>1, <2>1 DEF Memory
  <2>5. e \in Memory /\ Going(e, p) /\ e.kept = m.kept
        /\ e.waiting = Tail(m.waiting) /\ e.asked = m.asked /\ e.inFlight
    <3>1. CASE p.after /\ m.writes # <<>>
      <4> DEFINE last == Len(m.writes)
                 w  == [posts |-> <<p>>, notice |-> m.writes[last].notice]
                 ws == [m.writes EXCEPT ![last] = w]
      <4>1. /\ last \in 1..last /\ m.writes[last] \in Write
            /\ m.writes[last].posts = <<>>
        BY <1>1, <3>1 DEF Idle, None
      <4>2. Append(<<>>, p) = <<p>> /\ <<p>> \in Seq(Request)
        BY <2>1
      <4>3. [m.writes[last] EXCEPT !.posts = Append(@, p)] = w /\ w \in Write
        <5>1. [m.writes[last] EXCEPT !.posts = <<p>>] = w
          BY <4>1 DEF Write
        <5>2. w \in Write
          BY <4>1, <4>2 DEF Write
        <5> QED
          BY <4>1, <4>2, <5>1, <5>2
      <4>4. e = [c EXCEPT !.writes[last].posts = Append(@, p)]
        BY <1>3, <3>1 DEF next_post
      <4>5. c.writes[last] = m.writes[last]
        BY <2>4
      <4> HIDE DEF c, p, e
      <4>6. e = [c EXCEPT !.writes = ws]
        BY <2>4, <4>3, <4>4
      <4>7. /\ ws \in Seq(Write) /\ Len(ws) = last /\ ws[last].posts = <<p>>
            /\ \A i \in 1..Len(ws) : i # last => ws[i] = m.writes[i]
        BY <1>1, <4>1, <4>3
      <4> HIDE DEF ws
      <4>8. /\ e \in Memory /\ e.kept = m.kept /\ e.writes = ws /\ e.out = m.out
            /\ e.waiting = Tail(m.waiting) /\ e.staged = m.staged
            /\ e.asked = m.asked /\ e.inFlight
        BY <1>1, <2>4, <4>6, <4>7 DEF Memory
      <4>9. Alone(e.writes, p)
        BY <1>1, <4>1, <4>7, <4>8 DEF Idle, Alone, None
      <4>10. Sent(e) = {} /\ e.staged = <<>>
        BY <1>1, <4>8 DEF Idle, Sent
      <4> QED
        BY <4>8, <4>9, <4>10 DEF Going
    <3>2. CASE ~(p.after /\ m.writes # <<>>)
      <4>1. e = [c EXCEPT !.out = @ \union {p}]
        BY <1>3, <2>4, <3>2 DEF next_post
      <4> HIDE DEF c, p, e
      <4>2. e.out = m.out \union {p} /\ e.writes = m.writes /\ e.staged = m.staged
        BY <2>4, <4>1 DEF Memory
      <4>3. /\ e \in Memory /\ e.kept = m.kept
            /\ e.waiting = Tail(m.waiting) /\ e.asked = m.asked /\ e.inFlight
        BY <1>1, <2>1, <2>4, <4>1 DEF Memory
      <4>4. Sent(e) = {p}
        BY <1>1, <2>3, <4>2 DEF Sent, Idle
      <4> QED
        BY <1>1, <4>2, <4>3, <4>4 DEF Going, Idle
    <3> QED
      BY <3>1, <3>2
  <2>6. e \in Sound
    BY <1>1, <2>5 DEF Sound, OneOpen
  <2> HIDE DEF p, e
  <2>7. Behind(e, p.n)
    BY <1>1, <1>3, <2>1, <2>2, <2>5 DEF Behind
  <2>9. Waited(e, calls \ {p.call})
    <3>1. SUFFICES ASSUME NEW d \in calls, d # p.call
                   PROVE  \E i \in 1..Len(e.waiting) : e.waiting[i].call = d
      BY DEF Waited
    <3>2. PICK i \in 1..Len(m.waiting) : m.waiting[i].call = d
      BY <1>1 DEF Waited
    <3>3. i # 1
      BY <2>1, <3>1, <3>2
    <3>4. i - 1 \in 1..Len(e.waiting) /\ e.waiting[i - 1] = m.waiting[i]
      BY <1>1, <2>2, <2>5, <3>3
    <3> QED
      BY <3>2, <3>4
  <2>10. First(e, k, calls, p)
    BY <2>3, <2>5, <2>7, <2>9 DEF First
  <2> QED
    BY <1>1, <2>1, <2>5, <2>6, <2>10 DEF InOrder, e
<1> QED
  BY <1>2, <1>3

----------------------------------------------------------------------------
(* The messages of a transcript. *)

\* What a step on them comes to, for the chain: nothing, or a post asked for.
Quietly(m, n) == n \in Sound /\ SameChain(m, n)

Posts(m, n) ==
  \E c \in Sound, post \in Request :
    /\ SameChain(m, c) /\ post.kind # "Growing" /\ post.call = 0
    /\ n = enqueue(c, post)

LEMMA MemoryFields ==
  ASSUME NEW m \in Sound
  PROVE  /\ m \in Memory /\ m.next \in Nat /\ m.kept \subseteq Open /\ m.inFlight \in BOOLEAN
         /\ m.waiting \in Seq(Request) /\ m.writes \in Seq(Write)
         /\ m.out \subseteq Request /\ m.asked \in Nat /\ m.staged \in Seq(Request)
         /\ m.timers \subseteq [turn : 1..MaxTurns, run : Nat]
         /\ OneOpen(m)
BY DEF Sound, Memory

LEMMA KeptQuietly ==
  ASSUME NEW m \in Sound, NEW kk \in SUBSET Open,
         \A o, p \in kk : o.at = "Open" /\ p.at = "Open" => o = p
  PROVE  /\ Quietly(m, [m EXCEPT !.kept = kk])
         /\ [m EXCEPT !.kept = kk].kept = kk
         /\ [m EXCEPT !.kept = kk].next = m.next
         /\ [m EXCEPT !.kept = kk].timers = m.timers
         /\ [m EXCEPT !.kept = kk].out = m.out
<1> DEFINE n == [m EXCEPT !.kept = kk]
<1>1. /\ n \in Memory /\ n.kept = kk /\ n.inFlight = m.inFlight /\ n.waiting = m.waiting
      /\ n.writes = m.writes /\ n.asked = m.asked /\ n.staged = m.staged
      /\ n.out = m.out /\ n.next = m.next /\ n.timers = m.timers
  BY DEF Sound, Memory
<1> HIDE DEF n
<1>2. n \in Sound
  BY <1>1 DEF Sound, OneOpen
<1>3. SameChain(m, n)
  BY <1>1 DEF SameChain, Sent
<1> QED
  BY <1>1, <1>2, <1>3 DEF Quietly, n

LEMMA PutQuietly ==
  ASSUME NEW m \in Sound, NEW o \in m.kept, NEW c \in Open,
         c.at = o.at \/ c.at # "Open"
  PROVE  /\ Quietly(m, Put(m, o, c))
         /\ Put(m, o, c).kept = (m.kept \ {o}) \union {c}
         /\ Put(m, o, c).next = m.next
         /\ Put(m, o, c).timers = m.timers
         /\ Put(m, o, c).out = m.out
<1> DEFINE kk == (m.kept \ {o}) \union {c}
<1>1. kk \in SUBSET Open /\ Put(m, o, c) = [m EXCEPT !.kept = kk]
  BY MemoryFields DEF Put
<1>2. \A x, y \in kk : x.at = "Open" /\ y.at = "Open" => x = y
  BY MemoryFields DEF OneOpen
<1> HIDE DEF kk
<1>3. /\ Quietly(m, [m EXCEPT !.kept = kk])
      /\ [m EXCEPT !.kept = kk].kept = kk
      /\ [m EXCEPT !.kept = kk].next = m.next
      /\ [m EXCEPT !.kept = kk].timers = m.timers
      /\ [m EXCEPT !.kept = kk].out = m.out
  BY <1>1, <1>2, KeptQuietly
<1> QED
  BY <1>1, <1>3 DEF kk

LEMMA PruneQuietly ==
  ASSUME NEW m \in Sound
  PROVE  Quietly(m, prune(m))
<1> DEFINE kk == {o \in m.kept : \/ o.at = "Open"
                                 \/ o.at = "Closing" /\ ~done(o)
                                 \/ o.at = "Finishing" /\ ~settled(o)}
<1>1. kk \in SUBSET Open /\ prune(m) = [m EXCEPT !.kept = kk]
  BY MemoryFields DEF prune
<1>2. \A x, y \in kk : x.at = "Open" /\ y.at = "Open" => x = y
  BY MemoryFields DEF OneOpen
<1> HIDE DEF kk
<1> QED
  BY <1>1, <1>2, KeptQuietly

LEMMA QuietlyTwice ==
  ASSUME NEW m, NEW n, NEW o, Quietly(m, n), Quietly(n, o)
  PROVE  Quietly(m, o)
BY DEF Quietly, SameChain

LEMMA OpenTyped ==
  ASSUME NEW o \in Open
  PROVE  /\ o.run \in Nat /\ o.turn \in 1..MaxTurns /\ o.message \in Nat
         /\ o.entries \in Seq(Entry) /\ o.body \in {"Narration", "Working"}
         /\ [o EXCEPT !.standing = "Lost"] \in Open
         /\ [o EXCEPT !.standing = "Lost"].at = o.at
         /\ [o EXCEPT !.pacing = TRUE] \in Open
         /\ [o EXCEPT !.pacing = TRUE].at = o.at
         /\ [o EXCEPT !.pacing = FALSE] \in Open
         /\ [o EXCEPT !.pacing = FALSE].at = o.at
         /\ AsSent(o) \in Open /\ AsSent(o).at = o.at
BY DEF Open, AsSent

LEMMA AskedFor ==
  ASSUME NEW o \in Open
  PROVE  /\ Transcribes(o) \in Request /\ Edits(o) \in Request
         /\ Transcribes(o).kind = "Transcript" /\ Transcribes(o).call = 0
         /\ Edits(o).kind = "Growing"
<1>1. /\ o.run \in Nat /\ o.turn \in 1..MaxTurns /\ o.message \in Nat
      /\ o.entries \in Seq(Entry)
  BY OpenTyped
<1> DEFINE R == [kind : {"Notice", "Saying", "Transcript", "Growing"}, n : Nat,
                 run : Nat, turn : 0..MaxTurns, text : Seq(Entry),
                 message : Nat, call : Nat, after : BOOLEAN]
<1>4. o.turn \in 0..MaxTurns /\ o.turn # 0
  BY <1>1, PostingAssumption
<1>5. /\ Post("Transcript", FALSE) \in R /\ Post("Growing", FALSE) \in R
      /\ Post("Transcript", FALSE).kind = "Transcript"
      /\ Post("Transcript", FALSE).call = 0
      /\ Post("Growing", FALSE).kind = "Growing"
  BY PostingAssumption DEF Post
<1>6. ASSUME NEW r \in R
      PROVE  /\ [r EXCEPT !.run = o.run, !.turn = o.turn, !.text = o.entries] \in R
             /\ [r EXCEPT !.run = o.run, !.turn = o.turn, !.text = o.entries].kind = r.kind
             /\ [r EXCEPT !.run = o.run, !.turn = o.turn, !.text = o.entries].call = r.call
             /\ [r EXCEPT !.run = o.run, !.turn = o.turn, !.text = o.entries].turn = o.turn
  BY <1>1, <1>4
<1>7. ASSUME NEW r \in R
      PROVE  /\ [r EXCEPT !.run = o.run, !.turn = o.turn, !.text = o.entries,
                          !.message = o.message] \in R
             /\ [r EXCEPT !.run = o.run, !.turn = o.turn, !.text = o.entries,
                          !.message = o.message].kind = r.kind
             /\ [r EXCEPT !.run = o.run, !.turn = o.turn, !.text = o.entries,
                          !.message = o.message].turn = o.turn
  BY <1>1, <1>4
<1>8. /\ Transcribes(o) \in R /\ Transcribes(o).turn = o.turn
      /\ Transcribes(o).kind = "Transcript" /\ Transcribes(o).call = 0
  BY <1>5, <1>6 DEF Transcribes
<1>9. /\ Edits(o) \in R /\ Edits(o).turn = o.turn /\ Edits(o).kind = "Growing"
  BY <1>5, <1>7 DEF Edits
<1> QED
  BY <1>4, <1>8, <1>9 DEF Request

\* What one message needs is nothing, an edit, a wake, or a post.
LEMMA TendingMoves ==
  ASSUME NEW m \in Sound, NEW o \in m.kept, NEW paced \in BOOLEAN
  PROVE  Quietly(m, Tending(m, o, paced)) \/ Posts(m, Tending(m, o, paced))
<1> DEFINE t == Tending(m, o, paced)
           c == Put(m, o, AsSent(o))
<1>1. o \in Open /\ Quietly(m, m)
  BY MemoryFields DEF Quietly, SameChain
<1>2. CASE t = m
  BY <1>1, <1>2
<1>3. CASE t = Put(m, o, [o EXCEPT !.standing = "Lost"])
  <2> DEFINE l == [o EXCEPT !.standing = "Lost"]
  <2>1. l \in Open /\ l.at = o.at
    BY <1>1, OpenTyped
  <2> HIDE DEF l
  <2>2. Quietly(m, Put(m, o, l))
    BY <2>1, PutQuietly
  <2> QED
    BY <1>3, <2>2 DEF l
<1>4. Quietly(m, c) /\ c.out = m.out /\ c.timers = m.timers
  BY <1>1, OpenTyped, PutQuietly
<1>5. CASE t = enqueue(c, Transcribes(o))
  BY <1>1, <1>4, <1>5, AskedFor DEF Posts, Quietly
<1>6. CASE t = [c EXCEPT !.out = @ \union {Edits(o)}]
  <2> HIDE DEF c, t
  <2>1. Edits(o) \in Request /\ Edits(o).kind = "Growing"
    BY <1>1, AskedFor
  <2>2. c \in Sound
    BY <1>4 DEF Quietly
  <2>3. /\ t \in Memory /\ t.kept = c.kept /\ t.inFlight = c.inFlight
        /\ t.waiting = c.waiting
        /\ t.writes = c.writes /\ t.asked = c.asked /\ t.staged = c.staged
        /\ t.out = c.out \union {Edits(o)}
    BY <1>6, <2>1, <2>2 DEF Sound, Memory
  <2>4. Sent(t) = Sent(c)
    BY <2>1, <2>3 DEF Sent
  <2>5. Quietly(c, t)
    BY <2>2, <2>3, <2>4 DEF Quietly, SameChain, Sound, OneOpen
  <2> QED
    BY <1>4, <2>5, QuietlyTwice DEF t
<1>7. CASE t = [Put(m, o, [o EXCEPT !.pacing = TRUE]) EXCEPT
                  !.timers = @ \union {[turn |-> o.turn, run |-> o.run]}]
  <2> DEFINE d == Put(m, o, [o EXCEPT !.pacing = TRUE])
             w == [turn |-> o.turn, run |-> o.run]
  <2>1. Quietly(m, d) /\ d \in Sound
    BY <1>1, OpenTyped, PutQuietly DEF Quietly
  <2>2. w \in [turn : 1..MaxTurns, run : Nat]
    BY <1>1, OpenTyped
  <2>3. t = [d EXCEPT !.timers = @ \union {w}]
    BY <1>7
  <2> HIDE DEF d, t, w
  <2>4. /\ t \in Memory /\ t.kept = d.kept /\ t.inFlight = d.inFlight
        /\ t.waiting = d.waiting
        /\ t.writes = d.writes /\ t.asked = d.asked /\ t.staged = d.staged
        /\ t.out = d.out
    BY <2>1, <2>2, <2>3 DEF Sound, Memory
  <2>5. Quietly(d, t)
    BY <2>1, <2>4 DEF Quietly, SameChain, Sound, OneOpen, Sent
  <2> QED
    BY <2>1, <2>5, QuietlyTwice DEF t
<1> QED
  BY <1>2, <1>3, <1>5, <1>6, <1>7 DEF Tending

LEMMA MovesKeep ==
  ASSUME NEW k \in Nat, NEW calls, NEW m, NEW n, Quietly(m, n) \/ Posts(m, n)
  PROVE  /\ m \in InOrder(k, calls) => n \in InOrder(k, calls)
         /\ m \in Landing(k, calls) => n \in Landing(k, calls)
<1>1. CASE Quietly(m, n)
  BY <1>1, ChainKept DEF Quietly, InOrder, Landing
<1>2. CASE Posts(m, n)
  <2>1. PICK c \in Sound, post \in Request :
          /\ SameChain(m, c) /\ post.kind # "Growing" /\ post.call = 0
          /\ n = enqueue(c, post)
    BY <1>2 DEF Posts
  <2>2. ASSUME m \in InOrder(k, calls) PROVE n \in InOrder(k, calls)
    <3>1. c \in InOrder(k, calls)
      BY <2>1, <2>2, ChainKept DEF InOrder
    <3> QED
      BY <2>1, <3>1, EnqueueInOrder
  <2>3. ASSUME m \in Landing(k, calls) PROVE n \in Landing(k, calls)
    <3>1. c \in Landing(k, calls)
      BY <2>1, <2>3, ChainKept DEF Landing
    <3> QED
      BY <2>1, <3>1, EnqueueLanding
  <2> QED
    BY <2>2, <2>3
<1> QED
  BY <1>1, <1>2

LEMMA TendKeeps ==
  ASSUME NEW k \in Nat, NEW calls, NEW m \in Sound, NEW run, NEW paced \in BOOLEAN
  PROVE  /\ m \in InOrder(k, calls) => tend_after(m, run, paced) \in InOrder(k, calls)
         /\ m \in Landing(k, calls) => tend_after(m, run, paced) \in Landing(k, calls)
<1>1. CASE tend_after(m, run, paced) = m
  BY <1>1
<1>2. CASE tend_after(m, run, paced) # m
  <2>1. PICK o \in find_run(m, run) : tend_after(m, run, paced) = Tending(m, o, paced)
    BY <1>2 DEF tend_after
  <2>2. o \in m.kept
    BY <2>1 DEF find_run
  <2>3. \/ Quietly(m, tend_after(m, run, paced))
        \/ Posts(m, tend_after(m, run, paced))
    BY <2>1, <2>2, TendingMoves
  <2> QED
    BY <2>3, MovesKeep
<1> QED
  BY <1>1, <1>2

\* However many messages are tended.
LEMMA TendedEach ==
  ASSUME NEW m, m.next \in Nat, NEW runs, NEW G, m \in G,
         \A x \in G, run \in Nat : tend(x, run) \in G
  PROVE  TendAll(m, runs) \in G
<1> DEFINE Step(x, i) == IF i - 1 \in runs THEN tend(x, i - 1) ELSE x
           Each(f, j) == [i \in 0..j |-> IF i = 0 THEN m ELSE Step(f[i - 1], i)]
           Built == {j \in Nat : \E f : f = Each(f, j)}
<1>1. 0 \in Built
  <2> DEFINE f == [i \in 0..0 |-> m]
  <2>1. f = Each(f, 0)
    OBVIOUS
  <2> QED
    BY <2>1
<1>2. ASSUME NEW j \in Nat, j \in Built PROVE j + 1 \in Built
  <2>1. PICK f : f = Each(f, j)
    BY <1>2
  <2> DEFINE g == [i \in 0..j + 1 |-> IF i = j + 1 THEN Step(f[j], j + 1) ELSE f[i]]
  <2>2. g[j + 1] = Step(f[j], j + 1) /\ \A i \in 0..j : g[i] = f[i]
    OBVIOUS
  <2>3. ASSUME NEW i \in 0..j + 1
        PROVE  g[i] = IF i = 0 THEN m ELSE Step(g[i - 1], i)
    <3>1. CASE i = j + 1
      BY <2>2, <3>1
    <3>2. CASE i \in 0..j
      <4>1. g[i] = f[i] /\ (i # 0 => g[i - 1] = f[i - 1])
        BY <2>2, <3>2
      <4>2. f[i] = IF i = 0 THEN m ELSE Step(f[i - 1], i)
        BY <2>1, <3>2
      <4> QED
        BY <4>1, <4>2
    <3> QED
      BY <3>1, <3>2
  <2>4. g = Each(g, j + 1)
    BY <2>3
  <2>5. \E h : h = Each(h, j + 1)
    BY <2>4
  <2> HIDE DEF Each
  <2> QED
    BY <2>5
<1>3. m.next \in Built
  <2> HIDE DEF Built
  <2> QED
    BY <1>1, <1>2, Induction
<1> DEFINE c == CHOOSE f : f = Each(f, m.next)
<1>4. \E f : f = Each(f, m.next)
  BY <1>3
<1>5. c = Each(c, m.next)
  <2> HIDE DEF Each
  <2> QED
    BY <1>4
<1>6. TendAll(m, runs) = c[m.next]
  BY DEF TendAll
<1> HIDE DEF c
<1> DEFINE Reached == {i \in Nat : i <= m.next => c[i] \in G}
<1>7. 0 \in Reached
  BY <1>5
<1>8. ASSUME NEW i \in Nat, i \in Reached PROVE i + 1 \in Reached
  <2>1. SUFFICES ASSUME i + 1 <= m.next PROVE c[i + 1] \in G
    OBVIOUS
  <2>2. c[i] \in G
    BY <1>8, <2>1
  <2>3. c[i + 1] = Step(c[i], i + 1)
    BY <1>5, <2>1
  <2>4. (i + 1) - 1 = i
    OBVIOUS
  <2> QED
    BY <2>2, <2>3, <2>4
<1>9. m.next \in Reached
  <2> HIDE DEF Reached
  <2> QED
    BY <1>7, <1>8, Induction
<1> QED
  BY <1>6, <1>9

LEMMA TendAllKeeps ==
  ASSUME NEW k \in Nat, NEW calls, NEW m \in Sound, NEW runs
  PROVE  /\ m \in InOrder(k, calls) => TendAll(m, runs) \in InOrder(k, calls)
         /\ m \in Landing(k, calls) => TendAll(m, runs) \in Landing(k, calls)
<1>1. m.next \in Nat
  BY MemoryFields
<1>2. ASSUME m \in InOrder(k, calls) PROVE TendAll(m, runs) \in InOrder(k, calls)
  <2> DEFINE G == InOrder(k, calls)
  <2>1. \A x \in G, run \in Nat : tend(x, run) \in G
    BY TendKeeps DEF tend, InOrder
  <2> HIDE DEF G
  <2>2. m \in G
    BY <1>2 DEF G
  <2>3. TendAll(m, runs) \in G
    BY <1>1, <2>1, <2>2, TendedEach
  <2> QED
    BY <2>3 DEF G
<1>3. ASSUME m \in Landing(k, calls) PROVE TendAll(m, runs) \in Landing(k, calls)
  <2> DEFINE G == Landing(k, calls)
  <2>1. \A x \in G, run \in Nat : tend(x, run) \in G
    BY TendKeeps DEF tend, Landing
  <2> HIDE DEF G
  <2>2. m \in G
    BY <1>3 DEF G
  <2>3. TendAll(m, runs) \in G
    BY <1>1, <2>1, <2>2, TendedEach
  <2> QED
    BY <2>3 DEF G
<1> QED
  BY <1>2, <1>3

LEMMA CloseQuietly ==
  ASSUME NEW m \in Sound
  PROVE  /\ Quietly(m, close(m)) /\ close(m).next = m.next
         /\ \A o \in close(m).kept : o \in Open /\ o.at # "Open"
<1> DEFINE Shut(o) == IF o.at # "Open" THEN o
                      ELSE [o EXCEPT !.at = "Closing",
                                     !.standing = IF @ = "Lost" THEN @ ELSE "Closed"]
           kk == {Shut(o) : o \in m.kept}
<1>1. m.kept \subseteq Open
  BY MemoryFields
<1>2. ASSUME NEW o \in Open
      PROVE  Shut(o) \in Open /\ Shut(o).at # "Open"
  BY DEF Open
<1>3. close(m) = [m EXCEPT !.kept = kk]
  BY DEF close, Sound, Memory
<1> HIDE DEF Shut
<1>4. kk \in SUBSET Open /\ \A o \in kk : o.at # "Open"
  BY <1>1, <1>2
<1> HIDE DEF kk
<1>5. /\ Quietly(m, [m EXCEPT !.kept = kk])
      /\ [m EXCEPT !.kept = kk].kept = kk
      /\ [m EXCEPT !.kept = kk].next = m.next
  BY <1>4, KeptQuietly
<1> QED
  BY <1>3, <1>4, <1>5

\* Nothing being open, another is opened.
LEMMA BeginQuietly ==
  ASSUME NEW m \in Sound, \A o \in m.kept : o.at # "Open", turn \in 1..MaxTurns,
         NEW body \in {"Narration", "Working"}, NEW entries \in Seq(Entry)
  PROVE  Quietly(m, begin(m, body, entries))
<1> DEFINE o == [run |-> m.next, turn |-> turn, body |-> body,
                 entries |-> entries, sent |-> <<>>, message |-> 0,
                 awaiting |-> FALSE, pacing |-> FALSE,
                 standing |-> "Growing", at |-> "Open"]
           n == begin(m, body, entries)
<1>1. m.next \in Nat /\ m.kept \subseteq Open
  BY MemoryFields
<1>2. o \in Open
  BY <1>1 DEF Open
<1> DEFINE kk == m.kept \union {o}
           nn == m.next + 1
<1>3. n = [m EXCEPT !.next = nn, !.kept = kk]
  BY DEF begin
<1>4. nn \in Nat
  BY <1>1
<1>5. kk \subseteq Open
  BY <1>1, <1>2
<1>6. \A x, z \in kk : x.at = "Open" /\ z.at = "Open" => x = z
  OBVIOUS
<1> HIDE DEF kk, nn, n
<1>7. /\ n \in Memory /\ n.kept = kk /\ n.inFlight = m.inFlight
      /\ n.waiting = m.waiting
      /\ n.writes = m.writes /\ n.asked = m.asked /\ n.staged = m.staged
      /\ n.out = m.out
  BY <1>3, <1>4, <1>5 DEF Sound, Memory
<1>8. n \in Sound
  BY <1>6, <1>7 DEF Sound, OneOpen
<1> QED
  BY <1>7, <1>8 DEF Quietly, SameChain, Sent, n

LEMMA SaidQuietly ==
  ASSUME NEW m \in Sound, turn \in 1..MaxTurns, NEW entry \in Entry
  PROVE  Quietly(m, SaidOrWorked(m, entry))
<1> DEFINE same == {o \in Opened(m) : o.body = Kind(entry)}
<1>1. Kind(entry) \in {"Narration", "Working"}
  BY DEF Kind
<1>2. CASE same = {}
  <2>1. SaidOrWorked(m, entry) = begin(close(m), Kind(entry), <<entry>>)
    BY <1>2 DEF SaidOrWorked
  <2>2. Quietly(m, close(m)) /\ \A o \in close(m).kept : o.at # "Open"
    BY CloseQuietly
  <2>3. <<entry>> \in Seq(Entry) /\ close(m) \in Sound
    BY <2>2 DEF Quietly
  <2>4. Quietly(close(m), begin(close(m), Kind(entry), <<entry>>))
    BY <1>1, <2>2, <2>3, BeginQuietly
  <2> QED
    BY <2>1, <2>2, <2>4, QuietlyTwice
<1>3. CASE same # {}
  <2> DEFINE o == CHOOSE o \in same : TRUE
             c == [o EXCEPT !.entries = Append(@, entry)]
  <2>1. SaidOrWorked(m, entry) = Put(m, o, c)
    BY <1>3 DEF SaidOrWorked
  <2>2. o \in same
    BY <1>3
  <2>3. o \in m.kept /\ o \in Open
    BY <2>2, MemoryFields DEF Opened
  <2> HIDE DEF o
  <2>4. c \in Open /\ c.at = o.at
    <3>1. o.entries \in Seq(Entry)
      BY <2>3, OpenTyped
    <3>2. Append(o.entries, entry) \in Seq(Entry)
      BY <3>1
    <3> QED
      BY <2>3, <3>2 DEF Open
  <2> HIDE DEF c
  <2> QED
    BY <2>1, <2>3, <2>4, PutQuietly
<1> QED
  BY <1>2, <1>3

LEMMA FitQuietly ==
  ASSUME NEW m \in Sound, turn \in 1..MaxTurns
  PROVE  Quietly(m, fit(m))
<1> DEFINE long == {o \in Opened(m) : Len(o.entries) > Limit}
<1>1. CASE long = {}
  BY <1>1 DEF fit, Quietly, SameChain
<1>2. CASE long # {}
  <2> DEFINE o == CHOOSE o \in long : TRUE
             c == [o EXCEPT !.entries = Front(@)]
             n == Put(m, o, c)
  <2>1. fit(m) = begin(close(n), o.body, <<Last(o.entries)>>)
    BY <1>2 DEF fit
  <2>2. o \in long
    BY <1>2
  <2>3. /\ o \in m.kept /\ o \in Open /\ Len(o.entries) > Limit
    BY <2>2, MemoryFields DEF Opened
  <2> HIDE DEF o
  <2>4. o.entries \in Seq(Entry) /\ Len(o.entries) \in Nat \ {0}
    <3>1. o.entries \in Seq(Entry)
      BY <2>3, OpenTyped
    <3>2. Limit \in Nat
      BY PostingAssumption
    <3> QED
      BY <2>3, <3>1, <3>2
  <2>5. Front(o.entries) \in Seq(Entry) /\ Last(o.entries) \in Entry
    BY <2>4 DEF Front, Last
  <2>6. c \in Open /\ c.at = o.at
    BY <2>3, <2>5 DEF Open
  <2> HIDE DEF c
  <2>7. Quietly(m, n) /\ n \in Sound
    BY <2>3, <2>6, PutQuietly DEF Quietly
  <2> HIDE DEF n
  <2>8. Quietly(n, close(n)) /\ close(n) \in Sound /\ \A x \in close(n).kept : x.at # "Open"
    BY <2>7, CloseQuietly DEF Quietly
  <2>9. o.body \in {"Narration", "Working"} /\ <<Last(o.entries)>> \in Seq(Entry)
    <3>1. o.body \in {"Narration", "Working"}
      BY <2>3, OpenTyped
    <3> QED
      BY <2>5, <3>1
  <2>10. Quietly(close(n), fit(m))
    BY <2>1, <2>8, <2>9, BeginQuietly
  <2> QED
    BY <2>7, <2>8, <2>10, QuietlyTwice
<1> QED
  BY <1>1, <1>2

LEMMA InOrderSound ==
  ASSUME NEW k, NEW calls
  PROVE  InOrder(k, calls) \subseteq Sound /\ Landing(k, calls) \subseteq Sound
BY DEF InOrder, Landing

LEMMA FinishKeeps ==
  ASSUME NEW k \in Nat, NEW calls, NEW m \in InOrder(k, calls)
  PROVE  finish(m) \in InOrder(k, calls)
<1> DEFINE mine == {o \in close(m).kept : o.at # "Finishing"}
           runs == {o.run : o \in mine}
           rest == {o \in m.kept : o.at = "Finishing" /\ o.run \notin runs}
           kk   == rest \union {[o EXCEPT !.at = "Finishing"] : o \in mine}
           n    == [m EXCEPT !.kept = kk]
<1>1. m \in Sound
  BY InOrderSound
<1>2. close(m).kept \subseteq Open
  BY <1>1, CloseQuietly
<1>3. \A o \in Open : [o EXCEPT !.at = "Finishing"] \in Open
                      /\ [o EXCEPT !.at = "Finishing"].at = "Finishing"
  BY DEF Open
<1>4. finish(m) = TendAll(n, runs)
  BY DEF finish
<1>5. kk \in SUBSET Open /\ \A o \in kk : o.at = "Finishing"
  BY <1>1, <1>2, <1>3, MemoryFields
<1> HIDE DEF kk, runs
<1>6. Quietly(m, n)
  BY <1>1, <1>5, KeptQuietly
<1> HIDE DEF n
<1>7. n \in Sound /\ n \in InOrder(k, calls)
  BY <1>6, MovesKeep DEF Quietly
<1> QED
  BY <1>4, <1>7, TendAllKeeps

LEMMA TendChangedKeeps ==
  ASSUME NEW k \in Nat, NEW calls, NEW m, NEW n \in InOrder(k, calls)
  PROVE  TendChanged(m, n) \in InOrder(k, calls)
BY TendAllKeeps, InOrderSound DEF TendChanged

----------------------------------------------------------------------------
(* What follows from an answer. *)

LEMMA RunAnsweredKeeps ==
  ASSUME NEW k \in Nat, NEW calls, NEW m \in Sound, NEW r, NEW message \in Nat
  PROVE  /\ m \in InOrder(k, calls) => run_answered(m, r, message) \in InOrder(k, calls)
         /\ m \in Landing(k, calls) => run_answered(m, r, message) \in Landing(k, calls)
<1> DEFINE found == find_run(m, r.run)
<1>1. CASE found = {}
  BY <1>1 DEF run_answered
<1>2. CASE found # {}
  <2> DEFINE o == CHOOSE o \in found : TRUE
             c == [o EXCEPT !.awaiting = FALSE,
                            !.message = IF r.kind = "Transcript" /\ message # 0
                                          THEN message ELSE @,
                            !.standing = IF message = 0 THEN "Lost" ELSE @]
             n == Put(m, o, c)
             t == tend(n, r.run)
  <2>1. run_answered(m, r, message) = prune(t)
    BY <1>2 DEF run_answered
  <2>2. o \in found
    BY <1>2
  <2>3. o \in m.kept /\ o \in Open
    BY <2>2, MemoryFields DEF find_run
  <2> HIDE DEF o
  <2>4. c \in Open /\ c.at = o.at
    BY <2>3 DEF Open
  <2> HIDE DEF c
  <2>5. Quietly(m, n) /\ n \in Sound
    BY <2>3, <2>4, PutQuietly DEF Quietly
  <2> HIDE DEF n
  <2>6. /\ n \in InOrder(k, calls) => t \in InOrder(k, calls)
        /\ n \in Landing(k, calls) => t \in Landing(k, calls)
    BY <2>5, TendKeeps DEF tend
  <2> HIDE DEF t
  <2>7. ASSUME t \in Sound
        PROVE  /\ t \in InOrder(k, calls) => prune(t) \in InOrder(k, calls)
               /\ t \in Landing(k, calls) => prune(t) \in Landing(k, calls)
    BY <2>7, PruneQuietly, MovesKeep
  <2>8. /\ m \in InOrder(k, calls) => n \in InOrder(k, calls)
        /\ m \in Landing(k, calls) => n \in Landing(k, calls)
    BY <2>5, MovesKeep
  <2> QED
    BY <2>1, <2>6, <2>7, <2>8, InOrderSound
<1> QED
  BY <1>1, <1>2

LEMMA PostAnswered ==
  ASSUME NEW k \in Nat, NEW calls, NEW m \in Landing(k, calls), NEW r \in Request,
         r.kind # "Growing", NEW message \in Nat
  PROVE  answered(m, r, message) \in InOrder(k, calls)
<1>1. m \in Sound
  BY InOrderSound
<1>2. CASE r.kind = "Transcript"
  <2>1. run_answered(m, r, message) \in Landing(k, calls)
    BY <1>1, RunAnsweredKeeps
  <2> QED
    BY <1>2, <2>1, NextPost DEF answered
<1>3. CASE r.kind \in {"Notice", "Saying"}
  BY <1>3, NextPost DEF answered
<1> QED
  BY <1>2, <1>3, RequestTyped

LEMMA EditAnswered ==
  ASSUME NEW k \in Nat, NEW calls, NEW m \in InOrder(k, calls), NEW r,
         r.kind = "Growing", NEW message \in Nat
  PROVE  answered(m, r, message) \in InOrder(k, calls)
BY InOrderSound, RunAnsweredKeeps DEF answered

\* What waited on the write that failed: nothing, or one post.
LEMMA NoneUnsent ==
  ASSUME NEW m
  PROVE  Unsent(m, <<>>) = m
<1> DEFINE Each(f) == [i \in 0..Len(<<>>) |->
                         IF i = 0 THEN m ELSE unsent(f[i - 1], <<>>[i])]
           c == CHOOSE f : f = Each(f)
           g == [i \in 0..0 |-> m]
<1>1. g = Each(g)
  OBVIOUS
<1>2. c = Each(c)
  <2>1. \E f : f = Each(f)
    BY <1>1
  <2> HIDE DEF Each
  <2> QED
    BY <2>1
<1>3. Unsent(m, <<>>) = c[Len(<<>>)]
  BY DEF Unsent
<1> HIDE DEF c
<1> QED
  BY <1>2, <1>3

LEMMA OneUnsent ==
  ASSUME NEW m, NEW p
  PROVE  Unsent(m, <<p>>) = unsent(m, p)
<1> DEFINE s == <<p>>
           Each(f) == [i \in 0..Len(s) |-> IF i = 0 THEN m ELSE unsent(f[i - 1], s[i])]
           c == CHOOSE f : f = Each(f)
           g == [i \in 0..1 |-> IF i = 0 THEN m ELSE unsent(m, p)]
<1>1. Len(s) = 1 /\ s[1] = p
  OBVIOUS
<1>2. Unsent(m, s) = c[Len(s)]
  BY DEF Unsent
<1> HIDE DEF s
<1>3. g[0] = m /\ g[1] = unsent(m, p)
  OBVIOUS
<1>4. \A i \in 0..1 : g[i] = IF i = 0 THEN m ELSE unsent(g[i - 1], s[i])
  <2>1. 0..1 = {0, 1}
    OBVIOUS
  <2> HIDE DEF g
  <2> QED
    BY <1>1, <1>3, <2>1
<1>5. g = Each(g)
  BY <1>1, <1>4
<1>6. c = Each(c)
  <2>1. \E f : f = Each(f)
    BY <1>5
  <2> HIDE DEF Each
  <2> QED
    BY <2>1
<1> HIDE DEF c
<1>7. c[0] = m
  BY <1>1, <1>6
<1>8. c[1] = unsent(c[0], s[1])
  BY <1>1, <1>6
<1> QED
  BY <1>1, <1>2, <1>7, <1>8 DEF s

----------------------------------------------------------------------------
(* The writes in flight. *)

LEMMA WriteJoins ==
  ASSUME NEW ws \in Seq(Write), NEW w \in Write
  PROVE  /\ Append(ws, w) \in Seq(Write)
         /\ None(ws) /\ w.posts = <<>> => None(Append(ws, w))
         /\ \A p : Alone(ws, p) /\ w.posts = <<>> => Alone(Append(ws, w), p)
         /\ \A p : None(ws) /\ w.posts = <<p>> => Alone(Append(ws, w), p)
<1> DEFINE l == Len(ws)
           a == Append(ws, w)
<1>1. /\ l \in Nat /\ a \in Seq(Write) /\ Len(a) = l + 1 /\ a[l + 1] = w
      /\ \A i \in 1..l : a[i] = ws[i]
  OBVIOUS
<1> HIDE DEF a
<1>2. ASSUME None(ws), w.posts = <<>> PROVE None(a)
  BY <1>1, <1>2 DEF None
<1>3. ASSUME NEW p, Alone(ws, p), w.posts = <<>> PROVE Alone(a, p)
  <2>1. PICK i \in 1..l : /\ ws[i].posts = <<p>>
                          /\ \A j \in 1..l : j # i => ws[j].posts = <<>>
    BY <1>3 DEF Alone
  <2>2. i \in 1..Len(a) /\ a[i].posts = <<p>>
    BY <1>1, <2>1
  <2>3. \A j \in 1..Len(a) : j # i => a[j].posts = <<>>
    BY <1>1, <1>3, <2>1
  <2> QED
    BY <2>2, <2>3 DEF Alone
<1>4. ASSUME NEW p, None(ws), w.posts = <<p>> PROVE Alone(a, p)
  <2>1. l + 1 \in 1..Len(a) /\ a[l + 1].posts = <<p>>
    BY <1>1, <1>4
  <2>2. \A j \in 1..Len(a) : j # l + 1 => a[j].posts = <<>>
    BY <1>1, <1>4 DEF None
  <2> QED
    BY <2>1, <2>2 DEF Alone
<1> QED
  BY <1>1, <1>2, <1>3, <1>4 DEF a

LEMMA WriteLeaves ==
  ASSUME NEW ws \in Seq(Write), ws # <<>>
  PROVE  /\ Tail(ws) \in Seq(Write) /\ Head(ws) \in Write
         /\ None(ws) => None(Tail(ws)) /\ Head(ws).posts = <<>>
         /\ \A p : Alone(ws, p) =>
              \/ Head(ws).posts = <<p>> /\ None(Tail(ws))
              \/ Head(ws).posts = <<>> /\ Alone(Tail(ws), p)
<1> DEFINE t == Tail(ws)
<1>1. /\ t \in Seq(Write) /\ Head(ws) \in Write /\ Head(ws) = ws[1]
      /\ Len(ws) \in Nat \ {0} /\ Len(t) = Len(ws) - 1
      /\ \A i \in 1..Len(t) : t[i] = ws[i + 1]
  OBVIOUS
<1> HIDE DEF t
<1>2. ASSUME None(ws) PROVE None(t) /\ Head(ws).posts = <<>>
  BY <1>1, <1>2 DEF None
<1>3. ASSUME NEW p, Alone(ws, p)
      PROVE  \/ Head(ws).posts = <<p>> /\ None(t)
             \/ Head(ws).posts = <<>> /\ Alone(t, p)
  <2>1. PICK i \in 1..Len(ws) : /\ ws[i].posts = <<p>>
                                /\ \A j \in 1..Len(ws) : j # i => ws[j].posts = <<>>
    BY <1>3 DEF Alone
  <2>2. CASE i = 1
    <3>1. \A j \in 1..Len(t) : j + 1 \in 1..Len(ws) /\ j + 1 # 1
      BY <1>1
    <3>2. \A j \in 1..Len(t) : t[j].posts = <<>>
      BY <1>1, <2>1, <2>2, <3>1
    <3> QED
      BY <1>1, <2>1, <2>2, <3>2 DEF None
  <2>3. CASE i # 1
    <3>1. i - 1 \in 1..Len(t) /\ t[i - 1].posts = <<p>>
      <4>1. i - 1 \in 1..Len(t) /\ (i - 1) + 1 = i
        BY <1>1, <2>1, <2>3
      <4>2. t[i - 1] = ws[i]
        BY <1>1, <4>1
      <4> QED
        BY <2>1, <4>1, <4>2
    <3>2. \A j \in 1..Len(t) : j # i - 1 => t[j].posts = <<>>
      BY <1>1, <2>1
    <3>3. Head(ws).posts = <<>>
      BY <1>1, <2>1, <2>3
    <3> QED
      BY <3>1, <3>2, <3>3 DEF Alone
  <2> QED
    BY <2>2, <2>3
<1> QED
  BY <1>1, <1>2, <1>3 DEF t

----------------------------------------------------------------------------
(* A step's last act. *)

LEMMA NowFields ==
  /\ Now.next = next /\ Now.kept = kept /\ Now.inFlight = inFlight
  /\ Now.waiting = waiting /\ Now.writes = writes /\ Now.out = out
  /\ Now.timers = timers /\ Now.asked = asked /\ Now.staged = <<>> /\ Now.notice = 0
BY DEF Now

\* What is in a step's memory but not held back is what the instance is left
\* with.
LEMMA LeftWith ==
  ASSUME NEW m \in Sound, next' = m.next, kept' = m.kept, timers' = m.timers,
         asked' = m.asked, inFlight' = m.inFlight, waiting' = m.waiting,
         out' \in SUBSET Request, writes' \in Seq(Write)
  PROVE  Now' \in Sound
<1>1. Now' \in Memory
  BY MemoryFields DEF Now, Memory
<1>2. Now'.kept = m.kept
  BY DEF Now
<1> QED
  BY <1>1, <1>2 DEF Sound, OneOpen

LEMMA LeftWithNow ==
  ASSUME Now \in Sound, next' \in Nat, timers' \subseteq [turn : 1..MaxTurns, run : Nat],
         UNCHANGED <<kept, inFlight, waiting, asked>>,
         out' \in SUBSET Request, writes' \in Seq(Write)
  PROVE  Now' \in Sound
<1>1. Now' \in Memory
  BY MemoryFields DEF Now, Memory
<1>2. Now'.kept = Now.kept
  BY DEF Now
<1> QED
  BY <1>1, <1>2 DEF Sound, OneOpen

LEMMA Flushed ==
  ASSUME NEW k \in Nat, NEW calls, NEW m \in InOrder(k, calls),
         NEW changed \in BOOLEAN, flush(m, changed)
  PROVE  Now' \in InOrder(k, calls)
<1> DEFINE w == [posts |-> m.staged, notice |-> m.notice]
           ws == Append(m.writes, w)
<1>1. m \in Sound
  BY InOrderSound
<1>2. /\ next' = m.next /\ kept' = m.kept /\ timers' = m.timers
      /\ asked' = m.asked /\ inFlight' = m.inFlight /\ waiting' = m.waiting
      /\ changed => out' = m.out /\ writes' = ws
      /\ ~changed => out' = m.out \union Range(m.staged) /\ writes' = m.writes
  BY DEF flush
<1>3. /\ m.waiting \in Seq(Request) /\ m.writes \in Seq(Write) /\ m.out \subseteq Request
      /\ m.staged \in Seq(Request) /\ m.notice \in Nat /\ m.asked \in Nat
  BY <1>1 DEF Sound, Memory
<1>4. w \in Write /\ w.posts = m.staged
  BY <1>3 DEF Write
<1>5. Range(m.staged) \subseteq Request
  BY <1>3 DEF Range
<1> HIDE DEF w
<1>6. ws \in Seq(Write)
  BY <1>3, <1>4
<1> HIDE DEF ws
<1>7. Now' \in Sound
  BY <1>1, <1>2, <1>3, <1>5, <1>6, LeftWith
<1>8. /\ Now'.inFlight = m.inFlight /\ Now'.waiting = m.waiting /\ Now'.asked = m.asked
      /\ Now'.staged = <<>> /\ Now'.out = out' /\ Now'.writes = writes'
  BY <1>2 DEF Now
<1> DEFINE n == Now'
<1> HIDE DEF n
<1>9. /\ n \in Sound /\ n.inFlight = m.inFlight /\ n.waiting = m.waiting
      /\ n.asked = m.asked /\ n.staged = <<>> /\ n.out = out' /\ n.writes = writes'
  BY <1>7, <1>8 DEF n
<1>10. m.staged = <<>> => Range(m.staged) = {}
  BY DEF Range
<1>11. k <= n.asked
  BY <1>9 DEF InOrder
<1>12. CASE ~m.inFlight
  <2>1. Idle(m) /\ m.waiting = <<>> /\ calls = {}
    BY <1>12 DEF InOrder
  <2>2. None(n.writes)
    <3>1. None(m.writes) /\ w.posts = <<>>
      BY <1>4, <2>1 DEF Idle
    <3>2. None(ws)
      BY <1>3, <1>4, <3>1, WriteJoins DEF ws
    <3> QED
      BY <1>2, <1>9, <3>1, <3>2
  <2>3. n.out = m.out
    BY <1>2, <1>9, <1>10, <2>1 DEF Idle
  <2>4. Idle(n)
    BY <1>9, <2>1, <2>2, <2>3 DEF Idle, Sent
  <2> QED
    BY <1>9, <1>11, <1>12, <2>1, <2>4 DEF InOrder, n
<1>13. CASE m.inFlight
  <2>1. PICK p \in Request : First(m, k, calls, p)
    BY <1>13 DEF InOrder
  <2>2. Going(n, p)
    <3>1. CASE m.staged = <<>>
      <4>1. n.out = m.out
        BY <1>2, <1>9, <1>10, <3>1
      <4>2. /\ None(m.writes) => None(n.writes)
            /\ Alone(m.writes, p) => Alone(n.writes, p)
        BY <1>2, <1>3, <1>4, <1>9, <3>1, WriteJoins DEF ws
      <4> QED
        BY <1>9, <2>1, <3>1, <4>1, <4>2 DEF First, Going, Sent
    <3>2. CASE m.staged # <<>>
      <4>1. Sent(m) = {} /\ None(m.writes) /\ m.staged = <<p>>
        BY <2>1, <3>2 DEF First, Going
      <4>2. CASE changed
        <5>1. n.out = m.out /\ n.writes = ws
          BY <1>2, <1>9, <4>2
        <5>2. Alone(ws, p)
          BY <1>3, <1>4, <4>1, WriteJoins DEF ws
        <5> QED
          BY <1>9, <4>1, <5>1, <5>2 DEF Going, Sent
      <4>3. CASE ~changed
        <5>1. Range(m.staged) = {p}
          BY <4>1 DEF Range
        <5>2. n.out = m.out \union {p} /\ n.writes = m.writes
          BY <1>2, <1>9, <4>3, <5>1
        <5>3. Sent(n) = {p}
          BY <2>1, <4>1, <5>2 DEF Sent, First
        <5> QED
          BY <1>9, <4>1, <5>2, <5>3 DEF Going
      <4> QED
        BY <4>2, <4>3
    <3> QED
      BY <3>1, <3>2
  <2>3. Behind(n, p.n) /\ Waited(n, calls \ {p.call})
    BY <1>9, <2>1 DEF First, Behind, Waited
  <2>4. First(n, k, calls, p)
    BY <1>9, <2>1, <2>2, <2>3 DEF First
  <2> QED
    BY <1>9, <1>11, <1>13, <2>4 DEF InOrder, n
<1> QED
  BY <1>12, <1>13

\* A request the world answered is no more on its way.
LEMMA Answered ==
  ASSUME NEW k \in Nat, NEW calls, NEW m \in InOrder(k, calls), m.staged = <<>>,
         NEW r \in m.out
  PROVE  LET n == [m EXCEPT !.out = @ \ {r}] IN
         /\ r \in Request
         /\ r.kind = "Growing" => n \in InOrder(k, calls)
         /\ r.kind # "Growing" =>
              k < r.n /\ n \in Landing(k, calls \ {r.call})
                      /\ n \in Landing(r.n, calls \ {r.call})
<1> DEFINE oo == m.out \ {r}
           n  == [m EXCEPT !.out = oo]
<1>1. m \in Sound /\ m.out \subseteq Request
  BY InOrderSound, MemoryFields
<1>2. oo \subseteq Request
  BY <1>1
<1>3. \A x \in oo : x \in m.out /\ x # r
  OBVIOUS
<1>4. \A x \in m.out : x # r => x \in oo
  OBVIOUS
<1>5. [m EXCEPT !.out = @ \ {r}] = n
  OBVIOUS
<1> HIDE DEF oo
<1>6. /\ n \in Memory /\ n.kept = m.kept /\ n.inFlight = m.inFlight
      /\ n.waiting = m.waiting
      /\ n.writes = m.writes /\ n.asked = m.asked /\ n.staged = m.staged
      /\ n.out = oo
  BY <1>1, <1>2 DEF Sound, Memory
<1> HIDE DEF n
<1>7. n \in Sound
  BY <1>1, <1>6 DEF Sound, OneOpen
<1>8. r \in Request
  BY <1>1
<1>9. ASSUME r.kind = "Growing" PROVE n \in InOrder(k, calls)
  <2>1. Sent(n) = Sent(m)
    BY <1>3, <1>4, <1>6, <1>9 DEF Sent
  <2> QED
    BY <1>1, <1>6, <1>7, <2>1, ChainKept DEF SameChain
<1>10. ASSUME r.kind # "Growing"
       PROVE  /\ k < r.n /\ n \in Landing(k, calls \ {r.call})
              /\ n \in Landing(r.n, calls \ {r.call})
  <2>1. r \in Sent(m)
    BY <1>10 DEF Sent
  <2>2. m.inFlight
    BY <2>1 DEF InOrder, Idle
  <2>3. PICK p \in Request : First(m, k, calls, p)
    BY <2>2 DEF InOrder
  <2>4. Sent(m) = {p} /\ None(m.writes) /\ p = r
    BY <2>1, <2>3 DEF First, Going
  <2>5. Idle(n)
    BY <1>3, <1>6, <2>4 DEF Idle, Sent
  <2>6. /\ k < r.n /\ r.n <= m.asked /\ Behind(m, r.n) /\ Waited(m, calls \ {r.call})
    BY <2>3, <2>4 DEF First
  <2>7. r.n \in Nat /\ m.asked \in Nat
    BY <1>1, <1>8, RequestTyped, MemoryFields
  <2>8. Behind(n, r.n) /\ Waited(n, calls \ {r.call})
    BY <1>6, <2>6 DEF Behind, Waited
  <2>9. Behind(n, k)
    <3>1. \A i \in 1..Len(n.waiting) : n.waiting[i].n \in Nat
      BY <1>1, <1>6, MemoryFields, RequestTyped
    <3> QED
      BY <2>6, <2>7, <2>8, <3>1 DEF Behind
  <2>10. k <= n.asked /\ r.n <= n.asked
    BY <1>6, <2>6, <2>7
  <2> QED
    BY <1>6, <1>7, <2>2, <2>5, <2>6, <2>8, <2>9, <2>10 DEF Landing
<1> QED
  BY <1>5, <1>8, <1>9, <1>10

----------------------------------------------------------------------------
(* The invariant. *)

Latest == IF room = <<>> THEN 0 ELSE room[Len(room)].n

Chained == Now \in InOrder(Latest, held)

Others ==
  /\ turn \in 0..MaxTurns /\ on \in BOOLEAN /\ placed \in BOOLEAN
  /\ on => turn # 0
  /\ held \subseteq 1..MaxSays /\ unwritten \subseteq Nat
  /\ room \in Seq(Message) /\ said \in [1..MaxTurns -> Seq(Entry)]
  /\ failed \subseteq 1..MaxTurns
  /\ used \in [notices : 0..MaxNotices, says : 0..MaxSays, faults : 0..MaxFaults]

Inv == Others /\ Chained /\ LandInOrder

LEMMA Bounds ==
  /\ MaxTurns \in Nat /\ MaxSaid \in Nat /\ MaxNotices \in Nat
  /\ MaxSays \in Nat /\ MaxFaults \in Nat
BY PostingAssumption

LEMMA LatestTyped ==
  ASSUME room \in Seq(Message)
  PROVE  /\ Latest \in Nat
         /\ LandInOrder => \A i \in 1..Len(room) : room[i].n <= Latest
<1>1. \A i \in 1..Len(room) : room[i].n \in Nat
  <2>1. \A i \in 1..Len(room) : room[i] \in Message
    OBVIOUS
  <2> QED
    BY <2>1 DEF Message
<1>2. CASE room = <<>>
  BY <1>2 DEF Latest
<1>3. CASE room # <<>>
  <2>1. Len(room) \in 1..Len(room)
    BY <1>3
  <2>2. Latest = room[Len(room)].n
    BY <1>3 DEF Latest
  <2>3. ASSUME LandInOrder, NEW i \in 1..Len(room) PROVE room[i].n <= Latest
    <3>1. CASE i = Len(room)
      BY <1>1, <2>2, <3>1
    <3>2. CASE i # Len(room)
      <4>1. i < Len(room)
        BY <3>2
      <4> QED
        BY <1>1, <2>1, <2>2, <2>3, <4>1 DEF LandInOrder
    <3> QED
      BY <3>1, <3>2
  <2> QED
    BY <1>1, <2>1, <2>2, <2>3
<1> QED
  BY <1>2, <1>3

\* A step that leaves the room as it is.
LEMMA RoomKept ==
  ASSUME LandInOrder, UNCHANGED room
  PROVE  Latest' = Latest /\ LandInOrder'
BY DEF LandInOrder, Latest

\* A post made lands after all there are.
LEMMA RoomGrows ==
  ASSUME room \in Seq(Message), LandInOrder,
         NEW r \in Request, r.kind # "Growing", Latest < r.n, Shows(r)
  PROVE  room' \in Seq(Message) /\ LandInOrder' /\ Latest' = r.n
<1> DEFINE x == [kind |-> r.kind, n |-> r.n, turn |-> r.turn, text |-> r.text]
           l == Len(room)
<1>1. x \in Message /\ x.n = r.n
  BY RequestTyped DEF Message
<1>2. room' = Append(room, x)
  BY DEF Shows
<1> HIDE DEF x
<1>3. /\ room' \in Seq(Message) /\ l \in Nat /\ Len(room') = l + 1 /\ room'[l + 1] = x
      /\ \A i \in 1..l : room'[i] = room[i]
  BY <1>1, <1>2
<1>4. \A i \in 1..l : room[i].n <= Latest /\ room[i].n \in Nat
  <2>1. \A i \in 1..l : room[i] \in Message
    OBVIOUS
  <2>2. \A i \in 1..l : room[i].n <= Latest
    BY LatestTyped
  <2> QED
    BY <2>1, <2>2 DEF Message
<1>5. Latest \in Nat /\ r.n \in Nat
  BY LatestTyped, RequestTyped
<1>6. Latest' = r.n
  <2>1. room' # <<>>
    BY <1>3
  <2> QED
    BY <1>1, <1>3, <2>1 DEF Latest
<1>7. ASSUME NEW i \in 1..Len(room'), NEW j \in 1..Len(room'), i < j
      PROVE  room'[i].n < room'[j].n
  <2>1. i \in 1..l
    BY <1>3, <1>7
  <2>2. CASE j = l + 1
    BY <1>1, <1>3, <1>4, <1>5, <2>1, <2>2
  <2>3. CASE j \in 1..l
    BY <1>3, <1>7, <2>1, <2>3 DEF LandInOrder
  <2> QED
    BY <1>3, <2>2, <2>3
<1>8. LandInOrder'
  BY <1>7 DEF LandInOrder
<1> QED
  BY <1>3, <1>6, <1>8

\* An edit changes the words of a message, and not its place.
LEMMA RoomEdited ==
  ASSUME room \in Seq(Message), LandInOrder,
         NEW r \in Request, r.kind = "Growing", Shows(r)
  PROVE  room' \in Seq(Message) /\ LandInOrder' /\ Latest' = Latest
<1>1. room' = [room EXCEPT ![r.message].text = r.text] /\ r.text \in Seq(Entry)
  BY RequestTyped DEF Shows
<1>2. \A i \in 1..Len(room) : room[i] \in Message
  OBVIOUS
<1>3. \A x \in Message : [x EXCEPT !.text = r.text] \in Message
                         /\ [x EXCEPT !.text = r.text].n = x.n
  BY <1>1 DEF Message
<1>4. \A i \in 1..Len(room) :
        room'[i] = IF i = r.message THEN [room[i] EXCEPT !.text = r.text] ELSE room[i]
  BY <1>1
<1>5. /\ room' \in Seq(Message) /\ Len(room') = Len(room)
  <2> DEFINE x == [room[r.message] EXCEPT !.text = r.text]
  <2>1. room' = [room EXCEPT ![r.message] = x]
    BY <1>1
  <2>2. CASE r.message \in 1..Len(room)
    <3>1. x \in Message
      BY <1>2, <1>3, <2>2
    <3> HIDE DEF x
    <3> QED
      BY <2>1, <2>2, <3>1, ExceptSeq
  <2>3. CASE r.message \notin 1..Len(room)
    <3> HIDE DEF x
    <3>1. room' = room
      BY <2>1, <2>3
    <3> QED
      BY <3>1
  <2> QED
    BY <2>2, <2>3
<1>6. \A i \in 1..Len(room) : room'[i].n = room[i].n
  BY <1>2, <1>3, <1>4
<1>7. LandInOrder'
  BY <1>5, <1>6 DEF LandInOrder
<1>8. Latest' = Latest
  <2>1. CASE room = <<>>
    BY <1>5, <2>1 DEF Latest
  <2>2. CASE room # <<>>
    <3>1. Len(room) \in 1..Len(room) /\ room' # <<>>
      BY <1>5, <2>2
    <3> QED
      BY <1>5, <1>6, <2>2, <3>1 DEF Latest
  <2> QED
    BY <2>1, <2>2
<1> QED
  BY <1>5, <1>7, <1>8

----------------------------------------------------------------------------
(* Each step keeps it. *)

LEMMA InvFacts ==
  ASSUME Inv
  PROVE  /\ Latest \in Nat /\ Now \in InOrder(Latest, held) /\ Now \in Sound
         /\ next \in Nat /\ kept \subseteq Open /\ inFlight \in BOOLEAN
         /\ waiting \in Seq(Request) /\ writes \in Seq(Write) /\ out \subseteq Request
         /\ timers \subseteq [turn : 1..MaxTurns, run : Nat] /\ asked \in Nat
         /\ OneOpen(Now) /\ LandInOrder /\ Others /\ room \in Seq(Message)
<1>1. Now \in Sound /\ Now \in InOrder(Latest, held)
  BY InOrderSound DEF Inv, Chained
<1>2. Latest \in Nat /\ LandInOrder /\ Others /\ room \in Seq(Message)
  BY LatestTyped DEF Inv, Others
<1> QED
  BY <1>1, <1>2, MemoryFields, NowFields

LEMMA InvKept ==
  ASSUME Inv, UNCHANGED room, UNCHANGED held, Now' \in InOrder(Latest, held), Others'
  PROVE  Inv'
BY RoomKept DEF Inv, Chained

LEMMA InvFlushed ==
  ASSUME Inv, NEW m \in InOrder(Latest, held), NEW changed \in BOOLEAN,
         flush(m, changed), UNCHANGED room, UNCHANGED held, Others'
  PROVE  Inv'
BY InvFacts, Flushed, InvKept

\* The memory is what it was, but for what the chain does not know of.
LEMMA NowQuietly ==
  ASSUME Inv, Quietly(Now, Now')
  PROVE  Now' \in InOrder(Latest, held)
BY InvFacts, MovesKeep

LEMMA MovedOn ==
  ASSUME NEW k \in Nat, NEW calls, NEW m \in InOrder(k, calls), NEW n, Quietly(m, n)
  PROVE  n \in InOrder(k, calls) /\ n \in Sound
BY MovesKeep DEF Quietly

LEMMA PruneKeeps ==
  ASSUME NEW k \in Nat, NEW calls, NEW m \in InOrder(k, calls)
  PROVE  prune(m) \in InOrder(k, calls)
BY InOrderSound, PruneQuietly, MovedOn

LEMMA NoticeAsked ==
  /\ Post("Notice", TRUE) \in Request /\ Post("Notice", TRUE).kind = "Notice"
  /\ Post("Notice", TRUE).call = 0
BY Bounds DEF Post, Request

LEMMA NoticesKeeps ==
  ASSUME NEW k \in Nat, NEW calls, NEW m \in InOrder(k, calls)
  PROVE  Notices(m) \in InOrder(k, calls)
<1> DEFINE e == enqueue(m, Post("Notice", TRUE))
           x == m.asked + 1
           n == [e EXCEPT !.notice = x]
<1>1. e \in InOrder(k, calls) /\ e \in Sound
  BY NoticeAsked, EnqueueInOrder, InOrderSound
<1>2. x \in Nat
  BY InOrderSound, MemoryFields
<1> HIDE DEF e, x
<1>3. /\ n \in Memory /\ n.kept = e.kept /\ n.inFlight = e.inFlight
      /\ n.waiting = e.waiting
      /\ n.writes = e.writes /\ n.asked = e.asked /\ n.staged = e.staged
      /\ n.out = e.out
  BY <1>1, <1>2 DEF Sound, Memory
<1>4. n = Notices(m)
  BY DEF Notices, e, x
<1> HIDE DEF n
<1>5. Quietly(e, n)
  BY <1>1, <1>3 DEF Quietly, SameChain, Sent, Sound, OneOpen
<1> QED
  BY <1>1, <1>4, <1>5, MovedOn

LEMMA BeginTurnKeeps ==
  ASSUME Inv, BeginTurn
  PROVE  Inv'
<1>1. Now' \in Sound
  BY InvFacts, LeftWithNow DEF BeginTurn
<1>2. Quietly(Now, Now')
  BY <1>1, NowFields DEF BeginTurn, Quietly, SameChain, Sent, Now
<1>3. turn + 1 \in 0..MaxTurns /\ turn + 1 # 0
  <2>1. turn < MaxTurns
    BY DEF BeginTurn
  <2>2. turn \in 0..MaxTurns
    BY InvFacts DEF Others
  <2> QED
    BY <2>1, <2>2, Bounds
<1>4. Others'
  BY <1>3, InvFacts DEF BeginTurn, Others
<1> QED
  BY <1>2, <1>4, NowQuietly, InvKept DEF BeginTurn

LEMMA NoticedKeeps ==
  ASSUME Inv, NEW what \in {"Words", "Blank", "Running"}, noticed(what)
  PROVE  Inv'
<1> DEFINE entry == [nth |-> Len(said[turn]) + 1, is |-> what]
           a == SaidOrWorked(Now, entry)
           b == fit(a)
           c == TendChanged(Now, b)
<1>1. turn \in 1..MaxTurns
  <2>1. on
    BY DEF noticed
  <2> QED
    BY <2>1, InvFacts, Bounds DEF Others
<1>0. entry \in Entry
  <2>1. said[turn] \in Seq(Entry)
    BY <1>1, InvFacts DEF Others
  <2> QED
    BY <2>1 DEF Entry
<1>7. flush(prune(c), FALSE) /\ said' = [said EXCEPT ![turn] = Append(@, entry)]
  BY DEF noticed
<1> HIDE DEF entry
<1>2. Quietly(Now, a) /\ a \in Sound
  BY <1>0, <1>1, InvFacts, SaidQuietly DEF Quietly
<1> HIDE DEF a
<1>3. Quietly(a, b)
  BY <1>1, <1>2, FitQuietly
<1> HIDE DEF b
<1>4. b \in InOrder(Latest, held)
  BY <1>2, <1>3, QuietlyTwice, InvFacts, MovedOn
<1>5. c \in InOrder(Latest, held)
  BY <1>4, InvFacts, TendChangedKeeps
<1>6. prune(c) \in InOrder(Latest, held)
  BY <1>5, InvFacts, PruneKeeps
<1>8. Others'
  <2>1. said[turn] \in Seq(Entry)
    BY <1>1, InvFacts DEF Others
  <2>2. Append(said[turn], entry) \in Seq(Entry)
    BY <1>0, <2>1
  <2>3. said' \in [1..MaxTurns -> Seq(Entry)]
    BY <1>7, <2>2, InvFacts DEF Others
  <2> QED
    BY <2>3, InvFacts DEF noticed, Others
<1> QED
  BY <1>6, <1>7, <1>8, InvFlushed DEF noticed

LEMMA EndedTyped ==
  ASSUME NEW s \in Seq(Entry), NEW i
  PROVE  /\ [s EXCEPT ![i].is = "Ended"] \in Seq(Entry)
         /\ Len([s EXCEPT ![i].is = "Ended"]) = Len(s)
         /\ i \in 1..Len(s) => [s EXCEPT ![i].is = "Ended"][i] = [s[i] EXCEPT !.is = "Ended"]
         /\ \A j \in 1..Len(s) : j # i => [s EXCEPT ![i].is = "Ended"][j] = s[j]
<1>1. CASE i \in 1..Len(s)
  <2> DEFINE e == [s[i] EXCEPT !.is = "Ended"]
  <2>1. s[i] \in Entry
    BY <1>1
  <2>2. e \in Entry
    BY <2>1 DEF Entry
  <2>3. [s EXCEPT ![i].is = "Ended"] = [s EXCEPT ![i] = e]
    OBVIOUS
  <2> HIDE DEF e
  <2>4. [s EXCEPT ![i] = e] \in Seq(Entry) /\ Len([s EXCEPT ![i] = e]) = Len(s)
    BY <1>1, <2>2, ExceptSeq
  <2>5. [s EXCEPT ![i] = e][i] = e /\ \A j \in 1..Len(s) : j # i => [s EXCEPT ![i] = e][j] = s[j]
    BY <1>1
  <2> QED
    BY <2>3, <2>4, <2>5 DEF e
<1>2. CASE i \notin 1..Len(s)
  <2> DEFINE x == [s[i] EXCEPT !.is = "Ended"]
  <2>1. [s EXCEPT ![i].is = "Ended"] = [s EXCEPT ![i] = x]
    OBVIOUS
  <2> HIDE DEF x
  <2>2. [s EXCEPT ![i] = x] = s
    BY <1>2
  <2> QED
    BY <1>2, <2>1, <2>2
<1> QED
  BY <1>1, <1>2

LEMMA CallChangedKeeps ==
  ASSUME Inv, call_changed
  PROVE  Inv'
<1>1. turn \in 1..MaxTurns
  <2>1. on
    BY DEF call_changed
  <2> QED
    BY <2>1, InvFacts, Bounds DEF Others
<1> DEFINE Changes(o, i) ==
             /\ flush(prune(tend(Put(Now, o, [o EXCEPT !.entries[i].is = "Ended"]), o.run)), FALSE)
             /\ said' = [said EXCEPT ![turn][o.entries[i].nth].is = "Ended"]
<1>2. \E o \in kept : \E i \in Running(o) : Changes(o, i)
  BY Zenon DEF call_changed
<1>3. PICK o \in kept : \E i \in Running(o) : Changes(o, i)
  BY <1>2
<1>4. PICK i \in Running(o) : Changes(o, i)
  BY <1>3
<1>5. said' = [said EXCEPT ![turn][o.entries[i].nth].is = "Ended"]
  BY <1>4
<1> DEFINE nth == o.entries[i].nth
<1> DEFINE c == [o EXCEPT !.entries[i].is = "Ended"]
           n == Put(Now, o, c)
           t == tend(n, o.run)
<1>6. o \in Open /\ o \in Now.kept /\ i \in 1..Len(o.entries)
  BY InvFacts, NowFields DEF Running
<1>7. c \in Open /\ c.at = o.at
  <2> DEFINE s == [o.entries EXCEPT ![i].is = "Ended"]
  <2>1. o.entries \in Seq(Entry)
    BY <1>6, OpenTyped
  <2>2. s \in Seq(Entry)
    BY <1>6, <2>1, EndedTyped
  <2>3. c = [o EXCEPT !.entries = s]
    OBVIOUS
  <2> HIDE DEF s
  <2> QED
    BY <1>6, <2>2, <2>3 DEF Open
<1>8. flush(prune(t), FALSE)
  BY <1>4
<1> HIDE DEF c
<1>9. n \in InOrder(Latest, held) /\ n \in Sound
  BY <1>6, <1>7, InvFacts, PutQuietly, MovedOn
<1> HIDE DEF n
<1>10. t \in InOrder(Latest, held)
  BY <1>9, InvFacts, TendKeeps DEF tend
<1>11. prune(t) \in InOrder(Latest, held)
  BY <1>10, InvFacts, PruneKeeps
<1>12. Others'
  <2> DEFINE s == [said[turn] EXCEPT ![nth].is = "Ended"]
  <2>1. said[turn] \in Seq(Entry)
    BY <1>1, InvFacts DEF Others
  <2>2. s \in Seq(Entry)
    BY <2>1, EndedTyped
  <2>3. said' = [said EXCEPT ![turn] = s]
    BY <1>5
  <2> HIDE DEF s
  <2>4. said' \in [1..MaxTurns -> Seq(Entry)]
    BY <2>2, <2>3, InvFacts DEF Others
  <2> QED
    BY <2>4, InvFacts DEF call_changed, Others
<1> QED
  BY <1>8, <1>11, <1>12, InvFlushed DEF call_changed

LEMMA InterruptTyped ==
  ASSUME NEW s \in Seq(Entry)
  PROVE  Interrupt(s) \in Seq(Entry)
<1>1. \A i \in 1..Len(s) : s[i] \in Entry /\ [s[i] EXCEPT !.is = "Interrupted"] \in Entry
  <2>1. \A i \in 1..Len(s) : s[i] \in Entry
    OBVIOUS
  <2>2. \A e \in Entry : [e EXCEPT !.is = "Interrupted"] \in Entry
    BY DEF Entry
  <2> QED
    BY <2>1, <2>2
<1>2. Interrupt(s) \in [1..Len(s) -> Entry] /\ Len(s) \in Nat
  BY <1>1 DEF Interrupt
<1> QED
  BY <1>2

LEMMA InterruptedKeeps ==
  ASSUME Inv, calls_interrupted
  PROVE  Inv'
<1> DEFINE cut == {o \in kept : o.at # "Finishing" /\ Running(o) # {}}
           Cut(o) == [o EXCEPT !.entries = Interrupt(@)]
           kk == (kept \ cut) \union {Cut(o) : o \in cut}
           m  == [Now EXCEPT !.kept = kk]
           runs == {o.run : o \in cut}
<1>1. turn \in 1..MaxTurns
  <2>1. on
    BY DEF calls_interrupted
  <2> QED
    BY <2>1, InvFacts, Bounds DEF Others
<1>2. \A o \in Open : Cut(o) \in Open /\ Cut(o).at = o.at
  <2> TAKE o \in Open
  <2>1. Interrupt(o.entries) \in Seq(Entry)
    BY OpenTyped, InterruptTyped
  <2> QED
    BY <2>1 DEF Open
<1>3. flush(TendAll(m, runs), FALSE)
  BY NowFields DEF calls_interrupted
<1> HIDE DEF Cut
<1>4. cut \subseteq kept /\ kept \subseteq Open
  BY InvFacts
<1> HIDE DEF cut
<1>5. kk \in SUBSET Open
  BY <1>2, <1>4
<1>6. ASSUME NEW x \in kk
      PROVE  \E o \in kept : /\ o.at = x.at
                              /\ x = IF o \in cut THEN Cut(o) ELSE o
  <2>1. CASE x \in kept \ cut
    BY <2>1
  <2>2. CASE x \in {Cut(o) : o \in cut}
    <3>1. PICK o \in cut : x = Cut(o)
      BY <2>2
    <3> QED
      BY <1>2, <1>4, <3>1
  <2> QED
    BY <2>1, <2>2
<1>7. \A x, y \in kk : x.at = "Open" /\ y.at = "Open" => x = y
  <2>1. SUFFICES ASSUME NEW x \in kk, NEW y \in kk, x.at = "Open", y.at = "Open"
                 PROVE  x = y
    OBVIOUS
  <2>2. PICK o \in kept : o.at = x.at /\ x = IF o \in cut THEN Cut(o) ELSE o
    BY <1>6
  <2>3. PICK p \in kept : p.at = y.at /\ y = IF p \in cut THEN Cut(p) ELSE p
    BY <1>6
  <2>4. o = p
    BY <2>1, <2>2, <2>3, InvFacts, NowFields DEF OneOpen
  <2> QED
    BY <2>2, <2>3, <2>4
<1> HIDE DEF kk, runs
<1>8. m \in InOrder(Latest, held) /\ m \in Sound
  BY <1>5, <1>7, InvFacts, KeptQuietly, MovedOn
<1> HIDE DEF m
<1>9. TendAll(m, runs) \in InOrder(Latest, held)
  BY <1>8, InvFacts, TendAllKeeps
<1>10. Others'
  <2>1. Interrupt(said[turn]) \in Seq(Entry)
    BY <1>1, InvFacts, InterruptTyped DEF Others
  <2>2. said' \in [1..MaxTurns -> Seq(Entry)]
    BY <2>1, InvFacts DEF calls_interrupted, Others
  <2> QED
    BY <2>2, InvFacts DEF calls_interrupted, Others
<1> QED
  BY <1>3, <1>9, <1>10, InvFlushed DEF calls_interrupted

LEMMA UsedMore ==
  ASSUME Inv
  PROVE  /\ used.notices < MaxNotices /\ Spent("notices") =>
              used' \in [notices : 0..MaxNotices, says : 0..MaxSays, faults : 0..MaxFaults]
         /\ used.says < MaxSays /\ Spent("says") =>
              used' \in [notices : 0..MaxNotices, says : 0..MaxSays, faults : 0..MaxFaults]
         /\ used.faults < MaxFaults /\ Spent("faults") =>
              used' \in [notices : 0..MaxNotices, says : 0..MaxSays, faults : 0..MaxFaults]
<1>1. used \in [notices : 0..MaxNotices, says : 0..MaxSays, faults : 0..MaxFaults]
  BY InvFacts DEF Others
<1>2. /\ used.notices \in Nat /\ used.says \in Nat /\ used.faults \in Nat
  BY <1>1, Bounds
<1> QED
  BY <1>1, <1>2, Bounds DEF Spent

LEMMA TurnEndsKeeps ==
  ASSUME Inv, TurnEnds
  PROVE  Inv'
<1> DEFINE p == prune(finish(Now))
<1>1. p \in InOrder(Latest, held)
  BY InvFacts, FinishKeeps, PruneKeeps
<1>2. CASE flush(p, TRUE) /\ UNCHANGED used
  <2>1. Others'
    BY <1>2, InvFacts DEF TurnEnds, Others
  <2> HIDE DEF p
  <2> QED
    BY <1>1, <1>2, <2>1, InvFlushed DEF TurnEnds
<1>3. CASE used.notices < MaxNotices /\ flush(Notices(p), TRUE) /\ Spent("notices")
  <2>1. Others'
    BY <1>3, InvFacts, UsedMore DEF TurnEnds, Others
  <2> HIDE DEF p
  <2>2. Notices(p) \in InOrder(Latest, held)
    BY <1>1, InvFacts, NoticesKeeps
  <2> QED
    BY <1>3, <2>1, <2>2, InvFlushed DEF TurnEnds
<1> QED
  BY <1>2, <1>3 DEF TurnEnds

\* A call answered is not held any more.
LEMMA FewerHeld ==
  ASSUME NEW k, NEW calls, NEW m \in InOrder(k, calls), NEW less, less \subseteq calls
  PROVE  m \in InOrder(k, less)
<1>1. CASE m.inFlight
  <2>1. PICK p \in Request : First(m, k, calls, p)
    BY <1>1 DEF InOrder
  <2>2. First(m, k, less, p)
    BY <2>1 DEF First, Waited
  <2> QED
    BY <1>1, <2>2 DEF InOrder
<1>2. CASE ~m.inFlight
  BY <1>2 DEF InOrder
<1> QED
  BY <1>1, <1>2

LEMMA PostForKeeps ==
  ASSUME Inv, post_for
  PROVE  Inv'
<1> DEFINE c == used.says + 1
           ask == [Post("Saying", FALSE) EXCEPT !.call = c]
           more == held \union {c}
           e == enqueue(Now, ask)
<1>1. used.says \in 0..MaxSays /\ used.says < MaxSays
  BY InvFacts DEF Others, post_for
<1>2. c \in 1..MaxSays /\ c \in Nat
  BY <1>1, Bounds
<1>3. ask \in Request /\ ask.kind = "Saying" /\ ask.call = c
  <2> DEFINE R == [kind : {"Notice", "Saying", "Transcript", "Growing"}, n : Nat,
                   run : Nat, turn : 0..MaxTurns, text : Seq(Entry),
                   message : Nat, call : Nat, after : BOOLEAN]
             q == Post("Saying", FALSE)
  <2>1. q \in R /\ q.kind = "Saying"
    BY Bounds DEF Post
  <2> HIDE DEF c, q
  <2>2. ask \in R /\ ask.kind = "Saying" /\ ask.call = c
    BY <1>2, <2>1 DEF q
  <2> QED
    BY <2>2 DEF Request
<1>4. flush(e, FALSE) /\ held' = more
  BY DEF post_for
<1>5. more \subseteq held \union {ask.call}
  BY <1>3
<1>6. more \subseteq 1..MaxSays
  BY <1>2, InvFacts DEF Others
<1> HIDE DEF ask, more, c
<1>7. e \in InOrder(Latest, more)
  BY <1>3, <1>5, InvFacts, EnqueueInOrder
<1> HIDE DEF e
<1>8. Now' \in InOrder(Latest, more)
  BY <1>4, <1>7, InvFacts, Flushed
<1>9. Others'
  BY <1>4, <1>6, InvFacts, UsedMore DEF post_for, Others
<1>10. Latest' = Latest /\ LandInOrder'
  BY InvFacts, RoomKept DEF post_for
<1> QED
  BY <1>4, <1>8, <1>9, <1>10 DEF Inv, Chained

LEMMA SayKeeps ==
  ASSUME Inv, say
  PROVE  Inv'
<1>1. PICK changed \in BOOLEAN : flush(Notices(Now), changed)
  BY DEF say
<1>2. Notices(Now) \in InOrder(Latest, held)
  BY InvFacts, NoticesKeeps
<1>3. Others'
  BY InvFacts, UsedMore DEF say, Others
<1> QED
  BY <1>1, <1>2, <1>3, InvFlushed DEF say

LEMMA ForgottenKeeps ==
  ASSUME Inv, Forgotten
  PROVE  Inv'
<1> DEFINE w == [posts |-> <<>>, notice |-> 0]
<1>1. w \in Write /\ w.posts = <<>> /\ writes' = Append(writes, w)
  BY DEF Write, Forgotten
<1> HIDE DEF w
<1>2. flush(Now, TRUE)
  BY <1>1, NowFields DEF flush, Forgotten, w
<1>3. 1..turn \subseteq 1..MaxTurns
  BY InvFacts, Bounds DEF Others
<1>4. Others'
  BY <1>3, InvFacts, UsedMore DEF Forgotten, Others
<1> QED
  BY <1>2, <1>4, InvFacts, InvFlushed DEF Forgotten

LEMMA RespondedKeeps ==
  ASSUME Inv, responded
  PROVE  Inv'
<1>1. PICK r \in out :
        /\ Shows(r)
        /\ LET message == IF r.kind = "Growing" THEN r.message ELSE Len(room) + 1 IN
           flush(answered([Now EXCEPT !.out = @ \ {r}], r, message), FALSE)
        /\ held' = held \ {r.call}
  BY DEF responded
<1> DEFINE m == [Now EXCEPT !.out = @ \ {r}]
           message == IF r.kind = "Growing" THEN r.message ELSE Len(room) + 1
<1>2. r \in Now.out /\ Now.staged = <<>>
  BY NowFields
<1>3. /\ r \in Request
      /\ r.kind = "Growing" => m \in InOrder(Latest, held)
      /\ r.kind # "Growing" => Latest < r.n /\ m \in Landing(r.n, held \ {r.call})
  BY <1>2, InvFacts, Answered
<1>4. message \in Nat /\ r.n \in Nat
  BY <1>3, InvFacts, RequestTyped
<1>5. flush(answered(m, r, message), FALSE)
  BY <1>1
<1> HIDE DEF m, message
<1>6. ASSUME room' \in Seq(Message) PROVE Others'
  BY <1>1, <1>6, InvFacts DEF responded, Others
<1>7. CASE r.kind = "Growing"
  <2>1. answered(m, r, message) \in InOrder(Latest, held)
    BY <1>3, <1>4, <1>7, InvFacts, EditAnswered
  <2>2. Now' \in InOrder(Latest, held)
    BY <1>5, <2>1, InvFacts, Flushed
  <2>3. room' \in Seq(Message) /\ LandInOrder' /\ Latest' = Latest
    BY <1>1, <1>3, <1>7, InvFacts, RoomEdited
  <2> QED
    BY <2>2, <2>3, <1>1, <1>6, FewerHeld DEF Inv, Chained
<1>8. CASE r.kind # "Growing"
  <2>1. answered(m, r, message) \in InOrder(r.n, held \ {r.call})
    BY <1>3, <1>4, <1>8, PostAnswered
  <2>2. Now' \in InOrder(r.n, held \ {r.call})
    BY <1>4, <1>5, <2>1, Flushed
  <2>3. room' \in Seq(Message) /\ LandInOrder' /\ Latest' = r.n
    BY <1>1, <1>3, <1>8, InvFacts, RoomGrows
  <2> QED
    BY <2>2, <2>3, <1>1, <1>6 DEF Inv, Chained
<1> QED
  BY <1>7, <1>8

LEMMA FailedKeeps ==
  ASSUME Inv, Failed
  PROVE  Inv'
<1>1. PICK r \in out :
        /\ Shows(r) \/ UNCHANGED room
        /\ flush(answered([Now EXCEPT !.out = @ \ {r}], r, 0), FALSE)
        /\ held' = held \ {r.call}
        /\ failed' = Refusals(r)
  BY DEF Failed
<1> DEFINE m == [Now EXCEPT !.out = @ \ {r}]
<1>2. r \in Now.out /\ Now.staged = <<>>
  BY NowFields
<1>3. /\ r \in Request
      /\ r.kind = "Growing" => m \in InOrder(Latest, held)
      /\ r.kind # "Growing" => /\ Latest < r.n
                               /\ m \in Landing(Latest, held \ {r.call})
                               /\ m \in Landing(r.n, held \ {r.call})
  BY <1>2, InvFacts, Answered
<1>4. flush(answered(m, r, 0), FALSE) /\ r.n \in Nat /\ Latest \in Nat
  BY <1>1, <1>3, InvFacts, RequestTyped
<1> HIDE DEF m
<1>5. failed' \subseteq 1..MaxTurns
  BY <1>1, <1>3, InvFacts, RequestTyped DEF Refusals, Others
<1>6. ASSUME room' \in Seq(Message) PROVE Others'
  BY <1>1, <1>5, <1>6, InvFacts, UsedMore DEF Failed, Others
<1>7. CASE r.kind = "Growing"
  <2>1. answered(m, r, 0) \in InOrder(Latest, held)
    BY <1>3, <1>7, InvFacts, EditAnswered
  <2>2. Now' \in InOrder(Latest, held)
    BY <1>4, <2>1, InvFacts, Flushed
  <2>3. Now' \in InOrder(Latest, held')
    BY <1>1, <2>2, InvFacts, FewerHeld
  <2>4. room' \in Seq(Message) /\ LandInOrder' /\ Latest' = Latest
    <3>1. CASE Shows(r)
      BY <1>3, <1>7, <3>1, InvFacts, RoomEdited
    <3>2. CASE UNCHANGED room
      BY <3>2, InvFacts, RoomKept
    <3> QED
      BY <1>1, <3>1, <3>2
  <2> QED
    BY <1>6, <2>3, <2>4 DEF Inv, Chained
<1>8. CASE r.kind # "Growing"
  <2>1. CASE Shows(r)
    <3>1. answered(m, r, 0) \in InOrder(r.n, held \ {r.call})
      BY <1>3, <1>4, <1>8, PostAnswered
    <3>2. Now' \in InOrder(r.n, held')
      BY <1>1, <1>4, <3>1, Flushed
    <3>3. room' \in Seq(Message) /\ LandInOrder' /\ Latest' = r.n
      BY <1>3, <1>8, <2>1, InvFacts, RoomGrows
    <3> QED
      BY <1>6, <3>2, <3>3 DEF Inv, Chained
  <2>2. CASE UNCHANGED room
    <3>1. answered(m, r, 0) \in InOrder(Latest, held \ {r.call})
      BY <1>3, <1>4, <1>8, PostAnswered
    <3>2. Now' \in InOrder(Latest, held')
      BY <1>1, <1>4, <3>1, Flushed
    <3>3. room' \in Seq(Message) /\ LandInOrder' /\ Latest' = Latest
      BY <2>2, InvFacts, RoomKept
    <3> QED
      BY <1>6, <3>2, <3>3 DEF Inv, Chained
  <2> QED
    BY <1>1, <2>1, <2>2
<1> QED
  BY <1>7, <1>8

LEMMA LandedKeeps ==
  ASSUME Inv, Landed
  PROVE  Inv'
<1> DEFINE h == Head(writes)
           oo == out \union Range(h.posts)
           tt == Tail(writes)
           m == [Now EXCEPT !.writes = tt, !.out = oo]
<1>1. /\ tt \in Seq(Write) /\ h \in Write
      /\ None(writes) => None(tt) /\ h.posts = <<>>
      /\ \A p : Alone(writes, p) =>
           \/ h.posts = <<p>> /\ None(tt)
           \/ h.posts = <<>> /\ Alone(tt, p)
  BY InvFacts, WriteLeaves DEF Landed
<1>2. oo \subseteq Request
  BY <1>1, InvFacts DEF Write, Range
<1>3. flush(m, FALSE)
  BY NowFields DEF Landed
<1>4. \A p : h.posts = <<p>> => oo = out \union {p}
  BY DEF Range
<1>5. h.posts = <<>> => oo = out
  BY DEF Range
<1> HIDE DEF h, oo, tt
<1>6. /\ m \in Memory /\ m.kept = kept /\ m.inFlight = inFlight /\ m.waiting = waiting
      /\ m.writes = tt /\ m.asked = asked /\ m.staged = <<>> /\ m.out = oo
  BY <1>1, <1>2, InvFacts, NowFields DEF Sound, Memory
<1> HIDE DEF m
<1>7. m \in Sound
  BY <1>6, InvFacts, NowFields DEF Sound, OneOpen
<1>8. Latest <= m.asked
  BY <1>6, InvFacts, NowFields DEF InOrder
<1>9. m \in InOrder(Latest, held)
  <2>1. CASE inFlight
    <3>1. PICK p \in Request : First(Now, Latest, held, p)
      BY <2>1, InvFacts, NowFields DEF InOrder
    <3>2. Going(m, p)
      <4>1. CASE Sent(Now) = {p} /\ None(writes)
        BY <1>1, <1>5, <1>6, <4>1, NowFields DEF Going, Sent
      <4>2. CASE Sent(Now) = {} /\ Alone(writes, p)
        <5>1. CASE h.posts = <<p>> /\ None(tt)
          <6>1. m.out = out \union {p}
            BY <1>4, <1>6, <5>1
          <6>2. Sent(m) = {p}
            BY <3>1, <4>2, <6>1, NowFields DEF Sent, First
          <6> QED
            BY <1>6, <5>1, <6>2 DEF Going
        <5>2. CASE h.posts = <<>> /\ Alone(tt, p)
          BY <1>5, <1>6, <4>2, <5>2, NowFields DEF Going, Sent
        <5> QED
          BY <1>1, <4>2, <5>1, <5>2
      <4> QED
        BY <3>1, <4>1, <4>2, NowFields DEF First, Going
    <3>3. Behind(m, p.n) /\ Waited(m, held \ {p.call})
      BY <1>6, <3>1, NowFields DEF First, Behind, Waited
    <3>4. First(m, Latest, held, p)
      BY <1>6, <3>1, <3>2, <3>3, NowFields DEF First
    <3> QED
      BY <1>6, <1>7, <1>8, <2>1, <3>4 DEF InOrder
  <2>2. CASE ~inFlight
    <3>1. Idle(Now) /\ waiting = <<>> /\ held = {}
      BY <2>2, InvFacts, NowFields DEF InOrder
    <3>2. Idle(m)
      BY <1>1, <1>5, <1>6, <3>1, NowFields DEF Idle, Sent
    <3> QED
      BY <1>6, <1>7, <1>8, <2>2, <3>1, <3>2 DEF InOrder
  <2> QED
    BY <2>1, <2>2
<1>10. Others'
  BY InvFacts DEF Landed, Others
<1> QED
  BY <1>3, <1>9, <1>10, InvFlushed DEF Landed

LEMMA WriteFailedKeeps ==
  ASSUME Inv, WriteFailed
  PROVE  Inv'
<1> DEFINE h == Head(writes)
           tt == Tail(writes)
           m == [Now EXCEPT !.writes = tt]
           calls == {r.call : r \in Range(h.posts)}
<1>1. /\ tt \in Seq(Write) /\ h \in Write
      /\ None(writes) => None(tt) /\ h.posts = <<>>
      /\ \A p : Alone(writes, p) =>
           \/ h.posts = <<p>> /\ None(tt)
           \/ h.posts = <<>> /\ Alone(tt, p)
  BY InvFacts, WriteLeaves DEF WriteFailed
<1>2. flush(Unsent(m, h.posts), FALSE) /\ held' = held \ calls
  BY NowFields DEF WriteFailed
<1>3. \A p : h.posts = <<p>> => calls = {p.call}
  BY DEF Range
<1>4. Others'
  <2>1. h.notice \in Nat
    BY <1>1 DEF Write
  <2> QED
    BY <2>1, InvFacts, UsedMore DEF WriteFailed, Others
<1> HIDE DEF h, tt, calls
<1>5. /\ m \in Memory /\ m.kept = kept /\ m.inFlight = inFlight /\ m.waiting = waiting
      /\ m.writes = tt /\ m.asked = asked /\ m.staged = <<>> /\ m.out = out
  BY <1>1, InvFacts, NowFields DEF Sound, Memory
<1> HIDE DEF m
<1>6. m \in Sound
  BY <1>5, InvFacts, NowFields DEF Sound, OneOpen
<1>7. Latest <= m.asked
  BY <1>5, InvFacts, NowFields DEF InOrder
<1>8. Latest' = Latest /\ LandInOrder'
  BY InvFacts, RoomKept DEF WriteFailed
<1>9. ASSUME h.posts = <<>>, m \in InOrder(Latest, held) PROVE Inv'
  <2>1. flush(m, FALSE)
    BY <1>2, <1>9, NoneUnsent
  <2>2. Now' \in InOrder(Latest, held)
    BY <1>9, <2>1, InvFacts, Flushed
  <2>3. Now' \in InOrder(Latest, held')
    BY <1>2, <2>2, FewerHeld
  <2> QED
    BY <1>4, <1>8, <2>3 DEF Inv, Chained
<1>10. CASE ~inFlight
  <2>1. Idle(Now) /\ waiting = <<>> /\ held = {}
    BY <1>10, InvFacts, NowFields DEF InOrder
  <2>2. Idle(m) /\ h.posts = <<>>
    BY <1>1, <1>5, <2>1, NowFields DEF Idle, Sent
  <2>3. m \in InOrder(Latest, held)
    BY <1>5, <1>6, <1>7, <1>10, <2>1, <2>2 DEF InOrder
  <2> QED
    BY <1>9, <2>2, <2>3
<1>11. CASE inFlight
  <2>1. PICK p \in Request : First(Now, Latest, held, p)
    BY <1>11, InvFacts, NowFields DEF InOrder
  <2>2. Behind(m, p.n) /\ Waited(m, held \ {p.call})
    BY <1>5, <2>1, NowFields DEF First, Behind, Waited
  <2>3. ASSUME h.posts = <<>>, Going(m, p) PROVE Inv'
    <3>1. First(m, Latest, held, p)
      BY <1>5, <2>1, <2>2, <2>3, NowFields DEF First
    <3>2. m \in InOrder(Latest, held)
      BY <1>5, <1>6, <1>7, <1>11, <3>1 DEF InOrder
    <3> QED
      BY <1>9, <2>3, <3>2
  <2>4. CASE Sent(Now) = {p} /\ None(writes)
    <3>1. h.posts = <<>> /\ Going(m, p)
      BY <1>1, <1>5, <2>4, NowFields DEF Going, Sent
    <3> QED
      BY <2>3, <3>1
  <2>5. CASE Sent(Now) = {} /\ Alone(writes, p)
    <3>1. CASE h.posts = <<>> /\ Alone(tt, p)
      <4>1. Going(m, p)
        BY <1>5, <2>5, <3>1, NowFields DEF Going, Sent
      <4> QED
        BY <2>3, <3>1, <4>1
    <3>2. CASE h.posts = <<p>> /\ None(tt)
      <4>1. Idle(m)
        BY <1>5, <2>5, <3>2, NowFields DEF Idle, Sent
      <4>2. Behind(m, Latest)
        <5>1. /\ Latest < p.n /\ p.n \in Nat /\ Latest \in Nat
          BY <2>1, InvFacts, RequestTyped DEF First
        <5>2. \A i \in 1..Len(m.waiting) : m.waiting[i].n \in Nat
          BY <1>6, MemoryFields, RequestTyped
        <5> QED
          BY <2>2, <5>1, <5>2 DEF Behind
      <4>3. m \in Landing(Latest, held \ {p.call})
        BY <1>5, <1>6, <1>7, <1>11, <2>2, <4>1, <4>2 DEF Landing
      <4>4. p.kind # "Growing"
        BY <2>1 DEF First
      <4>5. answered(m, p, 0) \in InOrder(Latest, held \ {p.call})
        BY <4>3, <4>4, InvFacts, PostAnswered
      <4>6. flush(answered(m, p, 0), FALSE) /\ held' = held \ {p.call}
        BY <1>2, <1>3, <3>2, OneUnsent DEF unsent
      <4>7. Now' \in InOrder(Latest, held')
        BY <4>5, <4>6, InvFacts, Flushed
      <4> QED
        BY <1>4, <1>8, <4>7 DEF Inv, Chained
    <3> QED
      BY <1>1, <2>5, <3>1, <3>2
  <2> QED
    BY <2>1, <2>4, <2>5, NowFields DEF First, Going
<1> QED
  BY <1>10, <1>11, InvFacts

LEMMA GrowKeeps ==
  ASSUME Inv, grow
  PROVE  Inv'
<1> DEFINE M(t) == [Now EXCEPT !.timers = @ \ {t}]
           Eased(t) == IF find_run(Now, t.run) = {} THEN M(t)
                       ELSE LET o == CHOOSE o \in find_run(Now, t.run) : TRUE IN
                            Put(M(t), o, [o EXCEPT !.pacing = FALSE])
<1>1. PICK t \in timers : flush(prune(tend_after(Eased(t), t.run, TRUE)), FALSE)
  BY Zenon DEF grow
<1> DEFINE tt == timers \ {t}
           m == [Now EXCEPT !.timers = tt]
<1>2. M(t) = m
  BY NowFields
<1>3. tt \subseteq [turn : 1..MaxTurns, run : Nat]
  BY InvFacts
<1> HIDE DEF tt
<1>4. /\ m \in Memory /\ m.kept = kept /\ m.inFlight = inFlight /\ m.waiting = waiting
      /\ m.writes = writes /\ m.asked = asked /\ m.staged = <<>> /\ m.out = out
  BY <1>3, InvFacts, NowFields DEF Sound, Memory
<1> HIDE DEF m
<1>5. m \in Sound
  BY <1>4, InvFacts, NowFields DEF Sound, OneOpen
<1>6. Quietly(Now, m)
  BY <1>4, <1>5, NowFields DEF Quietly, SameChain, Sent
<1> DEFINE e == Eased(t)
<1>7. Quietly(m, e)
  <2>1. CASE find_run(Now, t.run) = {}
    BY <1>2, <1>5, <2>1 DEF Quietly, SameChain
  <2>2. CASE find_run(Now, t.run) # {}
    <3> DEFINE o == CHOOSE o \in find_run(Now, t.run) : TRUE
               c == [o EXCEPT !.pacing = FALSE]
    <3>1. e = Put(m, o, c)
      BY <1>2, <2>2
    <3>2. o \in find_run(Now, t.run)
      BY <2>2
    <3>3. o \in m.kept /\ o \in Open
      BY <1>4, <3>2, InvFacts, NowFields DEF find_run
    <3> HIDE DEF o
    <3>4. c \in Open /\ c.at = o.at
      BY <3>3, OpenTyped
    <3> HIDE DEF c
    <3> QED
      BY <1>5, <3>1, <3>3, <3>4, PutQuietly
  <2> QED
    BY <2>1, <2>2
<1> HIDE DEF Eased
<1>8. e \in InOrder(Latest, held) /\ e \in Sound
  BY <1>6, <1>7, QuietlyTwice, InvFacts, MovedOn
<1>9. tend_after(e, t.run, TRUE) \in InOrder(Latest, held)
  BY <1>8, InvFacts, TendKeeps
<1>10. prune(tend_after(e, t.run, TRUE)) \in InOrder(Latest, held)
  BY <1>9, InvFacts, PruneKeeps
<1>11. Others'
  BY InvFacts DEF grow, Others
<1> QED
  BY <1>1, <1>10, <1>11, InvFlushed DEF grow

LEMMA StutterKeeps ==
  ASSUME Inv, UNCHANGED vars
  PROVE  Inv'
<1>1. Now' = Now
  BY DEF vars, memory, Now
<1>2. Others'
  BY InvFacts DEF vars, Others
<1> QED
  BY <1>1, <1>2, InvFacts, InvKept DEF vars

LEMMA InitInv ==
  ASSUME Init
  PROVE  Inv
<1>1. Now \in Sound
  <2>1. next \in Nat /\ asked \in Nat /\ inFlight \in BOOLEAN
    BY DEF Init
  <2>2. waiting = <<>> /\ writes = <<>>
    BY DEF Init
  <2>3. kept = {} /\ out = {} /\ timers = {}
    BY DEF Init
  <2>4. Now \in Memory
    BY <2>1, <2>2, <2>3 DEF Now, Memory
  <2> QED
    BY <2>3, <2>4, NowFields DEF Sound, OneOpen
<1>2. Idle(Now)
  BY NowFields DEF Init, Idle, Sent, None
<1>3. Latest = 0
  BY DEF Init, Latest
<1>4. Now \in InOrder(Latest, held)
  BY <1>1, <1>2, <1>3, NowFields DEF Init, InOrder
<1>5. said \in [1..MaxTurns -> Seq(Entry)]
  BY DEF Init
<1>6. Others
  <2>1. /\ 0 \in 0..MaxTurns /\ 0 \in 0..MaxNotices /\ 0 \in 0..MaxSays
        /\ 0 \in 0..MaxFaults
    BY Bounds
  <2>2. used \in [notices : 0..MaxNotices, says : 0..MaxSays, faults : 0..MaxFaults]
    BY <2>1 DEF Init
  <2>3. /\ turn = 0 /\ ~on /\ on \in BOOLEAN /\ placed \in BOOLEAN /\ held = {}
        /\ unwritten = {} /\ failed = {}
    BY DEF Init
  <2>4. room \in Seq(Message)
    BY DEF Init
  <2> QED
    BY <1>5, <2>1, <2>2, <2>3, <2>4 DEF Others
<1>7. LandInOrder
  BY DEF Init, LandInOrder
<1> QED
  BY <1>4, <1>6, <1>7 DEF Inv, Chained

LEMMA NextKeeps ==
  ASSUME Inv, [Next]_vars
  PROVE  Inv'
<1>1. CASE TurnSteps
  <2>1. CASE BeginTurn
    BY <2>1, BeginTurnKeeps
  <2>2. ASSUME NEW what \in {"Words", "Blank", "Running"}, noticed(what)
        PROVE  Inv'
    BY <2>2, NoticedKeeps
  <2>3. CASE call_changed
    BY <2>3, CallChangedKeeps
  <2>4. CASE calls_interrupted
    BY <2>4, InterruptedKeeps
  <2>5. CASE TurnEnds
    BY <2>5, TurnEndsKeeps
  <2>6. CASE post_for
    BY <2>6, PostForKeeps
  <2> QED
    BY <1>1, <2>1, <2>2, <2>3, <2>4, <2>5, <2>6 DEF TurnSteps
<1>2. CASE say
  BY <1>2, SayKeeps
<1>3. CASE Forgotten
  BY <1>3, ForgottenKeeps
<1>4. CASE WorldSteps
  BY <1>4, RespondedKeeps, FailedKeeps, LandedKeeps, WriteFailedKeeps, GrowKeeps
     DEF WorldSteps
<1>5. CASE UNCHANGED vars
  BY <1>5, StutterKeeps
<1> QED
  BY <1>1, <1>2, <1>3, <1>4, <1>5 DEF Next

\* The inductive invariant: the chain of the room's posts is in one piece and
\* in its order, and every post in the room is before it.
THEOREM ChainInvariance == Spec => []Inv
<1>1. Init => Inv
  BY InitInv
<1>2. Inv /\ [Next]_vars => Inv'
  BY NextKeeps
<1> QED
  BY <1>1, <1>2, PTL DEF Spec

\* Every variable has its type, and one message of a turn at most is open.
THEOREM TypeCorrect == Spec => []TypeOK
<1>1. Inv => TypeOK
  <2> SUFFICES ASSUME Inv PROVE TypeOK
    OBVIOUS
  <2>1. \A o, p \in kept : o.at = "Open" /\ p.at = "Open" => o = p
    BY InvFacts, NowFields DEF OneOpen
  <2> QED
    BY <2>1, InvFacts DEF Others, TypeOK
<1> QED
  BY <1>1, ChainInvariance, PTL

\* A room's posts land in the order they were asked for, whichever answers
\* come when, are refusals, or go with a write (channel.rs:300, :320).
THEOREM PostsLandInOrder == Spec => []LandInOrder
<1>1. Inv => LandInOrder
  BY DEF Inv
<1> QED
  BY <1>1, ChainInvariance, PTL

\* Exactly one post is on its way while the room says so, nothing waits behind
\* none, and a call held open has its post in the chain (channel.rs:300, :782).
THEOREM TheChainGoesOn == Spec => []ChainGoesOn
<1>1. Inv => ChainGoesOn
  <2> SUFFICES ASSUME Inv PROVE ChainGoesOn
    OBVIOUS
  <2> DEFINE waits == UNION {Range(writes[i].posts) : i \in 1..Len(writes)}
             posts == {r \in out : r.kind # "Growing"} \union waits
  <2>1. Sent(Now) = {r \in out : r.kind # "Growing"}
    BY NowFields DEF Sent
  <2>2. None(writes) => waits = {}
    BY DEF None, Range
  <2>3. ASSUME NEW p, Alone(writes, p) PROVE waits = {p}
    <3>1. PICK i \in 1..Len(writes) :
            /\ writes[i].posts = <<p>>
            /\ \A j \in 1..Len(writes) : j # i => writes[j].posts = <<>>
      BY <2>3 DEF Alone
    <3>2. Range(writes[i].posts) = {p}
      BY <3>1 DEF Range
    <3>3. \A j \in 1..Len(writes) : j # i => Range(writes[j].posts) = {}
      BY <3>1 DEF Range
    <3> QED
      BY <3>2, <3>3
  <2>4. \A i \in 1..Len(waiting) : waiting[i] \in Range(waiting)
    BY InvFacts DEF Range
  <2> HIDE DEF waits
  <2>5. CASE ~inFlight
    <3>1. Idle(Now) /\ waiting = <<>> /\ held = {}
      BY <2>5, InvFacts, NowFields DEF InOrder
    <3>2. posts = {}
      BY <2>1, <2>2, <3>1, NowFields DEF Idle
    <3>3. Cardinality(posts) = 0
      BY <3>2, FS_EmptySet
    <3> QED
      BY <2>5, <3>1, <3>3 DEF ChainGoesOn, waits
  <2>6. CASE inFlight
    <3>1. PICK p \in Request : First(Now, Latest, held, p)
      BY <2>6, InvFacts, NowFields DEF InOrder
    <3>2. posts = {p}
      <4>1. CASE Sent(Now) = {p} /\ None(writes)
        BY <2>1, <2>2, <4>1
      <4>2. CASE Sent(Now) = {} /\ Alone(writes, p)
        BY <2>1, <2>3, <4>2
      <4> QED
        BY <3>1, <4>1, <4>2, NowFields DEF First, Going
    <3>3. Cardinality(posts) = 1
      BY <3>2, FS_Singleton
    <3>4. held \subseteq {r.call : r \in posts \union Range(waiting)}
      <4>1. SUFFICES ASSUME NEW c \in held
                     PROVE  \E r \in posts \union Range(waiting) : r.call = c
        OBVIOUS
      <4>2. CASE c = p.call
        BY <3>2, <4>2
      <4>3. CASE c # p.call
        <5>1. PICK i \in 1..Len(waiting) : waiting[i].call = c
          BY <3>1, <4>3, NowFields DEF First, Waited
        <5> QED
          BY <2>4, <5>1
      <4> QED
        BY <4>2, <4>3
    <3> QED
      BY <2>6, <3>3, <3>4 DEF ChainGoesOn, waits
  <2> QED
    BY <2>5, <2>6, InvFacts
<1> QED
  BY <1>1, ChainInvariance, PTL

=============================================================================
