---------------------------- MODULE Inbox_proofs ----------------------------
(***************************************************************************)
(* The inbox's two sequences implement the one of Mailbox, for any number  *)
(* of messages.                                                            *)
(***************************************************************************)
EXTENDS Inbox, SequenceTheorems, TLAPS

Typed ==
  /\ given \in Seq(Nat)
  /\ waiting \in Seq(Nat)
  /\ arrived \in Nat

----------------------------------------------------------------------------
(* What the operations do to two sequences read as one. *)

LEMMA Joined ==
  ASSUME NEW g \in Seq(Nat), NEW w \in Seq(Nat)
  PROVE  /\ g \o w \in Seq(Nat)
         /\ Len(g \o w) = Len(g) + Len(w)
         /\ \A i \in 1..Len(g) : (g \o w)[i] = g[i]
         /\ \A i \in Len(g) + 1..Len(g) + Len(w) : (g \o w)[i] = w[i - Len(g)]
  BY ConcatProperties

LEMMA ReceivedLast ==
  ASSUME NEW g \in Seq(Nat), NEW w \in Seq(Nat), NEW m \in Nat
  PROVE  g \o Append(w, m) = Append(g \o w, m)
  OBVIOUS

LEMMA GivenNext ==
  ASSUME NEW g \in Seq(Nat), NEW w \in Seq(Nat), w # <<>>
  PROVE  /\ Append(g, Head(w)) \o Tail(w) = g \o w
         /\ Append(g, Head(w)) \in Seq(Nat) /\ Tail(w) \in Seq(Nat)
         /\ Len(Append(g, Head(w))) = Len(g) + 1
         /\ Len(g) < Len(g \o w)
         /\ (g \o w)[Len(g) + 1] = Head(w)
  OBVIOUS

LEMMA Associates ==
  \A s, t, u \in Seq(Nat) : (s \o t) \o u = s \o (t \o u)
  BY SMTT(30)

LEMMA HandedBackNext ==
  ASSUME NEW g \in Seq(Nat), NEW w \in Seq(Nat), g # <<>>
  PROVE  LET front == SubSeq(g, 1, Len(g) - 1)
             back  == <<g[Len(g)]>> \o w
         IN  /\ front \o back = g \o w
             /\ front \in Seq(Nat) /\ back \in Seq(Nat)
             /\ Len(front) = Len(g) - 1
  <1> DEFINE front == SubSeq(g, 1, Len(g) - 1)
             last  == g[Len(g)]
  <1>1. Len(g) \in Nat \ {0} /\ Len(g) \in 1..Len(g) /\ 1 \in 1..Len(g)
    BY EmptySeq, LenProperties
  <1>2. last \in Nat  BY <1>1, ElementOfSeq
  <1>3. front \in Seq(Nat) /\ Len(front) = Len(g) - 1
    <2>1. \A i \in 1..Len(g) - 1 : g[i] \in Nat  BY <1>1, ElementOfSeq
    <2>2. 1 \in Int /\ Len(g) - 1 \in Int  BY <1>1
    <2> DEFINE k == Len(g) - 1
    <2> HIDE DEF k
    <2>3. /\ SubSeq(g, 1, k) \in Seq(Nat)
          /\ Len(SubSeq(g, 1, k)) = IF 1 <= k THEN k - 1 + 1 ELSE 0
      <3>1. k \in Int /\ \A i \in 1..k : g[i] \in Nat  BY <2>1, <2>2 DEF k
      <3>. QED  BY <2>2, <3>1, SubSeqProperties
    <2>4. k \in Nat  BY <1>1 DEF k
    <2>5. Len(SubSeq(g, 1, k)) = k  BY <2>3, <2>4
    <2>. QED  BY <2>3, <2>5, Zenon DEF k
  <1>4. front \o <<last>> = g
    BY <1>1, SubSeqFull, SubSeqRecursiveSecond
  <1>5. <<last>> \in Seq(Nat)  BY <1>2
  <1> HIDE DEF front, last
  <1>6. <<last>> \o w \in Seq(Nat)  BY <1>5, ConcatProperties
  <1> DEFINE l == <<last>>
  <1> HIDE DEF l
  <1>7. front \o (<<last>> \o w) = g \o w
    <2>1. l \in Seq(Nat) /\ front \o l = g  BY <1>4, <1>5 DEF l
    <2>2. (front \o l) \o w = front \o (l \o w)
      BY <1>3, <2>1, Associates
    <2>. QED  BY <2>1, <2>2 DEF l
  <1>. QED  BY <1>3, <1>6, <1>7 DEF front, last

LEMMA FinishedFirst ==
  ASSUME NEW g \in Seq(Nat), NEW w \in Seq(Nat)
  PROVE  /\ SubSeq(g \o w, 1, Len(g)) = g
         /\ SubSeq(g \o w, Len(g) + 1, Len(g \o w)) = w
         /\ <<>> \o w = w
  OBVIOUS

----------------------------------------------------------------------------
(* Every step is a step of Mailbox. *)

One(s, g) == [mail |-> s, given |-> g]

LEMMA OneSequence ==
  \A s, g :
    /\ One(s, g).mail = s /\ One(s, g).given = g
    /\ \A m : Whole!Receive(One(s, g), m) = One(Append(s, m), g)
    /\ Whole!HasNext(One(s, g)) <=> g < Len(s)
    /\ Whole!Give(One(s, g)) = One(s, g + 1)
    /\ Whole!LastGiven(One(s, g)) = s[g]
    /\ Whole!HandBack(One(s, g)) = IF g = 0 THEN One(s, g) ELSE One(s, g - 1)
    /\ Whole!Finish(One(s, g)) = One(SubSeq(s, g + 1, Len(s)), 0)
    /\ Whole!Drain(One(s, g)) = One(<<>>, 0)
  <1> TAKE s, g
  <1>1. One(s, g).mail = s /\ One(s, g).given = g  BY DEF One
  <1>2. \A m : Whole!Receive(One(s, g), m) = One(Append(s, m), g)
    BY DEF Whole!Receive, One
  <1>3. Whole!Give(One(s, g)) = One(s, g + 1)
    BY DEF Whole!Give, One
  <1>4. Whole!HandBack(One(s, g)) = IF g = 0 THEN One(s, g) ELSE One(s, g - 1)
    BY DEF Whole!HandBack, One
  <1>5. \A m, h : [One(s, g) EXCEPT !.mail = m, !.given = h] = One(m, h)
    <2> TAKE m, h
    <2>1. [One(s, g) EXCEPT !.mail = m] = One(m, g)  BY DEF One
    <2>2. [One(m, g) EXCEPT !.given = h] = One(m, h)  BY DEF One
    <2>3. [One(s, g) EXCEPT !.mail = m, !.given = h]
            = [[One(s, g) EXCEPT !.mail = m] EXCEPT !.given = h]
      OBVIOUS
    <2>. QED  BY <2>1, <2>2, <2>3, Zenon
  <1>6. Whole!Finish(One(s, g)) = One(SubSeq(s, g + 1, Len(s)), 0)
    BY <1>1, <1>5, Zenon DEF Whole!Finish
  <1>7. Whole!Drain(One(s, g)) = One(<<>>, 0)
    BY <1>5, Zenon DEF Whole!Drain
  <1>. QED
    BY <1>1, <1>2, <1>3, <1>4, <1>6, <1>7, Zenon
    DEF Whole!HasNext, Whole!LastGiven

LEMMA Initially == Init => Typed /\ Whole!Init
  <1> SUFFICES ASSUME Init PROVE Typed /\ Whole!Init
    OBVIOUS
  <1>1. Typed  BY EmptySeq DEF Init, Typed
  <1>2. given \o waiting = <<>> /\ Len(given) = 0  BY DEF Init
  <1>. QED  BY <1>1, <1>2 DEF Init, Whole!Init

LEMMA Steps == Typed /\ [Next]_vars => Typed' /\ [Whole!Next]_(Whole!vars)
  <1> SUFFICES ASSUME Typed, [Next]_vars
               PROVE  Typed' /\ [Whole!Next]_(Whole!vars)
    OBVIOUS
  <1> DEFINE all == given \o waiting
  <1>0. given \in Seq(Nat) /\ waiting \in Seq(Nat) /\ arrived \in Nat
        /\ Len(given) \in Nat
    BY LenProperties DEF Typed
  <1>1. CASE receive
    <2>1. arrived + 1 \in Nat  BY <1>0
    <2>2. /\ given' = given
          /\ waiting' = Append(waiting, arrived + 1)
          /\ arrived' = arrived + 1 /\ answer' = <<>> /\ arrived < Limit
      BY <1>1 DEF receive
    <2>3. all' = Append(all, arrived + 1) /\ waiting' \in Seq(Nat)
      BY <1>0, <2>1, <2>2, ReceivedLast
    <2> HIDE DEF all
    <2>4. One(all', Len(given')) = Whole!Receive(One(all, Len(given)), arrived')
      BY <2>2, <2>3, OneSequence, Zenon
    <2>5. Whole!Arrives
      BY <2>2, <2>4 DEF Whole!Arrives, One, all
    <2>. QED  BY <1>0, <2>1, <2>2, <2>3, <2>5 DEF Typed, Whole!Next
  <1>2. CASE give /\ waiting # <<>>
    <2>1. /\ given' = Append(given, Head(waiting))
          /\ waiting' = Tail(waiting)
          /\ answer' = <<Head(waiting)>> /\ arrived' = arrived
      BY <1>2 DEF give
    <2>2. /\ all' = all
          /\ given' \in Seq(Nat) /\ waiting' \in Seq(Nat)
          /\ Len(given') = Len(given) + 1
          /\ Len(given) < Len(all)
          /\ all[Len(given) + 1] = Head(waiting)
      BY <1>0, <1>2, <2>1, GivenNext
    <2> HIDE DEF all
    <2>3. One(all', Len(given')) = Whole!Give(One(all, Len(given)))
      BY <2>2, OneSequence
    <2>4. Whole!HasNext(One(all, Len(given)))
      BY <2>2, OneSequence, Zenon
    <2>5. Whole!LastGiven(One(all', Len(given'))) = Head(waiting)
      <3>1. Whole!LastGiven(One(all', Len(given'))) = all'[Len(given')]
        BY OneSequence
      <3>. QED  BY <2>2, <3>1
    <2>6. Whole!Gives
      BY <2>1, <2>3, <2>4, <2>5 DEF Whole!Gives, One, all
    <2>. QED  BY <1>0, <2>1, <2>2, <2>6 DEF Typed, Whole!Next
  <1>3. CASE give /\ waiting = <<>>
    <2>1. UNCHANGED <<given, waiting, arrived>> /\ answer' = <<>>
      BY <1>3 DEF give
    <2>2. ~(Len(given) < Len(given \o <<>>))  BY <1>0
    <2>3. Whole!Gives
      BY <1>3, <2>1, <2>2 DEF Whole!Gives, Whole!HasNext
    <2>. QED  BY <1>0, <2>1, <2>3 DEF Typed, Whole!Next
  <1>4. CASE hand_back /\ given # <<>>
    <2>1. /\ waiting' = <<given[Len(given)]>> \o waiting
          /\ given' = SubSeq(given, 1, Len(given) - 1)
          /\ answer' = <<>> /\ arrived' = arrived
      BY <1>4 DEF hand_back
    <2>2. /\ all' = all
          /\ given' \in Seq(Nat) /\ waiting' \in Seq(Nat)
          /\ Len(given') = Len(given) - 1
      BY <1>0, <1>4, <2>1, HandedBackNext
    <2>3. Len(given) # 0  BY <1>4, <1>0, EmptySeq
    <2> HIDE DEF all
    <2>4. Whole!HandsBack
      BY <2>1, <2>2, <2>3 DEF Whole!HandsBack, Whole!HandBack, all
    <2>. QED  BY <1>0, <2>1, <2>2, <2>4 DEF Typed, Whole!Next
  <1>5. CASE hand_back /\ given = <<>>
    <2>1. UNCHANGED <<given, waiting, arrived>> /\ answer' = <<>>
      BY <1>5 DEF hand_back
    <2>2. Len(given) = 0  BY <1>5, EmptySeq
    <2>3. Whole!HandsBack
      BY <2>1, <2>2 DEF Whole!HandsBack, Whole!HandBack
    <2>. QED  BY <1>0, <2>1, <2>3 DEF Typed, Whole!Next
  <1>6. CASE finish
    <2>1. /\ answer' = given /\ given' = <<>>
          /\ waiting' = waiting /\ arrived' = arrived
      BY <1>6 DEF finish
    <2>2. /\ SubSeq(all, 1, Len(given)) = given
          /\ SubSeq(all, Len(given) + 1, Len(all)) = all'
          /\ Len(given') = 0 /\ given' \in Seq(Nat)
      BY <1>0, <2>1, FinishedFirst, EmptySeq
    <2> HIDE DEF all
    <2>3. One(all', Len(given')) = Whole!Finish(One(all, Len(given)))
      BY <2>2, OneSequence, Zenon
    <2>4. Whole!Finishes
      BY <2>1, <2>2, <2>3 DEF Whole!Finishes, One, all
    <2>. QED  BY <1>0, <2>1, <2>2, <2>4 DEF Typed, Whole!Next
  <1>7. CASE drain
    <2>1. /\ answer' = all /\ given' = <<>>
          /\ waiting' = <<>> /\ arrived' = arrived
      BY <1>7 DEF drain
    <2>2. all' = <<>> /\ Len(given') = 0 /\ <<>> \in Seq(Nat)
      BY <2>1, EmptySeq
    <2> HIDE DEF all
    <2>3. One(all', Len(given')) = Whole!Drain(One(all, Len(given)))
      BY <2>2, OneSequence, Zenon
    <2>4. Whole!Drains
      BY <2>1, <2>3 DEF Whole!Drains, One, all
    <2>. QED  BY <1>0, <2>1, <2>2, <2>4 DEF Typed, Whole!Next
  <1>8. CASE UNCHANGED vars
    BY <1>0, <1>8 DEF vars, Typed, Whole!vars
  <1>. QED  BY <1>1, <1>2, <1>3, <1>4, <1>5, <1>6, <1>7, <1>8 DEF Next

\* What every method of the code's inbox does to its two sequences, and what
\* it answers with, is what Mailbox does to the one sequence they make up.
THEOREM InboxImplementsMailbox == Spec => Implements
  BY Initially, Steps, PTL DEF Spec, Implements, Whole!Spec

=============================================================================
