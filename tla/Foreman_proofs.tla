--------------------------- MODULE Foreman_proofs ---------------------------
(***************************************************************************)
(* Theorems about Foreman, for any number of messages, threads, refusals,  *)
(* failed writes and crashes.                                              *)
(***************************************************************************)
EXTENDS Foreman, SequenceTheorems, TLAPS

Driving == Reads \union {MakeRoom, Inspect}
Deferred == [snap : Project, effects : SUBSET Effect]

\* A project that is not watched has no foreman to hold anything.
Sound(p) == p \in Project /\ (p.watched \/ p.mail = <<>>)

\* A crash brings back whatever record had reached the disk, so every record
\* written or being written is sound.
Snaps(q) ==
  /\ q \in Seq(Deferred)
  /\ \A i \in 1..Len(q) : Sound(q[i].snap)

\* What the instance holds, and what the world does.
Inner ==
  /\ Sound(project)
  /\ turn \in Turn
  /\ pending \in BOOLEAN
  /\ read \in {NoMessage} \union Message
  /\ interrupted \in BOOLEAN
  /\ listing \in {"None", "Names", "Labels"}
  /\ halts \in Nat
  /\ Snaps(deferred)
  /\ out \subseteq Effect
  /\ fate \in [Message -> Fates]
  /\ put \in [Message -> Nat]
  /\ stranded \in BOOLEAN

Outer ==
  /\ Sound(disk)
  /\ container \in {"None", "Down", "Up"}
  /\ said \in Nat
  /\ announced \in BOOLEAN
  /\ used \in [refusals : Nat, failures : Nat, crashes : Nat]

Typed == Inner /\ Outer

(* S is what the loop is asking for, all that is asked for anywhere, and in *)
(* one place.                                                              *)
Carries(q, o, S) ==
  /\ S \subseteq Driving
  /\ \A e \in Driving : e \in S <=> \E i \in 0..Len(q) : e \in At(q, o, i)
  /\ \A i, k \in 0..Len(q) : \A e, f \in Driving :
       e \in At(q, o, i) /\ f \in At(q, o, k) => i = k /\ e = f

Shown(m) == IF m \in Threaded THEN m ELSE NoMessage

(* How what is asked for stands to the message in hand, the turn, and the  *)
(* thread read for it.                                                     *)
Stands(p, t, waits, have, lost, S) ==
  /\ waits <=> \E m \in Message : S = {Read(m)}
  /\ t.stage # "None" => S = {} /\ have = NoMessage /\ t.shown = Shown(t.message)
  /\ p.watched /\ p.mail = <<>> => S = {} /\ t.stage = "None" /\ have = NoMessage
  /\ p.mail # <<>> => t.stage # "None" \/ S # {} \/ lost
  /\ S = {MakeRoom} => have = NoMessage
  /\ \A m \in Message :
       S = {Read(m)} => m \in Threaded /\ (p.mail # <<>> => m = Head(p.mail))
  /\ S = {Inspect} /\ p.mail # <<>> => have = Shown(Head(p.mail))

Looping ==
  \E S \in SUBSET Driving :
    /\ Carries(deferred, out, S)
    /\ Stands(project, turn, pending, read, stranded, S)

\* Nothing is being removed of a project that is watched.
Unharmed ==
  project.watched =>
    /\ Discard \notin out
    /\ \A i \in 1..Len(deferred) : Discard \notin deferred[i].effects


----------------------------------------------------------------------------
(* Writes in flight and what waits on them. *)

LEMMA AppendAt ==
  ASSUME NEW q \in Seq(Deferred), NEW p \in Project, NEW E \in SUBSET Effect, NEW o
  PROVE  LET a == Append(q, [snap |-> p, effects |-> E]) IN
         /\ a \in Seq(Deferred) /\ Len(a) = Len(q) + 1
         /\ \A i \in 0..Len(q) : At(a, o, i) = At(q, o, i)
         /\ At(a, o, Len(q) + 1) = E
  BY DEF Deferred, At

LEMMA TailAt ==
  ASSUME NEW q \in Seq(Deferred), q # <<>>, NEW o, NEW o2
  PROVE  /\ Tail(q) \in Seq(Deferred) /\ Len(q) \in Nat \ {0}
         /\ Len(Tail(q)) = Len(q) - 1
         /\ Head(q) \in Deferred /\ Head(q) = q[1]
         /\ At(q, o, 1) = Head(q).effects
         /\ \A i \in 1..Len(Tail(q)) : At(Tail(q), o2, i) = At(q, o, i + 1)
  <1>1. Len(q) \in Nat \ {0}  BY EmptySeq
  <1>2. /\ Tail(q) \in Seq(Deferred) /\ Len(Tail(q)) = Len(q) - 1
        /\ Head(q) \in Deferred
        /\ \A i \in 1..Len(Tail(q)) : Tail(q)[i] = q[i + 1]
    BY HeadTailProperties
  <1>3. Head(q) = q[1]  BY <1>1
  <1>. QED  BY <1>1, <1>2, <1>3 DEF At

\* What a step asks for waits on the write of what it changed.
LEMMA WriteCarries ==
  ASSUME NEW q \in Seq(Deferred), NEW o, NEW S, Carries(q, o, S),
         NEW p \in Project, NEW E \in SUBSET Effect,
         E \intersect Driving = {} \/ (S = {} /\ \E e \in Driving : E \intersect Driving = {e})
  PROVE  Carries(Append(q, [snap |-> p, effects |-> E]), o, S \union (E \intersect Driving))
  <1> DEFINE a == Append(q, [snap |-> p, effects |-> E])
             T == S \union (E \intersect Driving)
  <1>1. /\ Len(q) \in Nat /\ Len(a) = Len(q) + 1
        /\ \A i \in 0..Len(q) : At(a, o, i) = At(q, o, i)
        /\ At(a, o, Len(q) + 1) = E
    BY AppendAt
  <1> HIDE DEF a
  <1>2. T \subseteq Driving  BY DEF Carries
  <1>3. 0..Len(a) = (0..Len(q)) \union {Len(q) + 1}  BY <1>1
  <1>4. \A e \in Driving : e \in T <=> \E i \in 0..Len(a) : e \in At(a, o, i)
    BY <1>1, <1>3 DEF Carries
  <1>5. \A i, k \in 0..Len(a) : \A e, f \in Driving :
          e \in At(a, o, i) /\ f \in At(a, o, k) => i = k /\ e = f
    BY <1>1, <1>3 DEF Carries
  <1>. QED  BY <1>2, <1>4, <1>5 DEF Carries, a

\* Or goes at once.
LEMMA ReleaseCarries ==
  ASSUME NEW q \in Seq(Deferred), NEW o, NEW S, Carries(q, o, S), NEW E,
         E \intersect Driving = {} \/ (S = {} /\ \E e \in Driving : E \intersect Driving = {e})
  PROVE  Carries(q, o \union E, S \union (E \intersect Driving))
  <1>1. /\ Len(q) \in Nat
        /\ At(q, o \union E, 0) = At(q, o, 0) \union E
        /\ \A i \in 1..Len(q) : At(q, o \union E, i) = At(q, o, i)
    BY DEF At
  <1> DEFINE T == S \union (E \intersect Driving)
  <1>2. 0..Len(q) = {0} \union (1..Len(q)) /\ 0 \notin 1..Len(q)  BY <1>1
  <1>3. T \subseteq Driving  BY DEF Carries
  <1>4. \A e \in Driving : e \in T <=> \E i \in 0..Len(q) : e \in At(q, o \union E, i)
    BY <1>1, <1>2 DEF Carries
  <1>5. \A i, k \in 0..Len(q) : \A e, f \in Driving :
          e \in At(q, o \union E, i) /\ f \in At(q, o \union E, k) => i = k /\ e = f
    <2>1. CASE E \intersect Driving = {}
      <3>1. \A i \in 0..Len(q), e \in Driving :
              e \in At(q, o \union E, i) <=> e \in At(q, o, i)
        BY <1>1, <1>2, <2>1
      <3>. QED  BY <3>1 DEF Carries
    <2>2. CASE S = {} /\ \E e \in Driving : E \intersect Driving = {e}
      <3>1. \A i \in 0..Len(q), e \in Driving : e \notin At(q, o, i)
        BY <2>2 DEF Carries
      <3>2. \A i \in 0..Len(q), e \in Driving :
              e \in At(q, o \union E, i) => i = 0 /\ e \in E
        BY <1>1, <1>2, <3>1
      <3>. QED  BY <2>2, <3>2
    <2>. QED  BY <2>1, <2>2
  <1>. QED  BY <1>3, <1>4, <1>5, Zenon DEF Carries

\* The world's answer takes it.
LEMMA TakenCarries ==
  ASSUME NEW q \in Seq(Deferred), NEW o, NEW S, Carries(q, o, S),
         NEW e \in Driving, e \in o
  PROVE  S = {e} /\ Carries(q, o \ {e}, {})
  <1>1. /\ Len(q) \in Nat
        /\ At(q, o, 0) = o /\ At(q, o \ {e}, 0) = o \ {e}
        /\ \A i \in 1..Len(q) : At(q, o \ {e}, i) = At(q, o, i)
    BY DEF At
  <1>2. 0..Len(q) = {0} \union (1..Len(q))  BY <1>1
  <1>3. \A i \in 0..Len(q), f \in Driving : f \in At(q, o, i) => i = 0 /\ f = e
    BY <1>1, <1>2 DEF Carries
  <1>4. S = {e}  BY <1>1, <1>2, <1>3 DEF Carries
  <1>5. \A i \in 0..Len(q), f \in Driving : f \notin At(q, o \ {e}, i)
    BY <1>1, <1>2, <1>3
  <1>6. Carries(q, o \ {e}, {})  BY <1>5 DEF Carries
  <1>. QED  BY <1>4, <1>6

LEMMA OtherCarries ==
  ASSUME NEW q \in Seq(Deferred), NEW o, NEW S, Carries(q, o, S), NEW x, x \notin Driving
  PROVE  Carries(q, o \ {x}, S)
  <1>1. /\ Len(q) \in Nat
        /\ At(q, o, 0) = o /\ At(q, o \ {x}, 0) = o \ {x}
        /\ \A i \in 1..Len(q) : At(q, o \ {x}, i) = At(q, o, i)
    BY DEF At
  <1>2. \A i \in 0..Len(q), f \in Driving : f \in At(q, o \ {x}, i) <=> f \in At(q, o, i)
    BY <1>1, 0..Len(q) = {0} \union (1..Len(q))
  <1>3. ASSUME NEW f \in Driving
        PROVE  (\E i \in 0..Len(q) : f \in At(q, o, i))
               <=> (\E i \in 0..Len(q) : f \in At(q, o \ {x}, i))
    BY <1>2
  <1>4. \A f \in Driving : f \in S <=> \E i \in 0..Len(q) : f \in At(q, o \ {x}, i)
    BY <1>3 DEF Carries
  <1>5. ASSUME NEW i \in 0..Len(q), NEW k \in 0..Len(q), NEW e \in Driving, NEW f \in Driving,
               e \in At(q, o \ {x}, i), f \in At(q, o \ {x}, k)
        PROVE  i = k /\ e = f
    BY <1>2, <1>5 DEF Carries
  <1>6. S \subseteq Driving  BY DEF Carries
  <1>. QED  BY <1>4, <1>5, <1>6 DEF Carries

\* A write that lands lets go of what waited on it.
LEMMA LandedCarries ==
  ASSUME NEW q \in Seq(Deferred), q # <<>>, NEW o, NEW S, Carries(q, o, S)
  PROVE  Carries(Tail(q), o \union Head(q).effects, S)
  <1> DEFINE t == Tail(q)
             o2 == o \union Head(q).effects
  <1>1. /\ Len(q) \in Nat \ {0} /\ Len(t) = Len(q) - 1
        /\ At(q, o, 1) = Head(q).effects
        /\ \A i \in 1..Len(t) : At(t, o2, i) = At(q, o, i + 1)
    BY TailAt
  <1>2. At(t, o2, 0) = At(q, o, 0) \union At(q, o, 1)
    BY <1>1 DEF At
  <1> HIDE DEF t, o2
  <1>3. \A e \in Driving : e \in S <=> \E i \in 0..Len(t) : e \in At(t, o2, i)
    <2> TAKE e \in Driving
    <2>1. ASSUME NEW i \in 0..Len(q), e \in At(q, o, i)
          PROVE  \E k \in 0..Len(t) : e \in At(t, o2, k)
      <3>1. CASE i \in {0, 1}  BY <1>1, <1>2, <2>1, <3>1
      <3>2. CASE i - 1 \in 1..Len(t)  BY <1>1, <2>1, <3>2
      <3>. QED  BY <1>1, <3>1, <3>2
    <2>2. ASSUME NEW i \in 0..Len(t), e \in At(t, o2, i)
          PROVE  \E k \in 0..Len(q) : e \in At(q, o, k)
      <3>1. CASE i = 0  BY <1>1, <1>2, <2>2, <3>1
      <3>2. CASE i \in 1..Len(t)  BY <1>1, <2>2, <3>2
      <3>. QED  BY <3>1, <3>2
    <2>. QED  BY <2>1, <2>2 DEF Carries
  <1>4. ASSUME NEW i \in 0..Len(t), NEW k \in 0..Len(t), NEW e \in Driving, NEW f \in Driving,
               e \in At(t, o2, i), f \in At(t, o2, k)
        PROVE  i = k /\ e = f
    <2>1. \A n \in 0..Len(t), x \in Driving : x \in At(t, o2, n) =>
            \E l \in 0..Len(q) : x \in At(q, o, l) /\ l \in {n + 1, n} /\ (l = n => n = 0)
      <3> TAKE n \in 0..Len(t), x \in Driving
      <3>1. CASE n = 0  BY <1>1, <1>2, <3>1
      <3>2. CASE n \in 1..Len(t)  BY <1>1, <3>2
      <3>. QED  BY <3>1, <3>2
    <2>. QED  BY <1>1, <1>4, <2>1 DEF Carries
  <1>. QED  BY <1>3, <1>4 DEF Carries, t, o2

\* One that fails drops it.
LEMMA DroppedCarries ==
  ASSUME NEW q \in Seq(Deferred), q # <<>>, NEW o, NEW S, Carries(q, o, S)
  PROVE  /\ Head(q).effects \intersect Driving = {} => Carries(Tail(q), o, S)
         /\ \A e \in Driving : e \in Head(q).effects => S = {e} /\ Carries(Tail(q), o, {})
  <1> DEFINE t == Tail(q)
  <1>1. /\ Len(q) \in Nat \ {0} /\ Len(t) = Len(q) - 1
        /\ At(q, o, 1) = Head(q).effects
        /\ \A i \in 1..Len(t) : At(t, o, i) = At(q, o, i + 1)
        /\ At(t, o, 0) = At(q, o, 0)
    BY TailAt DEF At
  <1> HIDE DEF t
  <1>2. ASSUME Head(q).effects \intersect Driving = {}
        PROVE  Carries(t, o, S)
    <2>1. \A e \in Driving : e \in S <=> \E i \in 0..Len(t) : e \in At(t, o, i)
      <3> TAKE e \in Driving
      <3>1. ASSUME NEW i \in 0..Len(q), e \in At(q, o, i)
            PROVE  \E k \in 0..Len(t) : e \in At(t, o, k)
        <4>1. i # 1  BY <1>1, <1>2, <3>1
        <4>2. CASE i = 0  BY <1>1, <3>1, <4>2
        <4>3. CASE i - 1 \in 1..Len(t)
          <5>1. (i - 1) + 1 = i  OBVIOUS
          <5>2. At(t, o, i - 1) = At(q, o, (i - 1) + 1)  BY <1>1, <4>3
          <5>. QED  BY <3>1, <4>3, <5>1, <5>2
        <4>. QED  BY <1>1, <4>1, <4>2, <4>3
      <3>2. ASSUME NEW i \in 0..Len(t), e \in At(t, o, i)
            PROVE  \E k \in 0..Len(q) : e \in At(q, o, k)
        <4>1. CASE i = 0  BY <1>1, <3>2, <4>1
        <4>2. CASE i \in 1..Len(t)  BY <1>1, <3>2, <4>2
        <4>. QED  BY <4>1, <4>2
      <3>. QED  BY <3>1, <3>2 DEF Carries
    <2>2. ASSUME NEW i \in 0..Len(t), NEW k \in 0..Len(t),
                 NEW e \in Driving, NEW f \in Driving,
                 e \in At(t, o, i), f \in At(t, o, k)
          PROVE  i = k /\ e = f
      <3>1. \A n \in 0..Len(t), x \in Driving : x \in At(t, o, n) =>
              \E l \in 0..Len(q) : x \in At(q, o, l) /\ l = (IF n = 0 THEN 0 ELSE n + 1)
        <4> TAKE n \in 0..Len(t), x \in Driving
        <4>1. CASE n = 0  BY <1>1, <4>1
        <4>2. CASE n \in 1..Len(t)  BY <1>1, <4>2
        <4>. QED  BY <4>1, <4>2
      <3>. QED  BY <1>1, <2>2, <3>1 DEF Carries
    <2>. QED  BY <2>1, <2>2 DEF Carries
  <1>3. ASSUME NEW e \in Driving, e \in Head(q).effects
        PROVE  S = {e} /\ Carries(t, o, {})
    <2>1. \A i \in 0..Len(q), f \in Driving : f \in At(q, o, i) => i = 1 /\ f = e
      BY <1>1, <1>3 DEF Carries
    <2>2. S = {e}  BY <1>1, <1>3, <2>1 DEF Carries
    <2>3. \A i \in 0..Len(t), f \in Driving : f \notin At(t, o, i)
      <3> TAKE i \in 0..Len(t), f \in Driving
      <3>1. CASE i = 0  BY <1>1, <2>1, <3>1
      <3>2. CASE i \in 1..Len(t)  BY <1>1, <2>1, <3>2
      <3>. QED  BY <3>1, <3>2
    <2>. QED  BY <2>2, <2>3 DEF Carries
  <1>. QED  BY <1>2, <1>3 DEF t

----------------------------------------------------------------------------
(* What is asked before a turn. *)

LEMMA EffectTypes ==
  /\ {MakeRoom, Inspect, Discard} \subseteq Effect
  /\ \A m \in Message : {Read(m), Seen(m), Done(m), Stuck(m)} \subseteq Effect
  /\ Driving \subseteq Effect
  /\ Discard \notin Driving
  /\ \A m \in Message : {Seen(m), Done(m), Stuck(m)} \intersect Driving = {}
  /\ \A m \in Message : Read(m) \in Driving
  BY DEF Effect, Driving, MakeRoom, Inspect, Discard, Read, Seen, Done, Stuck, Reads

LEMMA Begins ==
  ASSUME NEW p, Sound(p), p.watched => p.mail # <<>>,
         NEW t, t.stage = "None", NEW lost,
         NEW A, A = Goes(p, FALSE, NoMessage) \/ A = LooksFirst(p, FALSE, NoMessage)
  PROVE  \E e \in Driving :
           A = {e} /\ Stands(p, t, Awaits(FALSE, A), NoMessage, lost, {e})
  <1>1. p.mail # <<>> => Head(p.mail) \in Message
    BY DEF Sound, Project
  <1>2. CASE p.mail # <<>> /\ Head(p.mail) \in Threaded /\ A = {Read(Head(p.mail))}
    <2> DEFINE h == Head(p.mail)
    <2>1. /\ Read(h) \in Driving /\ Read(h) \in Reads
          /\ \A m \in Message : {Read(h)} = {Read(m)} => m = h
          /\ Read(h) # MakeRoom /\ Read(h) # Inspect
      BY <1>1, <1>2 DEF Driving, Reads, Read, Effect, MakeRoom, Inspect
    <2> HIDE DEF h
    <2>2. h \in Threaded /\ h \in Message /\ A = {Read(h)} /\ p.mail # <<>> /\ h = Head(p.mail)
      BY <1>1, <1>2 DEF h
    <2>3. Awaits(FALSE, A) = TRUE  BY <2>1, <2>2 DEF Awaits
    <2>4. Stands(p, t, TRUE, NoMessage, lost, {Read(h)})
      BY <2>1, <2>2 DEF Stands
    <2>. QED  BY <2>1, <2>2, <2>3, <2>4
  <1>3. CASE A = {Inspect} /\ (p.mail # <<>> => Head(p.mail) \notin Threaded)
    <2>1. /\ Inspect \in Driving /\ Inspect \notin Reads /\ Inspect # MakeRoom
          /\ \A m \in Message : Inspect # Read(m)
      BY DEF Driving, Reads, Read, Effect, MakeRoom, Inspect
    <2>2. Awaits(FALSE, A) = FALSE  BY <1>3, <2>1 DEF Awaits
    <2>3. Stands(p, t, FALSE, NoMessage, lost, {Inspect})
      BY <1>3, <2>1 DEF Stands, Shown
    <2>. QED  BY <1>3, <2>1, <2>2, <2>3
  <1>4. CASE A = {MakeRoom}
    <2>1. /\ MakeRoom \in Driving /\ MakeRoom \notin Reads /\ Inspect # MakeRoom
          /\ \A m \in Message : MakeRoom # Read(m)
      BY DEF Driving, Reads, Read, Effect, MakeRoom, Inspect
    <2>2. Awaits(FALSE, A) = FALSE  BY <1>4, <2>1 DEF Awaits
    <2>3. Stands(p, t, FALSE, NoMessage, lost, {MakeRoom})
      BY <2>1 DEF Stands
    <2>. QED  BY <1>4, <2>1, <2>2, <2>3
  <1>. QED  BY <1>2, <1>3, <1>4 DEF Goes, LooksFirst

\* The loop goes on behind a write of what changed, or at once.
LEMMA GoesOnWritten ==
  ASSUME NEW q \in Seq(Deferred), NEW o, Carries(q, o, {}),
         NEW F \in SUBSET Effect, F \intersect Driving = {}, NEW r \in Project,
         NEW p, Sound(p), p.watched => p.mail # <<>>,
         NEW t, t.stage = "None", NEW lost,
         NEW A, A = Goes(p, FALSE, NoMessage) \/ A = LooksFirst(p, FALSE, NoMessage)
  PROVE  \E S \in SUBSET Driving :
           /\ Carries(Append(q, [snap |-> r, effects |-> F \union A]), o, S)
           /\ Stands(p, t, Awaits(FALSE, A), NoMessage, lost, S)
  <1>1. PICK e \in Driving :
          A = {e} /\ Stands(p, t, Awaits(FALSE, A), NoMessage, lost, {e})
    BY Begins
  <1>2. F \union A \in SUBSET Effect /\ (F \union A) \intersect Driving = {e}
    BY <1>1, EffectTypes
  <1>3. Carries(Append(q, [snap |-> r, effects |-> F \union A]), o,
                {} \union ((F \union A) \intersect Driving))
    BY <1>2, WriteCarries
  <1>. QED  BY <1>1, <1>2, <1>3

LEMMA GoesOnReleased ==
  ASSUME NEW q \in Seq(Deferred), NEW o, Carries(q, o, {}),
         NEW p, Sound(p), p.watched => p.mail # <<>>,
         NEW t, t.stage = "None", NEW lost,
         NEW A, A = Goes(p, FALSE, NoMessage)
  PROVE  \E S \in SUBSET Driving :
           /\ Carries(q, o \union A, S)
           /\ Stands(p, t, Awaits(FALSE, A), NoMessage, lost, S)
  <1>1. PICK e \in Driving :
          A = {e} /\ Stands(p, t, Awaits(FALSE, A), NoMessage, lost, {e})
    BY Begins
  <1>2. A \intersect Driving = {e}  BY <1>1
  <1>3. Carries(q, o \union A, {} \union (A \intersect Driving))
    BY <1>2, ReleaseCarries
  <1>. QED  BY <1>1, <1>2, <1>3

----------------------------------------------------------------------------
(* Types. *)

LEMMA AsksTyped ==
  ASSUME NEW p \in Project, NEW w, NEW h
  PROVE  Goes(p, w, h) \subseteq Effect /\ LooksFirst(p, w, h) \subseteq Effect
  <1>1. p.mail # <<>> => Head(p.mail) \in Message  BY DEF Project
  <1>. QED  BY <1>1, EffectTypes DEF Goes, LooksFirst

LEMMA TailSound ==
  ASSUME NEW p, Sound(p), p.mail # <<>>
  PROVE  /\ Head(p.mail) \in Message
         /\ Sound([p EXCEPT !.mail = Tail(@)])
  BY DEF Sound, Project

LEMMA ReceiveSound ==
  ASSUME NEW p, Sound(p), p.watched, NEW m \in Message
  PROVE  /\ Sound(Receive(p, m))
         /\ Receive(p, m).watched = p.watched /\ Receive(p, m).room = p.room
         /\ Receive(p, m).mail # <<>>
         /\ p.mail # <<>> => Head(Receive(p, m).mail) = Head(p.mail)
  <1>1. Receive(p, m) = [p EXCEPT !.mail = Append(p.mail, m)]  BY DEF Receive
  <1>2. p.mail \in Seq(Message)  BY DEF Sound, Project
  <1>3. /\ Append(p.mail, m) \in Seq(Message) /\ Append(p.mail, m) # <<>>
        /\ p.mail # <<>> => Head(Append(p.mail, m)) = Head(p.mail)
    BY <1>2, HeadTailAppend, AppendProperties
  <1>. QED  BY <1>1, <1>3 DEF Sound, Project

LEMMA WriteTyped ==
  ASSUME NEW q, Snaps(q), Sound(project'), NEW o, o \subseteq Effect,
         NEW E, E \subseteq Effect, Write(q, o, E)
  PROVE  Snaps(deferred)' /\ out' \subseteq Effect
  <1>1. project' \in Project /\ q \in Seq(Deferred)  BY DEF Sound, Snaps
  <1>2. [snap |-> project', effects |-> E] \in Deferred  BY <1>1 DEF Deferred
  <1>. QED  BY <1>1, <1>2 DEF Snaps, Write

LEMMA TailSnaps ==
  ASSUME NEW q, Snaps(q), q # <<>>
  PROVE  /\ Snaps(Tail(q)) /\ Sound(Head(q).snap) /\ Head(q).effects \subseteq Effect
         /\ q \in Seq(Deferred)
  <1>1. q \in Seq(Deferred) /\ Len(q) \in Nat \ {0}
    BY EmptySeq DEF Snaps
  <1>2. /\ Tail(q) \in Seq(Deferred) /\ Len(Tail(q)) = Len(q) - 1
        /\ Head(q) \in Deferred
        /\ \A i \in 1..Len(Tail(q)) : Tail(q)[i] = q[i + 1]
    BY <1>1, HeadTailProperties
  <1>3. Head(q) = q[1]  BY <1>1
  <1>4. \A i \in 1..Len(Tail(q)) : Sound(Tail(q)[i].snap)
    BY <1>1, <1>2 DEF Snaps
  <1>5. Sound(q[1].snap)  BY <1>1 DEF Snaps
  <1>. QED  BY <1>1, <1>2, <1>3, <1>4, <1>5 DEF Snaps, Deferred

LEMMA BecomesTyped ==
  ASSUME fate \in [Message -> Fates], NEW ms, NEW f \in Fates
  PROVE  Becomes(ms, f) \in [Message -> Fates]
  BY DEF Becomes

LEMMA NoTurnTyped == NoTurn \in Turn /\ NoTurn.stage = "None"
  BY DEF NoTurn, Turn

LEMMA EndedTyped ==
  ASSUME Inner, NEW a \in BOOLEAN, Ended(a)
  PROVE  Inner'
  <1>1. /\ turn' \in Turn /\ interrupted' \in BOOLEAN
        /\ UNCHANGED <<read, listing, put, stranded>>
    BY NoTurnTyped DEF Ended
  <1>2. CASE project.mail # <<>>
    <2> DEFINE m == Head(project.mail)
               made == turn.stage \notin Commanding \/ turn.stage = "Starting"
               asks == IF project'.mail # <<>>
                         THEN LooksFirst(project', pending, read) ELSE {}
    <2>1. /\ project' = [project EXCEPT !.mail = Tail(@)]
          /\ fate' = Becomes({m}, IF a THEN "Done" ELSE "Stuck")
          /\ pending' = Awaits(pending, asks)
          /\ halts' = IF project'.mail = <<>> /\ made THEN halts + 1 ELSE halts
          /\ Write(deferred, out, {IF a THEN Done(m) ELSE Stuck(m)} \union asks)
      BY <1>2 DEF Ended
    <2>2. m \in Message /\ Sound(project')
      BY <1>2, <2>1, TailSound DEF Inner
    <2>3. asks \subseteq Effect
      BY <2>2, AsksTyped DEF Sound
    <2>4. {IF a THEN Done(m) ELSE Stuck(m)} \union asks \subseteq Effect
      BY <2>2, <2>3, EffectTypes
    <2>5. Snaps(deferred)' /\ out' \subseteq Effect
      BY <2>1, <2>2, <2>4, WriteTyped DEF Inner
    <2>6. fate' \in [Message -> Fates]
      BY <2>1, BecomesTyped DEF Inner, Fates
    <2>7. pending' \in BOOLEAN /\ halts' \in Nat
      BY <2>1 DEF Inner, Awaits
    <2>. QED  BY <1>1, <2>2, <2>5, <2>6, <2>7 DEF Inner
  <1>3. CASE project.mail = <<>>
    <2>1. UNCHANGED <<project, fate, pending, halts>> /\ Write(deferred, out, {})
      BY <1>3 DEF Ended
    <2>2. Snaps(deferred)' /\ out' \subseteq Effect
      BY <2>1, WriteTyped DEF Inner
    <2>. QED  BY <1>1, <2>1, <2>2 DEF Inner
  <1>. QED  BY <1>2, <1>3

LEMMA GoesOnTyped ==
  ASSUME Inner, NEW failed \in BOOLEAN,
         NEW stage \in {"Creating", "Building", "Starting", "Opening"}, GoesOn(failed, stage)
  PROVE  Inner'
  <1>1. CASE Ended(FALSE)  BY <1>1, EndedTyped
  <1>2. CASE /\ turn' = [turn EXCEPT !.stage = stage]
             /\ UNCHANGED <<project, pending, read, interrupted, sweep, deferred, out, history>>
    <2>1. turn' \in Turn  BY <1>2 DEF Inner, Turn, Commanding, Speaking
    <2>. QED  BY <1>2, <2>1 DEF Inner, sweep, history
  <1>. QED  BY <1>1, <1>2 DEF GoesOn

LEMMA SayTyped ==
  ASSUME Typed, Say
  PROVE  Typed'
  <1> DEFINE m == said + 1
             asks == IF Starts(project)
                       THEN LooksFirst(Receive(project, m), pending, read) ELSE {}
  <1>1. /\ said < MaxMessages /\ project.watched /\ said' = m
        /\ project' = Receive(project, m)
        /\ fate' = Becomes({m}, "Held")
        /\ pending' = Awaits(pending, asks)
        /\ Write(deferred, out, {Seen(m)} \union asks)
        /\ UNCHANGED <<turn, read, interrupted, sweep, put, stranded,
                       disk, container, announced, used>>
    BY DEF Say
  <1>2. m \in Message /\ m \in Nat
    BY <1>1, ForemanAssumption DEF Typed, Outer, Message
  <1>3. Sound(project')  BY <1>1, <1>2, ReceiveSound DEF Typed, Inner
  <1>4. asks \subseteq Effect  BY <1>1, <1>3, AsksTyped DEF Sound
  <1>5. {Seen(m)} \union asks \subseteq Effect  BY <1>2, <1>4, EffectTypes
  <1>6. Snaps(deferred)' /\ out' \subseteq Effect
    BY <1>1, <1>3, <1>5, WriteTyped DEF Typed, Inner
  <1>7. fate' \in [Message -> Fates] /\ pending' \in BOOLEAN
    BY <1>1, BecomesTyped DEF Typed, Inner, Fates, Awaits
  <1>. QED  BY <1>1, <1>2, <1>3, <1>6, <1>7 DEF Typed, Inner, Outer, sweep

LEMMA RoomTyped ==
  ASSUME Typed, RoomAnswered
  PROVE  Typed'
  <1>1. UNCHANGED <<turn, read, interrupted, sweep, history, world>>
    BY DEF RoomAnswered, RoomMade, RoomRefused
  <1>2. /\ out \ {MakeRoom} \subseteq Effect
        /\ Goes(project, pending, read) \subseteq Effect
    BY AsksTyped DEF Typed, Inner, Sound
  <1>3. CASE RoomMade /\ project.watched /\ project' = [project EXCEPT !.room = TRUE]
    <2>1. /\ Sound(project')  BY <1>3 DEF Typed, Inner, Sound, Project
    <2>2. Goes(project', pending, read) \subseteq Effect
      BY <2>1, AsksTyped DEF Sound
    <2>3. /\ pending' = Awaits(pending, Goes(project', pending, read))
          /\ Write(deferred, out \ {MakeRoom}, Goes(project', pending, read))
      BY <1>3 DEF RoomMade
    <2>4. Snaps(deferred)' /\ out' \subseteq Effect
      BY <1>2, <2>1, <2>2, <2>3, WriteTyped DEF Typed, Inner
    <2>. QED  BY <1>1, <2>1, <2>3, <2>4
              DEF Typed, Inner, Outer, sweep, history, world, Awaits
  <1>4. CASE /\ UNCHANGED <<project, pending>>
             /\ Release(deferred, out \ {MakeRoom}, {})
    BY <1>1, <1>2, <1>4 DEF Typed, Inner, Outer, sweep, history, world, Release
  <1>5. CASE RoomRefused
    BY <1>1, <1>2, <1>5
       DEF Typed, Inner, Outer, sweep, history, world, Release, RoomRefused, Roomless, Awaits
  <1>. QED  BY <1>3, <1>4, <1>5 DEF RoomAnswered, RoomMade

LEMMA AskedTyped ==
  ASSUME Typed, LookAnswered \/ ThreadAnswered
  PROVE  Typed'
  <1>1. ASSUME NEW m \in Message, ThreadRead(m)
        PROVE  Typed'
    <2>1. /\ read' = m /\ pending' = FALSE
          /\ Release(deferred, out \ {Read(m)}, IF pending THEN {Inspect} ELSE {})
          /\ UNCHANGED <<project, turn, interrupted, sweep, history, world>>
      BY <1>1 DEF ThreadRead
    <2>. QED  BY <2>1, EffectTypes DEF Typed, Inner, Outer, sweep, history, world, Release
  <1>2. ASSUME NEW present \in BOOLEAN, Inspected(present)
        PROVE  Typed'
    <2>1. /\ read' = NoMessage
          /\ Release(deferred, out \ {Inspect}, {})
          /\ UNCHANGED <<project, pending, sweep, history, world>>
      BY <1>2 DEF Inspected, ThreadTaken
    <2>2. turn' \in Turn /\ interrupted' \in BOOLEAN
      <3>1. project.mail # <<>> => Head(project.mail) \in Message
        BY DEF Typed, Inner, Sound, Project
      <3>. QED  BY <1>2, <3>1
                DEF Inspected, Typed, Inner, NoTurn, Turn, Commanding
    <2>. QED  BY <2>1, <2>2 DEF Typed, Inner, Outer, sweep, history, world, Release
  <1>. QED  BY <1>1, <1>2 DEF LookAnswered, ThreadAnswered

LEMMA TurnTyped ==
  ASSUME Typed, CommandAnswered \/ Agent \/ ProcessEnded
  PROVE  Typed'
  <1>1. ASSUME NEW ok \in BOOLEAN, NEW charged \in BOOLEAN,
               Looked(ok) \/ Built(ok) \/ Made(ok) \/ Up(ok, charged)
        PROVE  Typed'
    <2>1. \E failed \in BOOLEAN, stage \in {"Creating", "Building", "Starting", "Opening"} :
            GoesOn(failed, stage)
      BY <1>1 DEF Looked, Built, Made, Up
    <2>2. Inner'  BY <2>1, GoesOnTyped DEF Typed
    <2>3. Outer'  BY <1>1 DEF Typed, Outer, Looked, Built, Made, Up, world
    <2>. QED  BY <2>2, <2>3 DEF Typed
  <1>2. CASE AgentReady
    <2>1. turn' \in Turn  BY <1>2 DEF AgentReady, Typed, Inner, Turn, Speaking
    <2>2. put' \in [Message -> Nat]
      <3>1. put \in [Message -> Nat]  BY DEF Typed, Inner
      <3>2. put' = put \/ put' = [put EXCEPT ![turn.message] = @ + 1]
        BY <1>2 DEF AgentReady
      <3>3. CASE turn.message \in Message  BY <3>1, <3>2, <3>3
      <3>4. CASE turn.message \notin Message  BY <3>1, <3>2, <3>4
      <3>. QED  BY <3>3, <3>4
    <2>. QED  BY <1>2, <2>1, <2>2 DEF AgentReady, Typed, Inner, Outer, sweep, world
  <1>3. ASSUME NEW ok \in BOOLEAN, AgentAnswered(ok)
        PROVE  Typed'
    <2>1. turn' \in Turn  BY <1>3 DEF AgentAnswered, Typed, Inner, Turn
    <2>. QED  BY <1>3, <2>1 DEF AgentAnswered, Typed, Inner, Outer, sweep, history, world
  <1>4. CASE ProcessEnded
    <2>1. turn.answered \in BOOLEAN  BY DEF Typed, Inner, Turn
    <2>2. Inner'  BY <1>4, <2>1, EndedTyped DEF ProcessEnded, Typed
    <2>. QED  BY <1>4, <2>2 DEF ProcessEnded, Typed, Outer, world
  <1>. QED  BY <1>1, <1>2, <1>3, <1>4 DEF CommandAnswered, Agent

LEMMA RestTyped ==
  ASSUME Typed, HaltAnswered \/ Settle \/ ListAnswered \/ Forget \/ DiscardAnswered
  PROVE  Typed'
  <1>1. ASSUME NEW ok \in BOOLEAN, Halted(ok)
        PROVE  Typed'
    BY <1>1 DEF Halted, Refused, Typed, Inner, Outer, memory, history
  <1>2. CASE Settle
    BY <1>2 DEF Settle, Typed, Inner, Outer, memory, history, world
  <1>3. ASSUME NEW ok \in BOOLEAN, Named(ok)
        PROVE  Typed'
    BY <1>3 DEF Named, Refused, Typed, Inner, Outer, memory, history
  <1>4. CASE Labelled
    BY <1>4 DEF Labelled, Typed, Inner, Outer, memory, history, world
  <1>5. CASE Forget
    <2>1. Sound(project')  BY <1>5 DEF Forget, Sound, Project, Unwatched
    <2>2. Snaps(deferred)' /\ out' \subseteq Effect
      BY <1>5, <2>1, EffectTypes, WriteTyped DEF Forget, Typed, Inner
    <2>3. fate' \in [Message -> Fates]
      BY <1>5, BecomesTyped DEF Forget, Typed, Inner, Fates
    <2>. QED  BY <1>5, <2>1, <2>2, <2>3
              DEF Forget, Typed, Inner, Outer, memory, sweep, world
  <1>6. ASSUME NEW ok \in BOOLEAN, Discarded(ok)
        PROVE  Typed'
    BY <1>6 DEF Discarded, Refused, Typed, Inner, Outer, memory, sweep, history
  <1>. QED  BY <1>1, <1>2, <1>3, <1>4, <1>5, <1>6
            DEF HaltAnswered, ListAnswered, DiscardAnswered

LEMMA DiskTyped ==
  ASSUME Typed, WriteAnswered
  PROVE  Typed'
  <1>1. deferred # <<>>  BY DEF WriteAnswered, Landed, Unwritten
  <1>2. /\ Snaps(Tail(deferred)) /\ Sound(Head(deferred).snap)
        /\ Head(deferred).effects \subseteq Effect
    BY <1>1, TailSnaps DEF Typed, Inner
  <1>3. CASE Landed
    BY <1>2, <1>3 DEF Landed, Release, Typed, Inner, Outer, memory, sweep, history
  <1>4. CASE Unwritten
    <2> DEFINE gone == Head(deferred).effects
               q    == Tail(deferred)
    <2>1. /\ UNCHANGED <<turn, read, interrupted, sweep, fate, put,
                         disk, container, said, announced>>
          /\ used' = [used EXCEPT !.failures = @ + 1]
          /\ stranded' = (stranded \/ (gone \intersect (Reads \union {Inspect}) # {}
                                       /\ project.mail # <<>>))
          /\ \/ Roomless(q, out)
             \/ /\ pending' = (pending /\ gone \intersect Reads = {})
                /\ Release(q, out, {})
                /\ UNCHANGED project
      BY <1>4 DEF Unwritten
    <2>2. Goes(project, pending, read) \subseteq Effect
      BY AsksTyped DEF Typed, Inner, Sound
    <2>3. /\ UNCHANGED project /\ pending' \in BOOLEAN /\ deferred' = q
          /\ out' \subseteq Effect
      BY <2>1, <2>2 DEF Roomless, Release, Awaits, Typed, Inner
    <2>4. stranded' \in BOOLEAN /\ used' \in [refusals : Nat, failures : Nat, crashes : Nat]
      BY <2>1 DEF Typed, Inner, Outer
    <2>. QED  BY <1>2, <2>1, <2>3, <2>4 DEF Typed, Inner, Outer, sweep
  <1>. QED  BY <1>3, <1>4 DEF WriteAnswered

LEMMA RestartTyped ==
  ASSUME Typed, Restart
  PROVE  Typed'
  <1>1. Sound(disk')
    <2>1. \A i \in DOMAIN deferred : Sound(deferred[i].snap)
      BY DEF Typed, Inner, Snaps
    <2>. QED  BY <2>1 DEF Restart, Typed, Outer
  <1>2. Sound(project') /\ project' \in Project  BY <1>1 DEF Restart, Sound
  <1>3. PicksUp(project') \subseteq Effect
    BY <1>2, AsksTyped DEF PicksUp
  <1> DEFINE o == (out \intersect Facts) \union
                    (IF ~project'.watched /\ container' # "None" THEN {Discard} ELSE {})
  <1>4. o \subseteq Effect  BY EffectTypes DEF Typed, Inner
  <1>5. Snaps(<<>>)  BY DEF Snaps
  <1>6. Write(<<>>, o, PicksUp(project'))  BY DEF Restart
  <1> HIDE DEF o
  <1>7. Snaps(deferred)' /\ out' \subseteq Effect
    BY <1>2, <1>3, <1>4, <1>5, <1>6, WriteTyped
  <1>8. container' \in {"None", "Down", "Up"}
    BY DEF Restart, Left, Typed, Outer
  <1>9. /\ turn' \in Turn /\ read' = NoMessage /\ interrupted' \in BOOLEAN
        /\ listing' = "None" /\ halts' \in Nat /\ pending' \in BOOLEAN
        /\ stranded' \in BOOLEAN /\ announced' \in BOOLEAN
        /\ UNCHANGED <<said, put>>
    BY NoTurnTyped DEF Restart, Interrupted, Awaits
  <1>10. used' \in [refusals : Nat, failures : Nat, crashes : Nat]
    BY DEF Restart, Typed, Outer
  <1>11. fate' \in [Message -> Fates]
    BY DEF Restart, Typed, Inner, Fates
  <1>. QED  BY <1>1, <1>2, <1>7, <1>8, <1>9, <1>10, <1>11 DEF Typed, Inner, Outer

LEMMA InitTyped ==
  ASSUME Init
  PROVE  Typed
  <1>1. Sound(project)
    BY ForemanAssumption DEF Init, Sound, Project
  <1>2. Snaps(deferred)  BY DEF Init, Snaps
  <1>. QED  BY <1>1, <1>2, NoTurnTyped DEF Init, Typed, Inner, Outer, Fates

LEMMA NextTyped ==
  ASSUME Typed, [Next]_vars
  PROVE  Typed'
  <1>1. CASE UNCHANGED vars
    BY <1>1 DEF vars, memory, sweep, history, world, Typed, Inner, Outer
  <1>. QED  BY <1>1, SayTyped, RoomTyped, AskedTyped, TurnTyped, RestTyped, DiskTyped,
               RestartTyped DEF Next, Person

\* Every variable of a foreman keeps its type, and every record of a project
\* that is not watched holds no message (Project in core/src/lib.rs).
THEOREM TypeCorrect == Spec => []TypeOK
  <1>1. Typed => TypeOK
    BY DEF Typed, Inner, Outer, TypeOK, Sound, Snaps, Deferred
  <1>. QED  BY <1>1, InitTyped, NextTyped, PTL DEF Spec

----------------------------------------------------------------------------
(* The loop. *)

LEMMA NoAskStands ==
  ASSUME NEW p, NEW t, t.stage = "None", NEW lost, p.mail = <<>>
  PROVE  Stands(p, t, FALSE, NoMessage, lost, {})
  BY EffectTypes DEF Stands, MakeRoom, Inspect

\* A turn is the whole of the loop while it lasts.
LEMMA TurnAlone ==
  ASSUME Typed, Looping, turn.stage # "None"
  PROVE  /\ Carries(deferred, out, {})
         /\ pending = FALSE /\ read = NoMessage
         /\ turn.shown = Shown(turn.message)
  BY DEF Looping, Stands, Typed, Inner

LEMMA EndedLoops ==
  ASSUME Typed, Looping, turn.stage # "None", NEW a \in BOOLEAN, Ended(a)
  PROVE  Looping'
  <1>1. Carries(deferred, out, {}) /\ pending = FALSE /\ read = NoMessage
    BY TurnAlone
  <1>2. /\ turn' = NoTurn /\ NoTurn.stage = "None"
        /\ UNCHANGED <<read, stranded>>
    BY NoTurnTyped DEF Ended
  <1>3. deferred \in Seq(Deferred)  BY DEF Typed, Inner, Snaps
  <1>4. Inner'  BY EndedTyped DEF Typed
  <1>5. Sound(project') /\ project' \in Project  BY <1>4 DEF Inner, Sound
  <1>6. CASE project.mail # <<>>
    <2> DEFINE m == Head(project.mail)
               F == {IF a THEN Done(m) ELSE Stuck(m)}
               asks == IF project'.mail # <<>>
                         THEN LooksFirst(project', pending, read) ELSE {}
    <2>1. /\ pending' = Awaits(pending, asks)
          /\ Write(deferred, out, F \union asks)
      BY <1>6 DEF Ended
    <2>2. m \in Message  BY <1>6, TailSound DEF Typed, Inner
    <2>3. F \in SUBSET Effect /\ F \intersect Driving = {}  BY <2>2, EffectTypes
    <2> HIDE DEF F
    <2>4. CASE project'.mail # <<>>
      <3>1. asks = LooksFirst(project', FALSE, NoMessage)  BY <1>1, <2>4
      <3> HIDE DEF asks
      <3>2. \E S \in SUBSET Driving :
              /\ Carries(Append(deferred, [snap |-> project', effects |-> F \union asks]), out, S)
              /\ Stands(project', turn', Awaits(FALSE, asks), NoMessage, stranded, S)
        BY <1>1, <1>2, <1>3, <1>5, <2>3, <2>4, <3>1, GoesOnWritten
      <3>. QED  BY <1>1, <1>2, <2>1, <3>2 DEF Looping, Write
    <2>5. CASE project'.mail = <<>>
      <3>1. asks = {} /\ Awaits(pending, asks) = FALSE  BY <1>1, <2>5 DEF Awaits
      <3> HIDE DEF asks
      <3>2. F \union asks = F  BY <3>1
      <3>3. Carries(Append(deferred, [snap |-> project', effects |-> F]), out,
                    {} \union (F \intersect Driving))
        BY <1>1, <1>3, <1>5, <2>3, WriteCarries
      <3>4. Carries(deferred', out', {})  BY <2>1, <2>3, <3>2, <3>3 DEF Write
      <3>5. Stands(project', turn', pending', read', stranded', {})
        BY <1>1, <1>2, <2>1, <2>5, <3>1, NoAskStands
      <3>. QED  BY <3>4, <3>5 DEF Looping
    <2>. QED  BY <2>4, <2>5
  <1>7. CASE project.mail = <<>>
    <2>1. UNCHANGED <<project, pending>> /\ Write(deferred, out, {})
      BY <1>7 DEF Ended
    <2>2. Carries(Append(deferred, [snap |-> project', effects |-> {}]), out,
                  {} \union ({} \intersect Driving))
      BY <1>1, <1>3, <1>5, WriteCarries
    <2>3. Carries(deferred', out', {})  BY <2>1, <2>2 DEF Write
    <2>4. Stands(project', turn', pending', read', stranded', {})
      BY <1>1, <1>2, <1>7, <2>1, NoAskStands
    <2>. QED  BY <2>3, <2>4 DEF Looping
  <1>. QED  BY <1>6, <1>7

LEMMA TurnLoops ==
  ASSUME Typed, Looping, CommandAnswered \/ Agent \/ ProcessEnded
  PROVE  Looping'
  <1>1. ASSUME turn.stage # "None", turn'.stage # "None",
               turn'.message = turn.message, turn'.shown = turn.shown,
               UNCHANGED <<project, pending, read, deferred, out, stranded>>
        PROVE  Looping'
    BY <1>1 DEF Looping, Stands
  <1>2. turn.stage # "None"
    BY DEF CommandAnswered, Looked, Built, Made, Up, Agent, AgentReady, AgentAnswered,
           ProcessEnded, Speaking
  <1>3. ASSUME NEW failed \in BOOLEAN,
               NEW stage \in {"Creating", "Building", "Starting", "Opening"},
               GoesOn(failed, stage)
        PROVE  Looping'
    <2>1. CASE Ended(FALSE)  BY <1>2, <2>1, EndedLoops
    <2>2. CASE /\ turn' = [turn EXCEPT !.stage = stage]
               /\ UNCHANGED <<project, pending, read, interrupted, sweep, deferred, out, history>>
      BY <1>1, <1>2, <2>2 DEF history, Typed, Inner, Turn
    <2>. QED  BY <1>3, <2>1, <2>2 DEF GoesOn
  <1>4. CASE CommandAnswered
    <2>1. \E failed \in BOOLEAN, stage \in {"Creating", "Building", "Starting", "Opening"} :
            GoesOn(failed, stage)
      BY <1>4 DEF CommandAnswered, Looked, Built, Made, Up
    <2>. QED  BY <1>3, <2>1
  <1>5. CASE AgentReady
    BY <1>1, <1>2, <1>5 DEF AgentReady, Typed, Inner, Turn
  <1>6. ASSUME NEW ok \in BOOLEAN, AgentAnswered(ok)
        PROVE  Looping'
    BY <1>1, <1>2, <1>6 DEF AgentAnswered, history, Typed, Inner, Turn
  <1>7. CASE ProcessEnded
    <2>1. turn.answered \in BOOLEAN  BY DEF Typed, Inner, Turn
    <2>. QED  BY <1>2, <1>7, <2>1, EndedLoops DEF ProcessEnded
  <1>. QED  BY <1>4, <1>5, <1>6, <1>7 DEF Agent

LEMMA SayLoops ==
  ASSUME Typed, Looping, Say
  PROVE  Looping'
  <1> DEFINE m == said + 1
             asks == IF Starts(project)
                       THEN LooksFirst(Receive(project, m), pending, read) ELSE {}
             F == {Seen(m)}
  <1>1. /\ said < MaxMessages /\ project.watched
        /\ project' = Receive(project, m)
        /\ pending' = Awaits(pending, asks)
        /\ Write(deferred, out, F \union asks)
        /\ UNCHANGED <<turn, read, stranded>>
    BY DEF Say
  <1>2. m \in Message  BY <1>1, ForemanAssumption DEF Typed, Outer, Message
  <1>3. F \in SUBSET Effect /\ F \intersect Driving = {}  BY <1>2, EffectTypes
  <1>4. /\ Sound(project') /\ project' \in Project
        /\ project'.watched = project.watched /\ project'.mail # <<>>
        /\ project.mail # <<>> => Head(project'.mail) = Head(project.mail)
    BY <1>1, <1>2, ReceiveSound DEF Typed, Inner, Sound
  <1>5. deferred \in Seq(Deferred)  BY DEF Typed, Inner, Snaps
  <1>6. PICK S \in SUBSET Driving :
          Carries(deferred, out, S) /\ Stands(project, turn, pending, read, stranded, S)
    BY DEF Looping
  <1> HIDE DEF F
  <1>7. CASE project.mail = <<>>
    <2>1. S = {} /\ turn.stage = "None" /\ read = NoMessage /\ pending = FALSE
      BY <1>1, <1>6, <1>7 DEF Stands, Typed, Inner
    <2>2. asks = LooksFirst(project', FALSE, NoMessage)
      BY <1>1, <1>7, <2>1 DEF Starts
    <2> HIDE DEF asks, m
    <2>3. \E T \in SUBSET Driving :
            /\ Carries(Append(deferred, [snap |-> project', effects |-> F \union asks]), out, T)
            /\ Stands(project', turn, Awaits(FALSE, asks), NoMessage, stranded, T)
      BY <1>3, <1>4, <1>5, <1>6, <2>1, <2>2, GoesOnWritten
    <2>. QED  BY <1>1, <2>1, <2>3 DEF Looping, Write
  <1>8. CASE project.mail # <<>>
    <2>1. asks = {}  BY <1>8 DEF Starts
    <2> HIDE DEF asks, m
    <2>2. pending' = pending /\ F \union asks = F
      BY <1>1, <2>1 DEF Awaits, Typed, Inner
    <2>3. Carries(Append(deferred, [snap |-> project', effects |-> F]), out,
                  S \union (F \intersect Driving))
      BY <1>3, <1>4, <1>5, <1>6, WriteCarries
    <2>4. Carries(deferred', out', S)  BY <1>1, <1>3, <2>2, <2>3 DEF Write
    <2>5. Stands(project', turn', pending', read', stranded', S)
      BY <1>1, <1>4, <1>6, <1>8, <2>2 DEF Stands
    <2>. QED  BY <2>4, <2>5 DEF Looping
  <1>. QED  BY <1>7, <1>8

\* A room that was not made leaves the turn to go on without it.
LEMMA RoomlessLoops ==
  ASSUME Typed, NEW q \in Seq(Deferred), NEW o, Carries(q, o, {}),
         project.watched => project.mail # <<>>,
         turn.stage = "None", read = NoMessage, pending = FALSE,
         Roomless(q, o), UNCHANGED <<turn, read>>
  PROVE  Looping'
  <1> DEFINE asks == Goes(project, pending, read)
  <1>1. asks = Goes(project, FALSE, NoMessage)  OBVIOUS
  <1>2. /\ pending' = Awaits(FALSE, asks) /\ deferred' = q /\ out' = o \union asks
        /\ UNCHANGED project
    BY DEF Roomless, Release
  <1> HIDE DEF asks
  <1>3. \E S \in SUBSET Driving :
          /\ Carries(q, o \union asks, S)
          /\ Stands(project, turn, Awaits(FALSE, asks), NoMessage, stranded', S)
    BY <1>1, GoesOnReleased DEF Typed, Inner
  <1>. QED  BY <1>2, <1>3 DEF Looping

\* Where the room is being made, nothing else is asked for.
LEMMA RoomAlone ==
  ASSUME Typed, NEW S, Stands(project, turn, pending, read, stranded, S), S = {MakeRoom}
  PROVE  /\ project.watched => project.mail # <<>>
         /\ turn.stage = "None" /\ read = NoMessage /\ pending = FALSE
  <1>1. \A m \in Message : MakeRoom # Read(m)  BY DEF MakeRoom, Read
  <1>. QED  BY <1>1 DEF Stands, Typed, Inner

LEMMA RoomLoops ==
  ASSUME Typed, Looping, RoomAnswered
  PROVE  Looping'
  <1>1. MakeRoom \in out /\ MakeRoom \in Driving /\ deferred \in Seq(Deferred)
    BY DEF RoomAnswered, RoomMade, RoomRefused, Driving, Typed, Inner, Snaps
  <1>2. PICK S \in SUBSET Driving :
          Carries(deferred, out, S) /\ Stands(project, turn, pending, read, stranded, S)
    BY DEF Looping
  <1>3. S = {MakeRoom} /\ Carries(deferred, out \ {MakeRoom}, {})
    BY <1>1, <1>2, TakenCarries
  <1>4. /\ project.watched => project.mail # <<>>
        /\ turn.stage = "None" /\ read = NoMessage /\ pending = FALSE
    BY <1>2, <1>3, RoomAlone
  <1>5. UNCHANGED <<turn, read, stranded>>
    BY DEF RoomAnswered, RoomMade, RoomRefused, history
  <1>6. CASE RoomMade /\ project.watched /\ project' = [project EXCEPT !.room = TRUE]
    <2>1. /\ Sound(project') /\ project' \in Project /\ project'.mail # <<>>
      BY <1>4, <1>6 DEF Typed, Inner, Sound, Project
    <2> DEFINE asks == Goes(project', pending, read)
    <2>2. /\ pending' = Awaits(FALSE, asks) /\ Write(deferred, out \ {MakeRoom}, asks)
          /\ asks = Goes(project', FALSE, NoMessage)
      BY <1>4, <1>6 DEF RoomMade
    <2> HIDE DEF asks
    <2>3. \E T \in SUBSET Driving :
            /\ Carries(Append(deferred, [snap |-> project', effects |-> {} \union asks]),
                       out \ {MakeRoom}, T)
            /\ Stands(project', turn, Awaits(FALSE, asks), NoMessage, stranded, T)
      BY <1>1, <1>3, <1>4, <2>1, <2>2, GoesOnWritten
    <2>4. {} \union asks = asks  OBVIOUS
    <2>. QED  BY <1>4, <1>5, <2>2, <2>3, <2>4 DEF Looping, Write
  <1>7. CASE /\ RoomMade /\ ~project.watched /\ UNCHANGED <<project, pending>>
             /\ Release(deferred, out \ {MakeRoom}, {})
    <2>1. project.mail = <<>>  BY <1>7 DEF Typed, Inner, Sound
    <2>2. Stands(project', turn', pending', read', stranded', {})
      BY <1>4, <1>5, <1>7, <2>1, NoAskStands
    <2>3. deferred' = deferred /\ out' = out \ {MakeRoom}  BY <1>7 DEF Release
    <2>. QED  BY <1>3, <2>2, <2>3 DEF Looping
  <1>8. CASE RoomRefused
    BY <1>1, <1>3, <1>4, <1>5, <1>8, RoomlessLoops DEF RoomRefused
  <1>. QED  BY <1>6, <1>7, <1>8 DEF RoomAnswered, RoomMade

LEMMA AskedLoops ==
  ASSUME Typed, Looping, LookAnswered \/ ThreadAnswered
  PROVE  Looping'
  <1>1. deferred \in Seq(Deferred)  BY DEF Typed, Inner, Snaps
  <1>2. PICK S \in SUBSET Driving :
          Carries(deferred, out, S) /\ Stands(project, turn, pending, read, stranded, S)
    BY DEF Looping
  <1>3. ASSUME NEW m \in Message, ThreadRead(m)
        PROVE  Looping'
    <2>1. Read(m) \in Driving /\ Read(m) \in out
      BY <1>3, EffectTypes DEF ThreadRead
    <2>2. S = {Read(m)} /\ Carries(deferred, out \ {Read(m)}, {})
      BY <1>1, <1>2, <2>1, TakenCarries
    <2>3. pending = TRUE  BY <1>2, <2>2 DEF Stands, Typed, Inner
    <2>4. /\ read' = m /\ pending' = FALSE /\ deferred' = deferred
          /\ out' = (out \ {Read(m)}) \union {Inspect}
          /\ UNCHANGED <<project, turn, stranded>>
      BY <1>3, <2>3 DEF ThreadRead, Release, history
    <2>5. Inspect \in Driving /\ {Inspect} \intersect Driving = {Inspect}
      BY DEF Driving
    <2>6. Carries(deferred, (out \ {Read(m)}) \union {Inspect},
                  {} \union ({Inspect} \intersect Driving))
      BY <1>1, <2>2, <2>5, ReleaseCarries
    <2>7. /\ \A n \in Message : Inspect # Read(n)
          /\ Inspect # MakeRoom
      BY DEF Inspect, Read, MakeRoom
    <2>8. /\ m \in Threaded /\ turn.stage = "None"
          /\ project.mail # <<>> => m = Head(project.mail)
          /\ project.watched => project.mail # <<>>
      BY <1>2, <2>2 DEF Stands
    <2>9. Stands(project', turn', pending', read', stranded', {Inspect})
      BY <2>4, <2>7, <2>8 DEF Stands, Shown
    <2>. QED  BY <2>4, <2>5, <2>6, <2>9 DEF Looping
  <1>4. ASSUME NEW present \in BOOLEAN, Inspected(present)
        PROVE  Looping'
    <2>1. Inspect \in Driving /\ Inspect \in out
      BY <1>4 DEF Inspected, Driving
    <2>2. S = {Inspect} /\ Carries(deferred, out \ {Inspect}, {})
      BY <1>1, <1>2, <2>1, TakenCarries
    <2>3. \A n \in Message : Inspect # Read(n)
      BY DEF Inspect, Read
    <2>4. /\ turn.stage = "None" /\ pending = FALSE
          /\ project.mail # <<>> => read = Shown(Head(project.mail))
          /\ project.watched => project.mail # <<>>
      BY <1>2, <2>2, <2>3 DEF Stands, Typed, Inner
    <2>5. /\ read' = NoMessage /\ deferred' = deferred
          /\ out' = out \ {Inspect}
          /\ UNCHANGED <<project, pending, stranded>>
      BY <1>4 DEF Inspected, ThreadTaken, Release, history
    <2>6. CASE project.mail = <<>>
      <3>1. turn' = turn  BY <1>4, <2>6 DEF Inspected
      <3>2. Stands(project', turn', pending', read', stranded', {})
        BY <2>4, <2>5, <2>6, <3>1, NoAskStands
      <3>. QED  BY <2>2, <2>5, <3>2 DEF Looping
    <2>7. CASE project.mail # <<>>
      <3>1. turn' = [NoTurn EXCEPT !.stage = IF present THEN "Starting" ELSE "Looking",
                                   !.message = Head(project.mail), !.shown = read,
                                   !.again = interrupted]
        BY <1>4, <2>4, <2>7 DEF Inspected
      <3>2. /\ turn'.stage # "None" /\ turn'.shown = Shown(turn'.message)
        BY <2>4, <2>7, <3>1 DEF NoTurn
      <3>3. Stands(project', turn', pending', read', stranded', {})
        BY <2>4, <2>5, <2>7, <3>2 DEF Stands
      <3>. QED  BY <2>2, <2>5, <3>3 DEF Looping
    <2>. QED  BY <2>6, <2>7
  <1>. QED  BY <1>3, <1>4 DEF LookAnswered, ThreadAnswered

LEMMA RestLoops ==
  ASSUME Typed, Looping, HaltAnswered \/ Settle \/ ListAnswered \/ Forget \/ DiscardAnswered
  PROVE  Looping'
  <1>1. deferred \in Seq(Deferred)  BY DEF Typed, Inner, Snaps
  <1>2. PICK S \in SUBSET Driving :
          Carries(deferred, out, S) /\ Stands(project, turn, pending, read, stranded, S)
    BY DEF Looping
  <1>3. CASE HaltAnswered \/ Settle \/ ListAnswered
    <2>1. UNCHANGED <<project, turn, pending, read, deferred, out, stranded>>
      BY <1>3 DEF HaltAnswered, Halted, Settle, ListAnswered, Named, Labelled, memory, history
    <2>. QED  BY <1>2, <2>1 DEF Looping
  <1>4. CASE Forget
    <2>1. /\ project' = Unwatched /\ Write(deferred, out, {Discard})
          /\ UNCHANGED <<turn, pending, read, stranded>>
      BY <1>4 DEF Forget, memory
    <2>2. project' \in Project /\ ~project'.watched /\ project'.mail = <<>>
      BY <2>1 DEF Unwatched, Project
    <2>3. Carries(Append(deferred, [snap |-> project', effects |-> {Discard}]), out,
                  S \union ({Discard} \intersect Driving))
      BY <1>1, <1>2, <2>2, EffectTypes, WriteCarries
    <2>4. Carries(deferred', out', S)  BY <2>1, <2>3, EffectTypes DEF Write
    <2>5. Stands(project', turn', pending', read', stranded', S)
      BY <1>2, <2>1, <2>2 DEF Stands
    <2>. QED  BY <2>4, <2>5 DEF Looping
  <1>5. CASE DiscardAnswered
    <2>1. /\ out' = out \ {Discard}
          /\ UNCHANGED <<project, turn, pending, read, deferred, stranded>>
      BY <1>5 DEF DiscardAnswered, Discarded, memory, history
    <2>2. Carries(deferred, out \ {Discard}, S)
      BY <1>1, <1>2, EffectTypes, OtherCarries
    <2>. QED  BY <1>2, <2>1, <2>2 DEF Looping
  <1>. QED  BY <1>3, <1>4, <1>5

LEMMA DiskLoops ==
  ASSUME Typed, Looping, WriteAnswered
  PROVE  Looping'
  <1> DEFINE gone == Head(deferred).effects
             q    == Tail(deferred)
  <1>1. deferred \in Seq(Deferred) /\ deferred # <<>> /\ q \in Seq(Deferred)
        /\ gone \subseteq Effect
    BY TailSnaps DEF WriteAnswered, Landed, Unwritten, Typed, Inner, Snaps
  <1>2. PICK S \in SUBSET Driving :
          Carries(deferred, out, S) /\ Stands(project, turn, pending, read, stranded, S)
    BY DEF Looping
  <1>3. CASE Landed
    <2>1. Carries(q, out \union gone, S)  BY <1>1, <1>2, LandedCarries
    <2>2. /\ deferred' = q /\ out' = out \union gone
          /\ UNCHANGED <<project, turn, pending, read, stranded>>
      BY <1>3 DEF Landed, Release, memory, history
    <2>. QED  BY <1>2, <2>1, <2>2 DEF Looping
  <1>4. CASE Unwritten
    <2>1. /\ UNCHANGED <<turn, read>>
          /\ stranded' = (stranded \/ (gone \intersect (Reads \union {Inspect}) # {}
                                       /\ project.mail # <<>>))
          /\ \/ MakeRoom \in gone /\ Roomless(q, out)
             \/ /\ MakeRoom \notin gone
                /\ pending' = (pending /\ gone \intersect Reads = {})
                /\ deferred' = q /\ out' = out
                /\ UNCHANGED project
      BY <1>4 DEF Unwritten, Release
    <2>2. /\ gone \intersect Driving = {} => Carries(q, out, S)
          /\ \A e \in Driving : e \in gone => S = {e} /\ Carries(q, out, {})
      BY <1>1, <1>2, DroppedCarries
    <2> HIDE DEF gone, q
    <2>3. CASE MakeRoom \in gone
      <3>1. S = {MakeRoom} /\ Carries(q, out, {})  BY <2>2, <2>3 DEF Driving
      <3>2. /\ project.watched => project.mail # <<>>
            /\ turn.stage = "None" /\ read = NoMessage /\ pending = FALSE
        BY <1>2, <3>1, RoomAlone
      <3>. QED  BY <1>1, <2>1, <2>3, <3>1, <3>2, RoomlessLoops
    <2>4. CASE gone \intersect Driving = {}
      <3>1. gone \intersect Reads = {} /\ gone \intersect (Reads \union {Inspect}) = {}
            /\ MakeRoom \notin gone
        BY <2>4 DEF Driving
      <3>2. UNCHANGED <<project, turn, pending, read, stranded>>
        BY <2>1, <3>1 DEF Typed, Inner
      <3>. QED  BY <1>2, <2>1, <2>2, <2>4, <3>1, <3>2 DEF Looping
    <2>5. ASSUME NEW e \in Driving, e \in gone, e # MakeRoom
          PROVE  Looping'
      <3>1. S = {e} /\ Carries(q, out, {})  BY <2>2, <2>5
      <3>2. MakeRoom \notin gone  BY <2>2, <2>5, <3>1 DEF Driving
      <3>3. e \in Reads \/ e = Inspect  BY <2>5 DEF Driving
      <3>4. stranded' = (stranded \/ project.mail # <<>>)  BY <2>1, <2>5, <3>3
      <3>5. pending' = FALSE
        <4>1. CASE e \in Reads  BY <2>1, <2>5, <3>2, <4>1
        <4>2. CASE e = Inspect
          <5>1. \A m \in Message : Inspect # Read(m)  BY DEF Inspect, Read
          <5>2. pending = FALSE  BY <1>2, <3>1, <4>2, <5>1 DEF Stands, Typed, Inner
          <5>. QED  BY <2>1, <3>2, <5>2
        <4>. QED  BY <3>3, <4>1, <4>2
      <3>6. turn.stage = "None" /\ (project.watched => project.mail # <<>>)
        BY <1>2, <3>1 DEF Stands
      <3>7. UNCHANGED <<project, turn, read>> /\ deferred' = q /\ out' = out
        BY <2>1, <3>2
      <3>8. \A x : {} # {x}  OBVIOUS
      <3>9. Stands(project', turn', pending', read', stranded', {})
        BY <3>4, <3>5, <3>6, <3>7, <3>8 DEF Stands
      <3>. QED  BY <3>1, <3>7, <3>9 DEF Looping
    <2>. QED  BY <2>3, <2>4, <2>5
  <1>. QED  BY <1>3, <1>4 DEF WriteAnswered

LEMMA RestartLoops ==
  ASSUME Typed, Restart
  PROVE  Looping'
  <1>1. Sound(project') /\ project' \in Project
    BY RestartTyped DEF Typed, Inner, Sound
  <1> DEFINE o == (out \intersect Facts) \union
                    (IF ~project'.watched /\ container' # "None" THEN {Discard} ELSE {})
             picks == PicksUp(project')
  <1>2. /\ turn' = NoTurn /\ read' = NoMessage /\ pending' = Awaits(FALSE, picks)
        /\ Write(<<>>, o, picks)
    BY DEF Restart
  <1>3. o \intersect Driving = {}
    <2>1. Facts \intersect Driving = {}
      BY DEF Facts, Driving, Reads, MakeRoom, Inspect
    <2>. QED  BY <2>1, EffectTypes
  <1> HIDE DEF o
  <1>4. <<>> \in Seq(Deferred) /\ Len(<<>>) = 0  BY EmptySeq
  <1>5. Carries(<<>>, o, {})
    <2>1. 0..Len(<<>>) = {0} /\ At(<<>>, o, 0) = o  BY <1>4 DEF At
    <2>. QED  BY <1>3, <2>1 DEF Carries
  <1>6. CASE project'.mail = <<>>
    <2>1. picks = {} /\ Awaits(FALSE, picks) = FALSE  BY <1>6 DEF PicksUp, Awaits
    <2> HIDE DEF picks
    <2>2. Carries(Append(<<>>, [snap |-> project', effects |-> {}]), o,
                  {} \union ({} \intersect Driving))
      BY <1>1, <1>4, <1>5, WriteCarries
    <2>3. Carries(deferred', out', {})  BY <1>2, <2>1, <2>2 DEF Write
    <2>4. Stands(project', turn', pending', read', stranded', {})
      BY <1>2, <1>6, <2>1, NoTurnTyped, NoAskStands
    <2>. QED  BY <2>3, <2>4 DEF Looping
  <1>7. CASE project'.mail # <<>>
    <2>1. picks = LooksFirst(project', FALSE, NoMessage)  BY <1>7 DEF PicksUp
    <2> HIDE DEF picks
    <2>2. \E S \in SUBSET Driving :
            /\ Carries(Append(<<>>, [snap |-> project', effects |-> {} \union picks]), o, S)
            /\ Stands(project', turn', Awaits(FALSE, picks), NoMessage, stranded', S)
      BY <1>1, <1>2, <1>4, <1>5, <1>7, <2>1, NoTurnTyped, GoesOnWritten
    <2>3. {} \union picks = picks  OBVIOUS
    <2>. QED  BY <1>2, <2>2, <2>3 DEF Looping, Write
  <1>. QED  BY <1>6, <1>7

LEMMA InitLoops ==
  ASSUME Init
  PROVE  Looping
  <1>1. /\ deferred = <<>> /\ out = {} /\ turn = NoTurn /\ pending = FALSE
        /\ read = NoMessage /\ project.mail = <<>>
    BY DEF Init
  <1>2. 0..Len(<<>>) = {0} /\ At(<<>>, {}, 0) = {}
    BY EmptySeq DEF At
  <1>3. Carries(deferred, out, {})  BY <1>1, <1>2 DEF Carries
  <1>4. Stands(project, turn, pending, read, stranded, {})
    BY <1>1, NoTurnTyped, NoAskStands
  <1>. QED  BY <1>3, <1>4 DEF Looping

LEMMA NextLoops ==
  ASSUME Typed, Looping, [Next]_vars
  PROVE  Looping'
  <1>1. CASE UNCHANGED vars
    BY <1>1 DEF vars, memory, history, Looping
  <1>. QED  BY <1>1, SayLoops, RoomLoops, AskedLoops, TurnLoops, RestLoops, DiskLoops,
               RestartLoops DEF Next, Person

\* The invariant of the loop: what is asked for is one thing in one place, and
\* stands to the message in hand as look_before_turning and what follows it in
\* instance/src/foreman.rs mean it to.
THEOREM Invariance == Spec => [](Typed /\ Looping)
  BY InitTyped, NextTyped, InitLoops, NextLoops, PTL DEF Spec

\* Draining a foreman's inbox is one loop however many messages arrive while it
\* runs, and it goes on while there is a message (for_foreman, move_on).
THEOREM OneLoopAlways == Spec => []OneLoop
  <1>1. Typed /\ Looping => OneLoop
    <2> SUFFICES ASSUME Typed, Looping PROVE OneLoop  OBVIOUS
    <2>1. PICK S \in SUBSET Driving :
            Carries(deferred, out, S) /\ Stands(project, turn, pending, read, stranded, S)
      BY DEF Looping
    <2>2. \A d \in Asked : /\ d[1] \in 0..Len(deferred) /\ d[2] \in Driving
                           /\ d[2] \in At(deferred, out, d[1]) /\ d = <<d[1], d[2]>>
      BY DEF Asked, AskedIn, Driving
    <2>3. \A d, e \in Asked : d = e  BY <2>1, <2>2 DEF Carries
    <2>4. S = {} => Asked = {}  BY <2>1, <2>2 DEF Carries
    <2>5. S # {} => Asked # {}
      <3> SUFFICES ASSUME NEW e \in S PROVE Asked # {}  OBVIOUS
      <3>1. PICK i \in 0..Len(deferred) : e \in At(deferred, out, i)
        BY <2>1 DEF Carries
      <3>2. <<i, e>> \in Asked  BY <3>1 DEF Asked, AskedIn, Driving
      <3>. QED  BY <3>2
    <2>. QED  BY <2>1, <2>3, <2>4, <2>5 DEF Stands, OneLoop
  <1>. QED  BY <1>1, Invariance, PTL

\* What is read of a thread for one message is never shown with another, though
\* it is kept per foreman and not per message (threads_read).
THEOREM ThreadsStayApart == Spec => []ShownItsOwnThread
  <1>1. Typed /\ Looping => ShownItsOwnThread
    BY DEF Looping, Stands, ShownItsOwnThread, Shown
  <1>. QED  BY <1>1, Invariance, PTL

----------------------------------------------------------------------------
(* The container under a turn. *)

LEMMA WriteSpares ==
  ASSUME Typed, Unharmed, project' \in Project, project'.watched => project.watched,
         NEW o \in SUBSET out, NEW E \in SUBSET Effect, Discard \notin E,
         Write(deferred, o, E)
  PROVE  Unharmed'
  <1>1. deferred \in Seq(Deferred)  BY DEF Typed, Inner, Snaps
  <1>2. /\ Len(deferred') = Len(deferred) + 1 /\ Len(deferred) \in Nat
        /\ \A i \in 1..Len(deferred) : deferred'[i] = deferred[i]
        /\ deferred'[Len(deferred) + 1].effects = E
    BY <1>1 DEF Write, Deferred
  <1>. QED  BY <1>2 DEF Unharmed, Write

LEMMA ReleaseSpares ==
  ASSUME Unharmed, UNCHANGED project, NEW o \in SUBSET out, NEW E, Discard \notin E,
         Release(deferred, o, E)
  PROVE  Unharmed'
  BY DEF Unharmed, Release

LEMMA AsksSpare ==
  ASSUME NEW p, NEW w, NEW h
  PROVE  Discard \notin Goes(p, w, h) /\ Discard \notin LooksFirst(p, w, h)
  BY DEF LooksFirst, Goes, Discard, MakeRoom, Inspect, Read

LEMMA EndedSpares ==
  ASSUME Typed, Unharmed, NEW a \in BOOLEAN, Ended(a)
  PROVE  Unharmed'
  <1>1. project' \in Project  BY EndedTyped DEF Typed, Inner, Sound
  <1>2. project'.watched = project.watched
    BY DEF Ended, Typed, Inner, Sound, Project
  <1>3. CASE project.mail # <<>>
    <2> DEFINE m == Head(project.mail)
               F == {IF a THEN Done(m) ELSE Stuck(m)}
               asks == IF project'.mail # <<>>
                         THEN LooksFirst(project', pending, read) ELSE {}
    <2>1. Write(deferred, out, F \union asks)  BY <1>3 DEF Ended
    <2>2. m \in Message  BY <1>3, TailSound DEF Typed, Inner
    <2>3. F \in SUBSET Effect /\ Discard \notin F
      BY <2>2, EffectTypes DEF Discard, Done, Stuck
    <2>4. asks \in SUBSET Effect /\ Discard \notin asks
      BY <1>1, AsksTyped, AsksSpare
    <2> HIDE DEF F, asks
    <2>5. F \union asks \in SUBSET Effect /\ Discard \notin F \union asks
      BY <2>3, <2>4
    <2>. QED  BY <1>1, <1>2, <2>1, <2>5, WriteSpares
  <1>4. CASE project.mail = <<>>
    <2>1. Write(deferred, out, {})  BY <1>4 DEF Ended
    <2>2. {} \in SUBSET Effect /\ Discard \notin {}  OBVIOUS
    <2>. QED  BY <1>1, <1>2, <2>1, <2>2, WriteSpares
  <1>. QED  BY <1>3, <1>4

\* Nothing removes the container of a project that is watched.
LEMMA NextUnharmed ==
  ASSUME Typed, Unharmed, Next
  PROVE  Unharmed'
  <1>0. Typed'  BY NextTyped
  <1>1. project \in Project /\ project' \in Project
    BY <1>0 DEF Typed, Inner, Sound
  <1>2. CASE Say
    <2> DEFINE m == said + 1
               asks == IF Starts(project)
                         THEN LooksFirst(Receive(project, m), pending, read) ELSE {}
    <2>1. /\ project.watched /\ said < MaxMessages
          /\ project' = Receive(project, m)
          /\ Write(deferred, out, {Seen(m)} \union asks)
      BY <1>2 DEF Say
    <2>2. m \in Message
      BY <2>1, ForemanAssumption DEF Typed, Outer, Message
    <2>3. asks \in SUBSET Effect  BY <1>1, <2>1, AsksTyped
    <2>4. Discard \notin asks  BY AsksSpare
    <2> HIDE DEF asks
    <2>5. {Seen(m)} \union asks \in SUBSET Effect  BY <2>2, <2>3, EffectTypes
    <2>6. Discard \notin {Seen(m)} \union asks  BY <2>4 DEF Discard, Seen
    <2>. QED  BY <1>1, <2>1, <2>5, <2>6, WriteSpares
  <1>3. CASE RoomMade /\ project.watched /\ project' = [project EXCEPT !.room = TRUE]
    <2> DEFINE asks == Goes(project', pending, read)
    <2>1. Write(deferred, out \ {MakeRoom}, asks)  BY <1>3 DEF RoomMade
    <2>2. asks \in SUBSET Effect  BY <1>1, AsksTyped
    <2>3. Discard \notin asks  BY AsksSpare
    <2> HIDE DEF asks
    <2>. QED  BY <1>1, <1>3, <2>1, <2>2, <2>3, WriteSpares
  <1>5. CASE RoomAnswered
    <2>1. Discard \notin Goes(project, pending, read)  BY AsksSpare
    <2>2. CASE RoomRefused
      <3>1. UNCHANGED project
            /\ Release(deferred, out \ {MakeRoom}, Goes(project, pending, read))
        BY <2>2 DEF RoomRefused, Roomless
      <3>. QED  BY <2>1, <3>1, ReleaseSpares
    <2>3. CASE UNCHANGED project /\ Release(deferred, out \ {MakeRoom}, {})
      BY <2>3, ReleaseSpares
    <2>. QED  BY <1>3, <1>5, <2>2, <2>3 DEF RoomAnswered, RoomMade
  <1>6. CASE LookAnswered \/ ThreadAnswered
    <2>1. Discard \notin (IF pending THEN {Inspect} ELSE {}) /\ Discard \notin {}
      BY DEF Discard, Inspect
    <2>2. UNCHANGED project
      BY <1>6 DEF LookAnswered, ThreadAnswered, Inspected, ThreadRead
    <2>3. \/ \E m \in Message :
                Release(deferred, out \ {Read(m)}, IF pending THEN {Inspect} ELSE {})
          \/ Release(deferred, out \ {Inspect}, {})
      BY <1>6 DEF LookAnswered, ThreadAnswered, Inspected, ThreadRead
    <2>. QED  BY <2>1, <2>2, <2>3, ReleaseSpares
  <1>7. CASE UNCHANGED <<project, deferred, out>>
    BY <1>7 DEF Unharmed
  <1>8. CASE CommandAnswered \/ Agent \/ ProcessEnded
    <2>1. turn.answered \in BOOLEAN  BY DEF Typed, Inner, Turn
    <2>2. UNCHANGED <<project, deferred, out>> \/ \E a \in BOOLEAN : Ended(a)
      BY <1>8, <2>1 DEF CommandAnswered, Looked, Built, Made, Up, GoesOn,
                        Agent, AgentReady, AgentAnswered, ProcessEnded
    <2>. QED  BY <1>7, <2>2, EndedSpares
  <1>9. CASE HaltAnswered \/ Settle \/ ListAnswered
    BY <1>7, <1>9 DEF HaltAnswered, Halted, Settle, ListAnswered, Named, Labelled
  <1>10. CASE Forget
    BY <1>10 DEF Forget, Unwatched, Unharmed
  <1>11. CASE DiscardAnswered
    BY <1>11 DEF DiscardAnswered, Discarded, Unharmed
  <1>12. CASE WriteAnswered
    <2>1. deferred \in Seq(Deferred) /\ deferred # <<>>
      BY <1>12 DEF WriteAnswered, Landed, Unwritten, Typed, Inner, Snaps
    <2>2. /\ Len(deferred) \in Nat \ {0} /\ Len(Tail(deferred)) = Len(deferred) - 1
          /\ Head(deferred) = deferred[1]
          /\ \A i \in 1..Len(Tail(deferred)) : Tail(deferred)[i] = deferred[i + 1]
      BY <2>1, EmptySeq, HeadTailProperties
    <2>3. UNCHANGED project /\ deferred' = Tail(deferred)
      BY <1>12 DEF WriteAnswered, Landed, Unwritten, Roomless, Release
    <2>4. project.watched => /\ Discard \notin Head(deferred).effects
                             /\ \A i \in 1..Len(Tail(deferred)) :
                                  Discard \notin Tail(deferred)[i].effects
      BY <2>2 DEF Unharmed
    <2>5. project.watched => Discard \notin out'
      <3>1. Discard \notin Goes(project, pending, read)  BY AsksSpare
      <3>. QED  BY <1>12, <2>4, <3>1
                DEF WriteAnswered, Landed, Unwritten, Roomless, Release, Unharmed
    <2>. QED  BY <2>3, <2>4, <2>5 DEF Unharmed
  <1>13. CASE Restart
    <2>1. deferred' = Append(<<>>, [snap |-> project', effects |-> PicksUp(project')])
      BY <1>13 DEF Restart, Write
    <2>2. PicksUp(project') \in SUBSET Effect /\ Discard \notin PicksUp(project')
      BY <1>1, AsksTyped, AsksSpare DEF PicksUp
    <2>3. Len(deferred') = 1 /\ deferred'[1].effects = PicksUp(project')
      BY <1>1, <2>1, <2>2 DEF Deferred
    <2>4. project'.watched => Discard \notin out'
      BY <1>13 DEF Restart, Write, Facts, Discard
    <2>. QED  BY <2>2, <2>3, <2>4 DEF Unharmed
  <1>. QED  BY <1>2, <1>5, <1>6, <1>8, <1>9, <1>10, <1>11, <1>12, <1>13 DEF Next, Person

\* A turn that ends, or whose agent is not talking yet, is not stopped while
\* it speaks.
LEMMA TurnSpares ==
  ASSUME Serialises, Typed, NotStoppedWhileSpeaking,
         CommandAnswered \/ Agent \/ ProcessEnded
  PROVE  NotStoppedWhileSpeaking'
  <1> USE DEF NotStoppedWhileSpeaking, Speaking
  <1>1. \A a \in BOOLEAN : Ended(a) => turn'.stage = "None"
    BY DEF Ended, NoTurn
  <1>2. turn \in Turn /\ turn.answered \in BOOLEAN  BY DEF Typed, Inner, Turn
  <1>3. CASE \E ok \in BOOLEAN : Looked(ok) \/ Built(ok) \/ Made(ok)
    <2>1. turn'.stage \in {"None", "Creating", "Building", "Starting"}
      BY <1>1, <1>2, <1>3 DEF Looked, Built, Made, GoesOn, Turn
    <2>. QED  BY <2>1
  <1>4. CASE \E ok, charged \in BOOLEAN : Up(ok, charged)
    <2>1. PICK ok, charged \in BOOLEAN : Up(ok, charged)  BY <1>4
    <2>2. CASE ok /\ charged
      <3>1. container' = "Up" /\ halts = 0 /\ UNCHANGED sweep
        BY <2>1, <2>2 DEF Up, GoesOn
      <3>. QED  BY <3>1 DEF sweep
    <2>3. CASE ~ok \/ ~charged
      BY <1>1, <2>1, <2>3 DEF Up, GoesOn
    <2>. QED  BY <2>2, <2>3
  <1>5. CASE Agent
    BY <1>5 DEF Agent, AgentReady, AgentAnswered, sweep, world
  <1>6. CASE ProcessEnded
    BY <1>1, <1>2, <1>6 DEF ProcessEnded
  <1>. QED  BY <1>3, <1>4, <1>5, <1>6 DEF CommandAnswered

LEMMA NextSpares ==
  ASSUME Serialises, Typed, Unharmed, NotStoppedWhileSpeaking, Next
  PROVE  NotStoppedWhileSpeaking'
  <1> USE DEF NotStoppedWhileSpeaking
  <1>1. CASE /\ UNCHANGED <<container, halts>>
             /\ turn' = turn \/ turn'.stage = "None" \/ turn'.stage = "Looking"
                             \/ turn'.stage = "Starting"
             /\ project'.watched => project.watched
    BY <1>1 DEF Speaking
  <1>2. CASE Person
    <2>1. UNCHANGED <<container, halts, turn>> /\ (project'.watched => project.watched)
      BY <1>2 DEF Person, Say, Forget, sweep, memory, world, Unwatched
    <2>. QED  BY <1>1, <2>1
  <1>3. CASE RoomAnswered \/ WriteAnswered \/ ThreadAnswered \/ Settle
    <2>1. UNCHANGED <<container, halts, turn>> /\ (project'.watched => project.watched)
      BY <1>3 DEF RoomAnswered, RoomMade, RoomRefused, Roomless, WriteAnswered, Landed,
                  Unwritten, ThreadAnswered, ThreadRead, Settle, sweep, memory, world
    <2>. QED  BY <1>1, <2>1
  <1>4. CASE LookAnswered
    <2>1. PICK present \in BOOLEAN : Inspected(present)  BY <1>4 DEF LookAnswered
    <2>2. UNCHANGED <<container, halts, project>>
      BY <2>1 DEF Inspected, sweep, world
    <2>3. turn' = turn \/ turn'.stage \in {"Looking", "Starting"}
      BY <2>1 DEF Inspected, NoTurn
    <2>. QED  BY <1>1, <2>2, <2>3
  <1>5. CASE HaltAnswered
    <2>1. halts > 0 /\ UNCHANGED <<project, turn>>
      BY <1>5 DEF HaltAnswered, Halted, memory
    <2>. QED  BY <2>1
  <1>6. CASE ListAnswered
    <2>1. UNCHANGED <<project, turn, container>>
      BY <1>6 DEF ListAnswered, Named, Labelled, memory, world
    <2>2. turn.stage # "None" => UNCHANGED halts
      BY <1>6 DEF ListAnswered, Named, Labelled, Resting
    <2>. QED  BY <2>1, <2>2 DEF Speaking
  <1>7. CASE DiscardAnswered
    <2>1. /\ Discard \in out
          /\ UNCHANGED <<project, turn, halts>>
      BY <1>7 DEF DiscardAnswered, Discarded, memory, sweep
    <2>. QED  BY <2>1 DEF Unharmed
  <1>8. CASE Restart
    <2>1. turn'.stage = "None"  BY <1>8 DEF Restart, NoTurn
    <2>. QED  BY <2>1 DEF Speaking
  <1>. QED  BY <1>2, <1>3, <1>4, <1>5, <1>6, <1>7, <1>8, TurnSpares DEF Next

\* If the runtime runs a stop and a later start in order, no stop reaches a
\* container in which an agent talks, whatever sweeps, restarts and forgotten
\* projects do meanwhile (rest_if_idle, settle_containers, decision 0066).
THEOREM NeverStoppedWhileSpeaking ==
  ASSUME Serialises
  PROVE  Spec => []NotStoppedWhileSpeaking
  <1> DEFINE Spared == Typed /\ Unharmed /\ NotStoppedWhileSpeaking
  <1>1. Init => Spared
    <2> SUFFICES ASSUME Init PROVE Unharmed /\ NotStoppedWhileSpeaking
      BY InitTyped
    <2>1. out = {} /\ deferred = <<>> /\ turn.stage = "None"
      BY NoTurnTyped DEF Init
    <2>. QED  BY <2>1, EmptySeq DEF Unharmed, NotStoppedWhileSpeaking, Speaking
  <1>2. Spared /\ [Next]_vars => Spared'
    <2> SUFFICES ASSUME Spared, [Next]_vars PROVE Unharmed' /\ NotStoppedWhileSpeaking'
      BY NextTyped
    <2>1. CASE Next  BY <2>1, NextUnharmed, NextSpares
    <2>2. CASE UNCHANGED vars
      BY <2>2 DEF vars, memory, sweep, history, world, Unharmed, NotStoppedWhileSpeaking
    <2>. QED  BY <2>1, <2>2
  <1>3. Spared => NotStoppedWhileSpeaking  OBVIOUS
  <1> HIDE DEF Spared
  <1>. QED  BY <1>1, <1>2, <1>3, PTL DEF Spec


----------------------------------------------------------------------------
(* What a foreman says and begins is on the disk, and a message is put to its *)
(* agent as new once, whatever fails, restarts and arrives in between.        *)


\* The room was made before, so no step asks for it: without it the property is
\* not so, a turn going on at once where the making of its room is not written.
Housed == Rooms \subseteq {TRUE}

\* The records a crash may bring back, with the disk's for 0 and that of the
\* i-th write in flight for i.
Rec(q, d, i) == IF i = 0 THEN d ELSE q[i].snap

Places == 0..Len(deferred)

Rising(s, n) ==
  /\ \A i \in 1..Len(s) : s[i] <= n
  /\ \A i, k \in 1..Len(s) : i < k => s[i] < s[k]

Leads(p, m) == p.mail # <<>> /\ Head(p.mail) = m

\* A watched project has its room, in every record, and nothing asks for one.
Roomy ==
  /\ project.watched => project.room
  /\ \A j \in Places : Rec(deferred, disk, j).watched => Rec(deferred, disk, j).room
  /\ project.watched => \A j \in Places : Rec(deferred, disk, j).watched
  /\ \A i \in Places : MakeRoom \notin At(deferred, out, i)

\* Messages are held in the order they were said.
Sorted ==
  /\ Rising(project.mail, said)
  /\ \A j \in Places : Rising(Rec(deferred, disk, j).mail, said)

Fated == \A m \in Message : fate[m] = "Held" => m \in Held(project)

\* What is said of a message, or waits on a write to be, is so in the record of
\* that write and in every one after.
SaidOf ==
  \A i \in Places, m \in Message :
    /\ Seen(m) \in At(deferred, out, i) =>
         /\ m <= said /\ fate[m] # "Forgotten"
         /\ fate[m] = "Held" => \A j \in i..Len(deferred) : m \in Held(Rec(deferred, disk, j))
    /\ \A f \in {Done(m), Stuck(m)} : f \in At(deferred, out, i) =>
         /\ m <= said /\ m \notin Held(project)
         /\ \A j \in i..Len(deferred) : m \notin Held(Rec(deferred, disk, j))

\* What is asked for is asked for the message in hand, which leads the record it
\* waits on and every one after.
Driven ==
  \A i \in Places : \A e \in Driving :
    e \in At(deferred, out, i) /\ project.mail # <<>> =>
      \A j \in i..Len(deferred) : Leads(Rec(deferred, disk, j), Head(project.mail))

\* A turn's message was said, and leads every record there is.
Turned == turn.stage # "None" =>
  /\ turn.message \in Message /\ turn.message <= said
  /\ project.watched => Leads(project, turn.message)
  /\ \A j \in Places : Rec(deferred, disk, j).watched =>
       Leads(Rec(deferred, disk, j), turn.message)

\* A message that was put is first wherever it is held, and while it is in hand
\* its turn has put it or is told that it was interrupted.
PutOnce ==
  \A m \in Message : put[m] > 0 =>
    /\ put[m] = 1 /\ m <= said
    /\ \A j \in Places : m \in Held(Rec(deferred, disk, j)) =>
         Head(Rec(deferred, disk, j).mail) = m
PutInHand ==
  \A m \in Message : put[m] > 0 /\ m \in Held(project) =>
    /\ Head(project.mail) = m
    /\ turn.stage = "None" => interrupted
    /\ turn.stage # "None" => turn.again \/ turn.stage \in {"Prompting", "Closing"}
AsNew ==
  turn.stage \in Commanding \union {"Opening"} /\ ~turn.again => put[turn.message] = 0

Recorded == Roomy /\ Sorted /\ Fated /\ SaidOf /\ Driven
Putting  == Turned /\ PutOnce /\ PutInHand /\ AsNew
Ahead    == Recorded /\ Putting

----------------------------------------------------------------------------
(* What is said, asked for and removed are told apart. *)

LEMMA Apart ==
  /\ \A m, k \in Message : /\ Seen(m) # Done(k) /\ Seen(m) # Stuck(k)
                           /\ Seen(m) = Seen(k) => m = k
                           /\ Done(m) = Done(k) => m = k
                           /\ Stuck(m) = Stuck(k) => m = k
                           /\ Done(m) # Stuck(k)
                           /\ {Seen(m), Done(m), Stuck(m)} \subseteq Facts
                           /\ Seen(m) # Discard /\ Done(m) # Discard /\ Stuck(m) # Discard
  /\ \A m \in Message : \A e \in Driving : Seen(m) # e /\ Done(m) # e /\ Stuck(m) # e
  /\ MakeRoom \in Driving /\ MakeRoom # Inspect /\ MakeRoom # Discard
  /\ \A m \in Message : MakeRoom # Read(m) /\ MakeRoom # Seen(m)
                        /\ MakeRoom # Done(m) /\ MakeRoom # Stuck(m)
  /\ \A e \in Driving : e # Discard /\ e \notin Facts
  BY DEF Seen, Done, Stuck, Discard, Driving, MakeRoom, Inspect, Read, Reads, Facts, Effect

\* Where there is a room, what is asked for first is a thread or the container.
LEMMA AsksWith ==
  ASSUME NEW p \in Project, p.room, NEW w, NEW h
  PROVE  \A e \in LooksFirst(p, w, h) : e \in Driving /\ e # MakeRoom
  <1>1. p.mail # <<>> => Head(p.mail) \in Message  BY DEF Project
  <1>2. Inspect \in Driving /\ \A m \in Message : Read(m) \in Driving
    BY EffectTypes DEF Driving
  <1>. QED  BY <1>1, <1>2, Apart DEF LooksFirst, Goes

LEMMA Numbers == \A m \in Message : m \in Nat /\ m > 0
  BY ForemanAssumption DEF Message

LEMMA HeldReceived ==
  ASSUME NEW p \in Project, NEW m \in Message, NEW n \in Nat, Rising(p.mail, n), n < m
  PROVE  /\ \A x \in Held(Receive(p, m)) : x \in Held(p) \/ x = m
         /\ m \in Held(Receive(p, m))
         /\ \A x \in Held(p) : x \in Held(Receive(p, m))
         /\ Rising(Receive(p, m).mail, m)
  <1> DEFINE s == p.mail
             a == Append(s, m)
  <1>1. s \in Seq(Message) /\ Len(s) \in Nat  BY DEF Project
  <1>2. Receive(p, m).mail = a  BY DEF Receive, Project
  <1>3. Len(a) = Len(s) + 1 /\ a[Len(s) + 1] = m /\ \A i \in 1..Len(s) : a[i] = s[i]
    BY <1>1
  <1>4. \A i \in 1..Len(s) : s[i] \in Nat
    <2>1. \A i \in 1..Len(s) : s[i] \in Message  BY <1>1
    <2>. QED  BY <2>1, Numbers
  <1>5. m \in Nat  BY Numbers
  <1> HIDE DEF a, s
  <1>6. /\ \A x \in Held(Receive(p, m)) : \E i \in 1..Len(a) : x = a[i]
        /\ \A i \in 1..Len(a) : a[i] \in Held(Receive(p, m))
        /\ \A x \in Held(p) : \E i \in 1..Len(s) : x = s[i]
        /\ \A i \in 1..Len(s) : s[i] \in Held(p)
    BY <1>2 DEF Held, s
  <1>7. Rising(a, m)
    <2>1. \A i \in 1..Len(s) : s[i] <= n /\ s[i] < m
      BY <1>4, <1>5 DEF Rising, s
    <2>2. \A i, k \in 1..Len(s) : i < k => s[i] < s[k]  BY DEF Rising, s
    <2>3. 1..Len(a) = 1..Len(s) \union {Len(s) + 1}  BY <1>1, <1>3
    <2>4. \A i \in 1..Len(a) : a[i] <= m
      BY <1>1, <1>3, <1>4, <1>5, <2>1, <2>3
    <2>5. \A i, k \in 1..Len(a) : i < k => a[i] < a[k]
      <3>1. TAKE i, k \in 1..Len(a)
      <3>2. HAVE i < k
      <3>3. i \in 1..Len(s)  BY <1>1, <1>3, <3>2
      <3>4. CASE k \in 1..Len(s)  BY <1>3, <2>2, <3>2, <3>3, <3>4
      <3>5. CASE k = Len(s) + 1  BY <1>3, <2>1, <3>3, <3>5
      <3>. QED  BY <2>3, <3>4, <3>5
    <2>. QED  BY <2>4, <2>5 DEF Rising
  <1>8. \A i \in 1..Len(a) : a[i] = m \/ a[i] \in Held(p)
    <2>1. 1..Len(a) = 1..Len(s) \union {Len(s) + 1}  BY <1>1, <1>3
    <2>. QED  BY <1>3, <1>6, <2>1
  <1>9. \A x \in Held(Receive(p, m)) : x \in Held(p) \/ x = m
    BY <1>6, <1>8
  <1>10. m \in Held(Receive(p, m))
    <2>1. Len(s) + 1 \in 1..Len(a)  BY <1>1, <1>3
    <2>. QED  BY <1>3, <1>6, <2>1
  <1>11. \A x \in Held(p) : x \in Held(Receive(p, m))
    <2>1. \A i \in 1..Len(s) : i \in 1..Len(a)  BY <1>1, <1>3
    <2>. QED  BY <1>3, <1>6, <2>1
  <1>. QED  BY <1>2, <1>7, <1>9, <1>10, <1>11

LEMMA HeldTail ==
  ASSUME NEW p \in Project, p.mail # <<>>, NEW n \in Nat, Rising(p.mail, n)
  PROVE  LET t == [p EXCEPT !.mail = Tail(@)] IN
         /\ Head(p.mail) \in Held(p) /\ Head(p.mail) <= n
         /\ \A x \in Held(t) : x \in Held(p) /\ x # Head(p.mail)
         /\ Rising(t.mail, n)
  <1> DEFINE s == p.mail
             r == Tail(s)
             t == [p EXCEPT !.mail = Tail(@)]
  <1>1. s \in Seq(Message) /\ Len(s) \in Nat \ {0}  BY EmptySeq DEF Project
  <1>2. t.mail = r  BY DEF Project
  <1>3. /\ r \in Seq(Message) /\ Len(r) = Len(s) - 1 /\ Head(s) = s[1]
        /\ \A i \in 1..Len(r) : r[i] = s[i + 1] /\ i + 1 \in 1..Len(s)
    BY <1>1, HeadTailProperties
  <1>4. \A i \in 1..Len(s) : s[i] \in Nat
    <2>1. \A i \in 1..Len(s) : s[i] \in Message  BY <1>1
    <2>. QED  BY <2>1, Numbers
  <1> HIDE DEF s, r, t
  <1>5. /\ \A x \in Held(t) : \E i \in 1..Len(r) : x = r[i]
        /\ \A i \in 1..Len(s) : s[i] \in Held(p)
    BY <1>2 DEF Held, s
  <1>6. \A i, k \in 1..Len(s) : i < k => s[i] < s[k]  BY DEF Rising, s
  <1>7. \A i \in 1..Len(s) : s[i] <= n  BY DEF Rising, s
  <1>8. Rising(r, n)
    <2>1. \A i \in 1..Len(r) : r[i] <= n  BY <1>3, <1>7
    <2>2. \A i, k \in 1..Len(r) : i < k => r[i] < r[k]
      <3>1. TAKE i, k \in 1..Len(r)
      <3>2. HAVE i < k
      <3>3. i + 1 < k + 1  BY <3>2
      <3>. QED  BY <1>3, <1>6, <3>3
    <2>. QED  BY <2>1, <2>2 DEF Rising
  <1>9. \A x \in Held(t) : x \in Held(p) /\ x # Head(s)
    <2>1. TAKE x \in Held(t)
    <2>2. PICK i \in 1..Len(r) : x = s[i + 1] /\ i + 1 \in 1..Len(s)  BY <1>3, <1>5
    <2>3. s[1] < s[i + 1]  BY <1>1, <1>3, <1>6, <2>2
    <2>4. s[1] \in Nat /\ s[i + 1] \in Nat  BY <1>1, <1>4, <2>2
    <2>. QED  BY <1>3, <1>5, <2>2, <2>3, <2>4
  <1>10. Head(s) \in Held(p) /\ Head(s) <= n  BY <1>1, <1>3, <1>5, <1>7
  <1>11. Rising(t.mail, n)  BY <1>2, <1>8
  <1>. QED  BY <1>9, <1>10, <1>11 DEF s, t

LEMMA HeldNone ==
  ASSUME NEW p, p.mail = <<>>
  PROVE  Held(p) = {} /\ \A n : Rising(p.mail, n)
  BY DEF Held, Rising

LEMMA HeadHeld ==
  ASSUME NEW p \in Project, NEW m, Leads(p, m)
  PROVE  m \in Held(p)
  <1>1. p.mail \in Seq(Message) /\ Len(p.mail) \in Nat \ {0}
    BY EmptySeq DEF Project, Leads
  <1>. QED  BY <1>1 DEF Leads, Held

LEMMA HeldSaid ==
  ASSUME NEW p \in Project, NEW n \in Nat, Rising(p.mail, n)
  PROVE  \A x \in Held(p) : x <= n /\ x \in Message /\ x \in Nat
  <1>1. p.mail \in Seq(Message)  BY DEF Project
  <1>2. \A i \in 1..Len(p.mail) : p.mail[i] \in Message /\ p.mail[i] <= n
    BY <1>1 DEF Rising
  <1>. QED  BY <1>2, Numbers DEF Held

----------------------------------------------------------------------------
(* Records and effects through each kind of step.                          *)

\* A step that writes.
LEMMA Appended ==
  ASSUME Typed, NEW o, o \subseteq out, NEW E \in SUBSET Effect, project' \in Project,
         Write(deferred, o, E), UNCHANGED disk
  PROVE  /\ Len(deferred) \in Nat /\ Len(deferred') = Len(deferred) + 1
         /\ \A i \in 0..Len(deferred) :
              /\ Rec(deferred', disk', i) = Rec(deferred, disk, i)
              /\ \A e \in At(deferred', out', i) : e \in At(deferred, out, i)
         /\ Rec(deferred', disk', Len(deferred) + 1) = project'
         /\ At(deferred', out', Len(deferred) + 1) = E
  <1>1. deferred \in Seq(Deferred)  BY DEF Typed, Inner, Snaps
  <1> DEFINE x == [snap |-> project', effects |-> E]
  <1>2. x \in Deferred /\ x.snap = project' /\ x.effects = E  BY DEF Deferred
  <1> HIDE DEF x
  <1>3. deferred' = Append(deferred, x) /\ out' = o  BY DEF Write, x
  <1>4. /\ Len(deferred) \in Nat /\ Len(deferred') = Len(deferred) + 1
        /\ \A i \in 1..Len(deferred) : deferred'[i] = deferred[i]
        /\ deferred'[Len(deferred) + 1] = x
    BY <1>1, <1>2, <1>3
  <1>. QED  BY <1>2, <1>3, <1>4 DEF Rec, At

LEMMA Records ==
  ASSUME Typed
  PROVE  /\ Len(deferred) \in Nat
         /\ \A i \in Places : Sound(Rec(deferred, disk, i)) /\ Rec(deferred, disk, i) \in Project
         /\ Sound(project) /\ project \in Project
  BY DEF Typed, Inner, Outer, Snaps, Places, Rec, Sound

\* A step that writes nothing, or in which a write lands or fails: every record
\* was there, and every effect waits on no earlier record than it did.
Follows(q, d, o, t, c, p) ==
  /\ \A j \in 0..Len(t) : \E k \in 0..Len(q) : Rec(t, c, j) = Rec(q, d, k)
  /\ \A i \in 0..Len(t) : \A e \in At(t, p, i) : \E k \in 0..Len(q) :
       /\ \/ e \in At(q, o, k)
          \/ e = Inspect /\ \E f \in Driving : f \in At(q, o, k)
       /\ \A j \in i..Len(t) : \E l \in k..Len(q) : Rec(t, c, j) = Rec(q, d, l)

Later == Follows(deferred, disk, out, deferred', disk', out')

LEMMA Places2 ==
  ASSUME Typed
  PROVE  /\ \A j \in Places : \A l \in j..Len(deferred) : l \in Places
         /\ \A j \in Places : j \in j..Len(deferred)
         /\ 0 \in Places
  BY Records DEF Places

LEMMA LaterRecorded ==
  ASSUME Typed, Typed', Recorded, Later, UNCHANGED <<project, said, fate>>
  PROVE  Recorded'
  <1>1. Roomy'
    <2>1. \A i \in Places' : MakeRoom \notin At(deferred', out', i)
      BY Apart DEF Recorded, Roomy, Later, Follows, Places
    <2>. QED  BY <2>1 DEF Recorded, Roomy, Later, Follows, Places
  <1>2. Sorted'  BY DEF Recorded, Sorted, Later, Follows, Places
  <1>3. Fated'  BY DEF Recorded, Fated
  <1>4. SaidOf'
    <2>1. ASSUME NEW i \in Places', NEW m \in Message,
                 NEW e \in {Seen(m), Done(m), Stuck(m)}, e \in At(deferred', out', i)
          PROVE  \E k \in Places :
                   /\ e \in At(deferred, out, k)
                   /\ \A j \in i..Len(deferred') : \E l \in k..Len(deferred) :
                        Rec(deferred', disk', j) = Rec(deferred, disk, l)
      <3>1. e # Inspect  BY EffectTypes, Apart DEF Driving
      <3>. QED  BY <2>1, <3>1 DEF Later, Follows, Places
    <2>2. ASSUME NEW i \in Places', NEW m \in Message, Seen(m) \in At(deferred', out', i)
          PROVE  /\ m <= said' /\ fate'[m] # "Forgotten"
                 /\ fate'[m] = "Held" =>
                      \A j \in i..Len(deferred') : m \in Held(Rec(deferred', disk', j))
      <3>1. PICK k \in Places :
                   /\ Seen(m) \in At(deferred, out, k)
                   /\ \A j \in i..Len(deferred') : \E l \in k..Len(deferred) :
                        Rec(deferred', disk', j) = Rec(deferred, disk, l)
        BY <2>1, <2>2
      <3>. QED  BY <3>1 DEF Recorded, SaidOf
    <2>3. ASSUME NEW i \in Places', NEW m \in Message, NEW f \in {Done(m), Stuck(m)},
                 f \in At(deferred', out', i)
          PROVE  /\ m <= said' /\ m \notin Held(project')
                 /\ \A j \in i..Len(deferred') : m \notin Held(Rec(deferred', disk', j))
      <3>1. PICK k \in Places :
                   /\ f \in At(deferred, out, k)
                   /\ \A j \in i..Len(deferred') : \E l \in k..Len(deferred) :
                        Rec(deferred', disk', j) = Rec(deferred, disk, l)
        BY <2>1, <2>3
      <3>. QED  BY <3>1 DEF Recorded, SaidOf
    <2>. QED  BY <2>2, <2>3 DEF SaidOf
  <1>5. Driven'
    <2>1. ASSUME NEW i \in Places', NEW e \in Driving, e \in At(deferred', out', i),
                 project.mail # <<>>
          PROVE  \A j \in i..Len(deferred') :
                   Leads(Rec(deferred', disk', j), Head(project.mail))
      <3>1. PICK k \in Places :
              /\ \E f \in Driving : f \in At(deferred, out, k)
              /\ \A j \in i..Len(deferred') : \E l \in k..Len(deferred) :
                   Rec(deferred', disk', j) = Rec(deferred, disk, l)
        BY <2>1 DEF Later, Follows, Places
      <3>2. \A l \in k..Len(deferred) : Leads(Rec(deferred, disk, l), Head(project.mail))
        BY <2>1, <3>1 DEF Recorded, Driven
      <3>. QED  BY <3>1, <3>2
    <2>. QED  BY <2>1 DEF Driven
  <1>. QED  BY <1>1, <1>2, <1>3, <1>4, <1>5 DEF Recorded

LEMMA LaterPutting ==
  ASSUME Typed, Putting, Later, UNCHANGED <<project, said, turn, interrupted, put>>
  PROVE  Putting'
  <1>1. Turned'  BY DEF Putting, Turned, Later, Follows, Places
  <1>2. PutOnce'  BY DEF Putting, PutOnce, Later, Follows, Places
  <1>3. PutInHand' /\ AsNew'  BY DEF Putting, PutInHand, AsNew
  <1>. QED  BY <1>1, <1>2, <1>3 DEF Putting

LEMMA SameLater ==
  ASSUME Typed, UNCHANGED <<deferred, disk>>,
         \A e \in out' : e \in out \/ (e = Inspect /\ \E f \in Driving : f \in out)
  PROVE  Later
  <1>1. \A i \in Places : \A e \in At(deferred', out', i) :
          \/ e \in At(deferred, out, i)
          \/ i = 0 /\ e = Inspect /\ \E f \in Driving : f \in At(deferred, out, i)
    <2>1. TAKE i \in Places
    <2>2. CASE i = 0  BY <2>2 DEF At
    <2>3. CASE i # 0  BY <2>3 DEF At
    <2>. QED  BY <2>2, <2>3
  <1>2. \A i \in Places : \A j \in i..Len(deferred) :
          Rec(deferred', disk', j) = Rec(deferred, disk, j)
    OBVIOUS
  <1>3. Places' = Places  BY DEF Places
  <1>4. \A j \in Places : Rec(deferred', disk', j) = Rec(deferred, disk, j)  OBVIOUS
  <1>. QED  BY <1>1, <1>2, <1>3, <1>4 DEF Later, Follows, Places

LEMMA LandedLater ==
  ASSUME Typed, deferred # <<>>, deferred' = Tail(deferred),
         \/ disk' = Head(deferred).snap /\ out' = out \union Head(deferred).effects
         \/ disk' = disk /\ out' = out
  PROVE  Later
  <1> DEFINE q == deferred
             t == Tail(deferred)
  <1>1. q \in Seq(Deferred)  BY DEF Typed, Inner, Snaps
  <1>2. /\ t \in Seq(Deferred) /\ Len(q) \in Nat \ {0} /\ Len(t) = Len(q) - 1
        /\ Head(q) = q[1] /\ At(q, out, 1) = Head(q).effects
        /\ \A i \in 1..Len(t) : At(t, out', i) = At(q, out, i + 1)
    BY <1>1, TailAt
  <1>3. \A i \in 1..Len(t) : t[i] = q[i + 1]  BY <1>1, <1>2, HeadTailProperties
  <1> HIDE DEF q, t
  <1>4. deferred' = t /\ deferred = q  BY DEF t, q
  <1>5. \A j \in 1..Len(t) : Rec(t, disk', j) = Rec(q, disk, j + 1) /\ j + 1 \in 0..Len(q)
    BY <1>2, <1>3 DEF Rec
  <1>6. CASE disk' = Head(q).snap /\ out' = out \union Head(q).effects
    <2>1. Rec(t, disk', 0) = Rec(q, disk, 1)  BY <1>2, <1>6 DEF Rec
    <2>2. \A j \in 0..Len(t) : Rec(t, disk', j) = Rec(q, disk, j + 1) /\ j + 1 \in 0..Len(q)
      <3>1. TAKE j \in 0..Len(t)
      <3>2. CASE j = 0  BY <1>2, <2>1, <3>2
      <3>3. CASE j # 0  BY <1>2, <1>5, <3>3
      <3>. QED  BY <3>2, <3>3
    <2>3. \A e \in At(t, out', 0) : e \in At(q, out, 0) \/ e \in At(q, out, 1)
      BY <1>2, <1>6 DEF At
    <2>4. ASSUME NEW i \in 0..Len(t), NEW e \in At(t, out', i)
          PROVE  \E k \in 0..Len(q) :
                   /\ e \in At(q, out, k)
                   /\ \A j \in i..Len(t) : \E l \in k..Len(q) : Rec(t, disk', j) = Rec(q, disk, l)
      <3>1. \A j \in i..Len(t) : Rec(t, disk', j) = Rec(q, disk, j + 1)
                                 /\ j + 1 \in (i + 1)..Len(q) /\ j + 1 \in 0..Len(q)
                                 /\ j + 1 \in 1..Len(q)
        BY <1>2, <2>2
      <3>2. CASE e \in At(q, out, i + 1)
        <4>1. i + 1 \in 0..Len(q)  BY <1>2
        <4>. QED  BY <3>1, <3>2, <4>1
      <3>3. CASE i = 0 /\ e \in At(q, out, 0)
        <4>1. 0 \in 0..Len(q)  BY <1>2
        <4>. QED  BY <3>1, <3>3, <4>1
      <3>4. i = 0 \/ i \in 1..Len(t)  BY <1>2
      <3>5. CASE i = 0 /\ e \in At(q, out, 1)  BY <3>2, <3>5
      <3>6. CASE i \in 1..Len(t)  BY <1>2, <2>4, <3>2, <3>6
      <3>. QED  BY <2>3, <2>4, <3>3, <3>4, <3>5, <3>6
    <2>5. Follows(q, disk, out, t, disk', out')  BY <2>2, <2>4, Zenon DEF Follows
    <2>. QED  BY <1>4, <2>5 DEF Later
  <1>7. CASE disk' = disk /\ out' = out
    <2>1. Rec(t, disk', 0) = Rec(q, disk, 0)  BY <1>7 DEF Rec
    <2>2. \A j \in 0..Len(t) : \E l \in j..Len(q) :
            l \in 0..Len(q) /\ Rec(t, disk', j) = Rec(q, disk, l) /\ (j > 0 => l = j + 1)
      <3>1. TAKE j \in 0..Len(t)
      <3>2. CASE j = 0  BY <1>2, <2>1, <3>2
      <3>3. CASE j # 0
        <4>1. j + 1 \in j..Len(q) /\ j \in 1..Len(t)  BY <1>2, <3>3
        <4>. QED  BY <1>5, <4>1
      <3>. QED  BY <3>2, <3>3
    <2>3. At(t, out', 0) = At(q, out, 0)  BY <1>7 DEF At
    <2>4. ASSUME NEW i \in 0..Len(t), NEW e \in At(t, out', i)
          PROVE  \E k \in 0..Len(q) :
                   /\ e \in At(q, out, k)
                   /\ \A j \in i..Len(t) : \E l \in k..Len(q) : Rec(t, disk', j) = Rec(q, disk, l)
      <3>1. CASE i = 0
        <4>1. 0 \in 0..Len(q)  BY <1>2
        <4>2. \A j \in 0..Len(t) : \E l \in 0..Len(q) : Rec(t, disk', j) = Rec(q, disk, l)
          BY <2>2
        <4>. QED  BY <2>3, <2>4, <3>1, <4>1, <4>2
      <3>2. CASE i \in 1..Len(t)
        <4>1. i + 1 \in 0..Len(q) /\ e \in At(q, out, i + 1)  BY <1>2, <2>4, <3>2
        <4>2. \A j \in i..Len(t) : j + 1 \in (i + 1)..Len(q) /\ Rec(t, disk', j) = Rec(q, disk, j + 1)
          BY <1>2, <1>5, <3>2
        <4>. QED  BY <4>1, <4>2
      <3>. QED  BY <1>2, <3>1, <3>2
    <2>5. Follows(q, disk, out, t, disk', out')  BY <2>2, <2>4, Zenon DEF Follows
    <2>. QED  BY <1>4, <2>5 DEF Later
  <1>. QED  BY <1>6, <1>7 DEF q

LEMMA WrittenRecorded ==
  ASSUME Typed, Typed', Recorded, NEW o, o \subseteq out, NEW E \in SUBSET Effect,
         Write(deferred, o, E), UNCHANGED disk,
         project'.watched => project.watched /\ project'.room,
         MakeRoom \notin E,
         said <= said', Rising(project'.mail, said'), Fated',
         \A m \in Message :
           /\ fate'[m] = "Forgotten" => fate[m] = "Forgotten"
           /\ fate'[m] = "Held" => fate[m] = "Held" \/ m > said
           /\ m \in Held(project') => m \in Held(project) \/ m > said
           /\ Seen(m) \in E => m <= said' /\ fate'[m] # "Forgotten"
           /\ \A f \in {Done(m), Stuck(m)} : f \in E => m <= said' /\ m \notin Held(project'),
         project'.mail # <<>> /\ (\E i \in Places : \E e \in Driving : e \in At(deferred, out, i))
           => project.mail # <<>> /\ Head(project'.mail) = Head(project.mail)
  PROVE  Recorded'
  <1> DEFINE n == Len(deferred)
  <1>1. /\ n \in Nat /\ Len(deferred') = n + 1
        /\ \A i \in 0..n :
             /\ Rec(deferred', disk', i) = Rec(deferred, disk, i)
             /\ \A e \in At(deferred', out', i) : e \in At(deferred, out, i)
        /\ Rec(deferred', disk', n + 1) = project'
        /\ At(deferred', out', n + 1) = E
    <2>1. project' \in Project  BY DEF Typed, Inner, Sound
    <2>. QED  BY <2>1, Appended
  <1>2. Places = 0..n /\ Places' = 0..(n + 1) /\ 0..(n + 1) = (0..n) \union {n + 1}
    BY <1>1 DEF Places
  <1>3. said \in Nat /\ said' \in Nat  BY DEF Typed, Outer
  <1>4. \A i \in 0..n : \A j \in i..(n + 1) : j \in i..n \/ j = n + 1
    BY <1>1
  <1>5. \A i \in 0..n : \A j \in i..n : j \in 0..n  BY <1>1
  <1>6. \A j \in (n + 1)..(n + 1) : j = n + 1  BY <1>1
  <1> HIDE DEF n
  <1>7. Len(deferred) = n  BY DEF n
  <1>8. Roomy'
    BY <1>1, <1>2 DEF Recorded, Roomy
  <1>9. Sorted'
    <2>1. \A q, a, b : a \in Nat /\ b \in Nat /\ a <= b /\ Rising(q, a) /\ (\A k \in 1..Len(q) : q[k] \in Nat)
            => Rising(q, b)
      BY DEF Rising
    <2>2. \A j \in 0..n : \A k \in 1..Len(Rec(deferred, disk, j).mail) :
            Rec(deferred, disk, j).mail[k] \in Nat
      <3>1. \A j \in 0..n : Rec(deferred, disk, j).mail \in Seq(Message)
        BY <1>2, Records DEF Project
      <3>2. \A j \in 0..n : \A k \in 1..Len(Rec(deferred, disk, j).mail) :
              Rec(deferred, disk, j).mail[k] \in Message
        BY <3>1
      <3>. QED  BY <3>2, Numbers
    <2>3. \A j \in 0..n : Rising(Rec(deferred, disk, j).mail, said)
      BY <1>2 DEF Recorded, Sorted
    <2>4. \A j \in 0..n : Rising(Rec(deferred, disk, j).mail, said')
      BY <1>3, <2>1, <2>2, <2>3
    <2>. QED  BY <1>1, <1>2, <2>4 DEF Sorted
  <1>10. SaidOf'
    <2>1. ASSUME NEW i \in Places', NEW m \in Message, Seen(m) \in At(deferred', out', i)
          PROVE  /\ m <= said' /\ fate'[m] # "Forgotten"
                 /\ fate'[m] = "Held" =>
                      \A j \in i..Len(deferred') : m \in Held(Rec(deferred', disk', j))
      <3>1. m \in Nat  BY Numbers
      <3>2. fate'[m] = "Held" => m \in Held(project')  BY DEF Fated
      <3>3. CASE i = n + 1  BY <1>1, <1>6, <2>1, <3>2, <3>3
      <3>4. CASE i \in 0..n
        <4>1. Seen(m) \in At(deferred, out, i)  BY <1>1, <2>1, <3>4
        <4>2. /\ m <= said /\ fate[m] # "Forgotten"
              /\ fate[m] = "Held" => \A j \in i..n : m \in Held(Rec(deferred, disk, j))
          BY <1>2, <1>7, <3>4, <4>1 DEF Recorded, SaidOf
        <4>3. m <= said' /\ ~(m > said)  BY <1>3, <3>1, <4>2
        <4>. QED  BY <1>1, <1>4, <1>5, <3>2, <3>4, <4>2, <4>3
      <3>. QED  BY <1>2, <3>3, <3>4
    <2>2. ASSUME NEW i \in Places', NEW m \in Message, NEW f \in {Done(m), Stuck(m)},
                 f \in At(deferred', out', i)
          PROVE  /\ m <= said' /\ m \notin Held(project')
                 /\ \A j \in i..Len(deferred') : m \notin Held(Rec(deferred', disk', j))
      <3>1. m \in Nat  BY Numbers
      <3>2. CASE i = n + 1  BY <1>1, <1>6, <2>2, <3>2
      <3>3. CASE i \in 0..n
        <4>1. f \in At(deferred, out, i)  BY <1>1, <2>2, <3>3
        <4>2. /\ m <= said /\ m \notin Held(project)
              /\ \A j \in i..n : m \notin Held(Rec(deferred, disk, j))
          BY <1>2, <1>7, <3>3, <4>1 DEF Recorded, SaidOf
        <4>3. m <= said' /\ ~(m > said)  BY <1>3, <3>1, <4>2
        <4>. QED  BY <1>1, <1>4, <1>5, <3>3, <4>2, <4>3
      <3>. QED  BY <1>2, <3>2, <3>3
    <2>. QED  BY <2>1, <2>2 DEF SaidOf
  <1>11. Driven'
    <2>1. ASSUME NEW i \in Places', NEW e \in Driving, e \in At(deferred', out', i),
                 project'.mail # <<>>
          PROVE  \A j \in i..Len(deferred') :
                   Leads(Rec(deferred', disk', j), Head(project'.mail))
      <3>1. CASE i = n + 1  BY <1>1, <1>6, <2>1, <3>1 DEF Leads
      <3>2. CASE i \in 0..n
        <4>1. e \in At(deferred, out, i)  BY <1>1, <2>1, <3>2
        <4>2. project.mail # <<>> /\ Head(project'.mail) = Head(project.mail)
          BY <1>2, <2>1, <3>2, <4>1
        <4>3. \A j \in i..n : Leads(Rec(deferred, disk, j), Head(project.mail))
          BY <1>2, <1>7, <3>2, <4>1, <4>2 DEF Recorded, Driven
        <4>4. Leads(project', Head(project'.mail))  BY <2>1 DEF Leads
        <4>. QED  BY <1>1, <1>4, <1>5, <3>2, <4>2, <4>3, <4>4
      <3>. QED  BY <1>2, <3>1, <3>2
    <2>. QED  BY <2>1 DEF Driven
  <1>. QED  BY <1>8, <1>9, <1>10, <1>11 DEF Recorded

LEMMA WrittenPutting ==
  ASSUME Typed, Typed', Putting, NEW o, o \subseteq out, NEW E \in SUBSET Effect,
         Write(deferred, o, E), UNCHANGED <<disk, put>>, said <= said',
         turn'.stage # "None" =>
           UNCHANGED turn /\ (project'.watched => Leads(project', turn.message)),
         PutInHand', AsNew'
  PROVE  Putting'
  <1> DEFINE n == Len(deferred)
  <1>1. /\ n \in Nat /\ Len(deferred') = n + 1
        /\ \A i \in 0..n : Rec(deferred', disk', i) = Rec(deferred, disk, i)
        /\ Rec(deferred', disk', n + 1) = project'
    <2>1. project' \in Project  BY DEF Typed, Inner, Sound
    <2>. QED  BY <2>1, Appended
  <1>2. Places = 0..n /\ Places' = 0..(n + 1) /\ 0..(n + 1) = (0..n) \union {n + 1}
    BY <1>1 DEF Places
  <1>3. said \in Nat /\ said' \in Nat  BY DEF Typed, Outer
  <1> HIDE DEF n
  <1>4. Turned'
    <2>1. turn'.stage # "None" => turn.message \in Message /\ turn.message <= said'
      BY <1>3, Numbers DEF Putting, Turned
    <2>. QED  BY <1>1, <1>2, <2>1 DEF Putting, Turned
  <1>5. PutOnce'
    <2>1. ASSUME NEW m \in Message, put[m] > 0
          PROVE  /\ put[m] = 1 /\ m <= said'
                 /\ \A j \in Places' : m \in Held(Rec(deferred', disk', j)) =>
                      Head(Rec(deferred', disk', j).mail) = m
      <3>1. m \in Nat  BY Numbers
      <3>2. put[m] = 1 /\ m <= said /\ \A j \in 0..n : m \in Held(Rec(deferred, disk, j)) =>
              Head(Rec(deferred, disk, j).mail) = m
        BY <1>2, <2>1 DEF Putting, PutOnce
      <3>3. m \in Held(project') => Head(project'.mail) = m
        BY <2>1 DEF PutInHand
      <3>. QED  BY <1>1, <1>2, <1>3, <3>1, <3>2, <3>3
    <2>. QED  BY <2>1 DEF PutOnce
  <1>. QED  BY <1>4, <1>5 DEF Putting

\* With a turn, or nothing in hand, nothing is asked for.
LEMMA Unasked ==
  ASSUME Looping, turn.stage # "None" \/ (project.watched /\ project.mail = <<>>)
  PROVE  /\ \A i \in Places : \A e \in Driving : e \notin At(deferred, out, i)
         /\ project.watched /\ project.mail = <<>> => turn.stage = "None"
  <1>1. PICK S \in SUBSET Driving :
          /\ Carries(deferred, out, S)
          /\ Stands(project, turn, pending, read, stranded, S)
    BY DEF Looping
  <1>2. S = {} /\ (project.watched /\ project.mail = <<>> => turn.stage = "None")
    BY <1>1 DEF Stands
  <1>. QED  BY <1>1, <1>2 DEF Carries, Places

LEMMA SayAhead ==
  ASSUME Typed, Typed', Looping, Ahead, Say
  PROVE  Ahead'
  <1> DEFINE m == said + 1
             asks == IF Starts(project)
                       THEN LooksFirst(Receive(project, m), pending, read) ELSE {}
             E == {Seen(m)} \union asks
  <1>1. /\ said < MaxMessages /\ project.watched /\ said' = m
        /\ project' = Receive(project, m)
        /\ fate' = Becomes({m}, "Held")
        /\ Write(deferred, out, E)
        /\ UNCHANGED <<turn, interrupted, put, disk>>
    BY DEF Say
  <1>2. said \in Nat /\ m \in Message /\ m > said /\ m \in Nat /\ said <= said'
    BY <1>1, ForemanAssumption DEF Typed, Outer, Message
  <1>3. project \in Project /\ project' \in Project /\ Sound(project)
    BY Records DEF Typed, Inner, Sound
  <1>4. /\ project'.watched /\ project'.room /\ project'.mail # <<>>
        /\ project.mail # <<>> => Head(project'.mail) = Head(project.mail)
    BY <1>1, <1>2, <1>3, ReceiveSound DEF Ahead, Recorded, Roomy
  <1>5. /\ \A x \in Held(project') : x \in Held(project) \/ x = m
        /\ m \in Held(project') /\ \A x \in Held(project) : x \in Held(project')
        /\ Rising(project'.mail, said')
    <2>1. said < m  BY <1>2
    <2>. QED  BY <1>1, <1>2, <1>3, <2>1, HeldReceived DEF Ahead, Recorded, Sorted
  <1>6. \A e \in asks : e \in Driving /\ e # MakeRoom
    BY <1>1, <1>3, <1>4, AsksWith
  <1>7. /\ E \in SUBSET Effect /\ MakeRoom \notin E
        /\ \A x \in Message : /\ Seen(x) \in E => x = m
                              /\ Done(x) \notin E /\ Stuck(x) \notin E
    BY <1>2, <1>6, EffectTypes, Apart
  <1>8. \A x \in Message : fate'[x] = IF x = m THEN "Held" ELSE fate[x]
    BY <1>1 DEF Becomes
  <1> HIDE DEF E, asks, m
  <1>9. Fated'
    BY <1>5, <1>8 DEF Ahead, Recorded, Fated
  <1>10. project.mail = <<>> => \A i \in Places : \A e \in Driving : e \notin At(deferred, out, i)
    BY <1>1, Unasked
  <1>11. Recorded'
    <2>1. out \subseteq out  OBVIOUS
    <2>2. project'.watched => project.watched /\ project'.room  BY <1>1, <1>4
    <2>3. \A x \in Message :
           /\ fate'[x] = "Forgotten" => fate[x] = "Forgotten"
           /\ fate'[x] = "Held" => fate[x] = "Held" \/ x > said
           /\ x \in Held(project') => x \in Held(project) \/ x > said
           /\ Seen(x) \in E => x <= said' /\ fate'[x] # "Forgotten"
           /\ \A f \in {Done(x), Stuck(x)} : f \in E => x <= said' /\ x \notin Held(project')
      BY <1>1, <1>2, <1>5, <1>7, <1>8
    <2>4. project'.mail # <<>> /\ (\E i \in Places : \E e \in Driving : e \in At(deferred, out, i))
           => project.mail # <<>> /\ Head(project'.mail) = Head(project.mail)
      BY <1>4, <1>10
    <2>. QED  BY <1>1, <1>2, <1>5, <1>7, <1>9, <2>1, <2>2, <2>3, <2>4, WrittenRecorded DEF Ahead
  <1>12. PutInHand'
    <2>1. ASSUME NEW x \in Message, put[x] > 0, x \in Held(project')
          PROVE  x \in Held(project) /\ project.mail # <<>> /\ Head(project'.mail) = Head(project.mail)
      <3>1. x <= said  BY <2>1 DEF Ahead, Putting, PutOnce
      <3>2. x \in Held(project)  BY <1>2, <1>5, <2>1, <3>1
      <3>3. project.mail # <<>>  BY <3>2, HeldNone
      <3>. QED  BY <1>4, <3>2, <3>3
    <2>. QED  BY <1>1, <2>1 DEF Ahead, Putting, PutInHand
  <1>13. AsNew'  BY <1>1 DEF Ahead, Putting, AsNew
  <1>14. turn.stage # "None" => Leads(project', turn.message)
    BY <1>1, <1>4 DEF Ahead, Putting, Turned, Leads
  <1>15. Putting'
    <2>1. out \subseteq out  OBVIOUS
    <2>. QED  BY <1>1, <1>2, <1>7, <1>12, <1>13, <1>14, <2>1, WrittenPutting DEF Ahead
  <1>. QED  BY <1>11, <1>15 DEF Ahead

LEMMA EndedAhead ==
  ASSUME Typed, Typed', Looping, Ahead, turn.stage # "None",
         NEW answered \in BOOLEAN, Ended(answered), UNCHANGED <<disk, said>>
  PROVE  Ahead'
  <1>1. /\ turn' = NoTurn /\ interrupted' = FALSE /\ UNCHANGED put
    BY DEF Ended
  <1>2. turn'.stage = "None"  BY <1>1, NoTurnTyped
  <1>3. project \in Project /\ project' \in Project /\ Sound(project)
    BY Records DEF Typed, Inner, Sound
  <1>4. said \in Nat /\ said <= said'  BY DEF Typed, Outer
  <1>5. out \subseteq out  OBVIOUS
  <1>6. \A i \in Places : \A e \in Driving : e \notin At(deferred, out, i)  BY Unasked
  <1>7. AsNew'  BY <1>2 DEF AsNew, Commanding
  <1>8. CASE project.mail # <<>>
    <2> DEFINE h == Head(project.mail)
               asks == IF project'.mail # <<>>
                         THEN LooksFirst(project', pending, read) ELSE {}
               E == {IF answered THEN Done(h) ELSE Stuck(h)} \union asks
    <2>1. /\ project' = [project EXCEPT !.mail = Tail(@)]
          /\ fate' = Becomes({h}, IF answered THEN "Done" ELSE "Stuck")
          /\ Write(deferred, out, E)
      BY <1>8 DEF Ended
    <2>2. project'.watched = project.watched /\ project'.room = project.room /\ h \in Message
      BY <1>3, <1>8, <2>1, TailSound DEF Project
    <2>3. project.watched /\ project.room
      BY <1>3, <1>8 DEF Sound, Ahead, Recorded, Roomy
    <2>4. /\ h \in Held(project) /\ h <= said
          /\ \A x \in Held(project') : x \in Held(project) /\ x # h
          /\ Rising(project'.mail, said')
      <3>1. Rising(project.mail, said) /\ said' = said  BY DEF Ahead, Recorded, Sorted
      <3> DEFINE t == [project EXCEPT !.mail = Tail(@)]
      <3>2. /\ h \in Held(project) /\ h <= said
            /\ \A x \in Held(t) : x \in Held(project) /\ x # h
            /\ Rising(t.mail, said)
        BY <1>3, <1>4, <1>8, <3>1, HeldTail
      <3>3. project' = t  BY <2>1
      <3> HIDE DEF t, h
      <3>. QED  BY <3>1, <3>2, <3>3
    <2>5. \A e \in asks : e \in Driving /\ e # MakeRoom
      BY <1>3, <2>2, <2>3, AsksWith
    <2>6. /\ E \in SUBSET Effect /\ MakeRoom \notin E
          /\ \A x \in Message : /\ Seen(x) \notin E
                                /\ \A f \in {Done(x), Stuck(x)} : f \in E => x = h
      BY <2>2, <2>5, EffectTypes, Apart
    <2>7. \A x \in Message : fate'[x] = IF x = h THEN (IF answered THEN "Done" ELSE "Stuck")
                                        ELSE fate[x]
      BY <2>1 DEF Becomes
    <2> HIDE DEF E, asks, h
    <2>8. \A x \in Message : x = h => fate'[x] \notin {"Held", "Forgotten"}
      BY <2>7
    <2>9. \A x \in Message : x # h => fate'[x] = fate[x]  BY <2>7
    <2>10. \A x \in Held(project) : x = h \/ x \in Held(project')
      <3>1. project.mail \in Seq(Message) /\ Len(project.mail) \in Nat \ {0}
        BY <1>3, <1>8, EmptySeq DEF Project
      <3>2. project'.mail = Tail(project.mail)  BY <1>3, <2>1 DEF Project
      <3>3. /\ Len(project'.mail) = Len(project.mail) - 1 /\ h = project.mail[1]
            /\ \A i \in 1..Len(project'.mail) : project'.mail[i] = project.mail[i + 1]
        BY <1>8, <3>1, <3>2, HeadTailProperties DEF h
      <3>4. TAKE x \in Held(project)
      <3>5. PICK i \in 1..Len(project.mail) : x = project.mail[i]  BY DEF Held
      <3>6. CASE i = 1  BY <3>3, <3>5, <3>6
      <3>7. CASE i # 1
        <4>1. i - 1 \in 1..Len(project'.mail) /\ (i - 1) + 1 = i  BY <3>1, <3>3, <3>7
        <4>2. x = project'.mail[i - 1]  BY <3>3, <3>5, <4>1
        <4>. QED  BY <4>1, <4>2 DEF Held
      <3>. QED  BY <3>6, <3>7
    <2>11. Fated'
      BY <2>8, <2>9, <2>10 DEF Ahead, Recorded, Fated
    <2>12. Recorded'
      <3>1. \A x \in Message :
             /\ fate'[x] = "Forgotten" => fate[x] = "Forgotten"
             /\ fate'[x] = "Held" => fate[x] = "Held" \/ x > said
             /\ x \in Held(project') => x \in Held(project) \/ x > said
             /\ Seen(x) \in E => x <= said' /\ fate'[x] # "Forgotten"
             /\ \A f \in {Done(x), Stuck(x)} : f \in E => x <= said' /\ x \notin Held(project')
        BY <2>4, <2>6, <2>8, <2>9
      <3>2. project'.watched => project.watched /\ project'.room  BY <2>2, <2>3
      <3>. QED  BY <1>4, <1>5, <1>6, <2>1, <2>4, <2>6, <2>11, <3>1, <3>2, WrittenRecorded
                DEF Ahead
    <2>13. PutInHand'
      <3>1. ASSUME NEW x \in Message, put[x] > 0 PROVE x \notin Held(project')
        <4>1. x \in Held(project) => x = h
          BY <3>1 DEF Ahead, Putting, PutInHand, h
        <4>. QED  BY <2>4, <4>1
      <3>. QED  BY <1>1, <3>1 DEF PutInHand
    <2>14. Putting'
      BY <1>1, <1>2, <1>4, <1>5, <1>7, <2>1, <2>6, <2>13, WrittenPutting DEF Ahead
    <2>. QED  BY <2>12, <2>14 DEF Ahead
  <1>9. CASE project.mail = <<>>
    <2>1. UNCHANGED <<project, fate>> /\ Write(deferred, out, {})
      BY <1>9 DEF Ended
    <2>2. ~project.watched
      BY <1>9, Unasked
    <2>3. Held(project) = {}  BY <1>9, HeldNone
    <2>4. {} \in SUBSET Effect /\ \A x : x \notin {}  OBVIOUS
    <2> DEFINE E == {}
    <2>5. E \in SUBSET Effect /\ Write(deferred, out, E) /\ \A x : x \notin E
      BY <2>1
    <2> HIDE DEF E
    <2>6. Fated'  BY <2>1 DEF Ahead, Recorded, Fated
    <2>7. Rising(project'.mail, said')  BY <2>1 DEF Ahead, Recorded, Sorted
    <2>8. Recorded'
      BY <1>4, <1>5, <1>6, <2>1, <2>2, <2>5, <2>6, <2>7, WrittenRecorded DEF Ahead
    <2>9. PutInHand'  BY <2>1, <2>3 DEF PutInHand
    <2>10. Putting'
      BY <1>1, <1>2, <1>4, <1>5, <1>7, <2>5, <2>9, WrittenPutting DEF Ahead
    <2>. QED  BY <2>8, <2>10 DEF Ahead
  <1>. QED  BY <1>8, <1>9

LEMMA ForgetAhead ==
  ASSUME Typed, Typed', Looping, Ahead, Forget
  PROVE  Ahead'
  <1>1. /\ project' = Unwatched /\ fate' = Becomes(Held(project), "Dropped")
        /\ Write(deferred, out, {Discard})
        /\ UNCHANGED <<turn, interrupted, put, disk, said>>
    BY DEF Forget, memory, world
  <1>2. ~project'.watched /\ project'.mail = <<>>  BY <1>1 DEF Unwatched
  <1>3. Held(project') = {} /\ Rising(project'.mail, said')  BY <1>2, HeldNone
  <1>4. said \in Nat /\ said <= said'  BY <1>1 DEF Typed, Outer
  <1>5. out \subseteq out  OBVIOUS
  <1> DEFINE E == {Discard}
  <1>6. /\ E \in SUBSET Effect /\ MakeRoom \notin E
        /\ \A x \in Message : Seen(x) \notin E /\ Done(x) \notin E /\ Stuck(x) \notin E
    BY EffectTypes, Apart
  <1>7. Write(deferred, out, E)  BY <1>1
  <1> HIDE DEF E
  <1>8. \A x \in Message : fate'[x] # "Held" /\ (fate'[x] = "Forgotten" => fate[x] = "Forgotten")
    BY <1>1 DEF Becomes, Ahead, Recorded, Fated
  <1>9. Fated'  BY <1>8 DEF Fated
  <1>10. Recorded'
    <2>1. \A x \in Message :
           /\ fate'[x] = "Forgotten" => fate[x] = "Forgotten"
           /\ fate'[x] = "Held" => fate[x] = "Held" \/ x > said
           /\ x \in Held(project') => x \in Held(project) \/ x > said
           /\ Seen(x) \in E => x <= said' /\ fate'[x] # "Forgotten"
           /\ \A f \in {Done(x), Stuck(x)} : f \in E => x <= said' /\ x \notin Held(project')
      BY <1>3, <1>6, <1>8
    <2>. QED  BY <1>1, <1>2, <1>3, <1>4, <1>5, <1>6, <1>7, <1>9, <2>1, WrittenRecorded
              DEF Ahead
  <1>11. PutInHand'  BY <1>3 DEF PutInHand
  <1>12. AsNew'  BY <1>1 DEF Ahead, Putting, AsNew
  <1>13. Putting'
    BY <1>1, <1>2, <1>4, <1>5, <1>6, <1>7, <1>11, <1>12, WrittenPutting DEF Ahead
  <1>. QED  BY <1>10, <1>13 DEF Ahead

\* A turn goes on, or ends.
LEMMA TurnAhead ==
  ASSUME Typed, Typed', Looping, Ahead, CommandAnswered \/ Agent \/ ProcessEnded
  PROVE  Ahead'
  <1>1. UNCHANGED <<disk, said>>
    BY DEF CommandAnswered, Looked, Built, Made, Up, Agent, AgentReady, AgentAnswered,
           ProcessEnded, world
  <1>2. turn.stage # "None" /\ turn \in Turn
    BY DEF CommandAnswered, Looked, Built, Made, Up, Agent, AgentReady, AgentAnswered,
           ProcessEnded, Speaking, Typed, Inner
  <1>3. ASSUME NEW a \in BOOLEAN, Ended(a) PROVE Ahead'
    BY <1>1, <1>2, <1>3, EndedAhead
  <1> DEFINE Stays == /\ UNCHANGED <<project, interrupted, deferred, out, fate>>
                      /\ turn'.message = turn.message /\ turn'.again = turn.again
                      /\ turn'.stage # "None"
  <1>4. ASSUME Stays PROVE Recorded' /\ Turned' /\ Later
    <2>1. Later  BY <1>1, <1>4, SameLater
    <2>2. Recorded'  BY <1>1, <1>4, <2>1, LaterRecorded DEF Ahead
    <2>3. Turned'
      BY <1>1, <1>2, <1>4, <2>1 DEF Ahead, Putting, Turned, Later, Follows, Places
    <2>. QED  BY <2>1, <2>2, <2>3
  <1>5. ASSUME Stays, UNCHANGED put,
               turn.stage \in {"Prompting", "Closing"} => turn'.stage \in {"Prompting", "Closing"},
               turn'.stage \in Commanding \union {"Opening"} =>
                 turn.stage \in Commanding \union {"Opening"}
        PROVE  Ahead'
    <2>1. Recorded' /\ Turned' /\ Later  BY <1>4, <1>5
    <2>2. PutOnce'  BY <1>1, <1>5, <2>1 DEF Ahead, Putting, PutOnce, Later, Follows, Places
    <2>3. PutInHand'  BY <1>2, <1>5 DEF Ahead, Putting, PutInHand
    <2>4. AsNew'  BY <1>5 DEF Ahead, Putting, AsNew
    <2>. QED  BY <2>1, <2>2, <2>3, <2>4 DEF Ahead, Putting
  <1>6. ASSUME Stays, turn'.stage = "Prompting", ~turn.again, turn.stage = "Opening",
               put' = [put EXCEPT ![turn.message] = @ + 1]
        PROVE  Ahead'
    <2> DEFINE h == turn.message
    <2>1. Recorded' /\ Turned' /\ Later  BY <1>4, <1>6
    <2>2. put[h] = 0 /\ h \in Message /\ h <= said
      BY <1>2, <1>6 DEF Ahead, Putting, AsNew, Turned
    <2>3. put \in [Message -> Nat]  BY DEF Typed, Inner
    <2>4. \A x \in Message : put'[x] = IF x = h THEN 1 ELSE put[x]  BY <1>6, <2>2, <2>3
    <2>5. \A j \in Places : h \in Held(Rec(deferred, disk, j)) =>
            Leads(Rec(deferred, disk, j), h)
      <3>1. TAKE j \in Places
      <3>2. HAVE h \in Held(Rec(deferred, disk, j))
      <3>3. Rec(deferred, disk, j).mail # <<>>  BY <3>2, HeldNone
      <3>4. Rec(deferred, disk, j).watched  BY <3>3, Records DEF Sound
      <3>. QED  BY <1>2, <3>4 DEF Ahead, Putting, Turned
    <2>6. h \in Held(project) => Leads(project, h)
      <3>1. HAVE h \in Held(project)
      <3>2. project.mail # <<>>  BY <3>1, HeldNone
      <3>3. project.watched  BY <3>2, Records DEF Sound
      <3>. QED  BY <1>2, <3>3 DEF Ahead, Putting, Turned
    <2> HIDE DEF h
    <2>7. PutOnce'
      <3>1. \A x \in Message : put'[x] > 0 =>
              /\ put'[x] = 1 /\ x <= said
              /\ \A j \in Places : x \in Held(Rec(deferred, disk, j)) =>
                   Head(Rec(deferred, disk, j).mail) = x
        BY <2>2, <2>4, <2>5 DEF Ahead, Putting, PutOnce, Leads
      <3>. QED  BY <1>1, <2>1, <3>1 DEF PutOnce, Later, Follows, Places
    <2>8. PutInHand'
      BY <1>6, <2>4, <2>6 DEF Ahead, Putting, PutInHand, Leads
    <2>9. AsNew'  BY <1>6 DEF AsNew, Commanding
    <2>. QED  BY <2>1, <2>7, <2>8, <2>9 DEF Ahead, Putting
  <1>7. ASSUME NEW failed \in BOOLEAN, NEW stage \in Commanding \union {"Opening"},
               GoesOn(failed, stage), turn.stage \in Commanding
        PROVE  Ahead'
    <2>1. CASE failed
      BY <1>3, <1>7, <2>1 DEF GoesOn
    <2>2. CASE ~failed
      <3>1. turn' = [turn EXCEPT !.stage = stage] /\ UNCHANGED put
            /\ UNCHANGED <<project, interrupted, deferred, out, fate>>
        BY <1>7, <2>2 DEF GoesOn, Ended, history
      <3>2. turn'.stage = stage /\ turn'.message = turn.message /\ turn'.again = turn.again
        BY <1>2, <3>1 DEF Turn
      <3>3. stage \notin {"None", "Prompting", "Closing"}
            /\ turn.stage \notin {"Prompting", "Closing"}
        BY <1>7 DEF Commanding
      <3>4. Stays  BY <3>1, <3>2, <3>3
      <3>. QED  BY <1>5, <1>7, <3>1, <3>2, <3>3, <3>4
    <2>. QED  BY <2>1, <2>2
  <1>8. CASE CommandAnswered
    <2>1. PICK ok, charged \in BOOLEAN : Looked(ok) \/ Built(ok) \/ Made(ok) \/ Up(ok, charged)
      BY <1>8 DEF CommandAnswered
    <2>2. turn.stage \in Commanding
      BY <2>1 DEF Looked, Built, Made, Up, Commanding
    <2>3. \E failed \in BOOLEAN : \E stage \in Commanding \union {"Opening"} : GoesOn(failed, stage)
      <3>1. (IF ok THEN "Creating" ELSE "Building") \in Commanding
            /\ {"Creating", "Starting"} \subseteq Commanding
        BY DEF Commanding
      <3>2. CASE Looked(ok)  BY <3>1, <3>2 DEF Looked
      <3>3. CASE Built(ok)  BY <3>1, <3>3 DEF Built
      <3>4. CASE Made(ok)  BY <3>1, <3>4 DEF Made
      <3>5. CASE Up(ok, charged)  BY <3>5 DEF Up
      <3>. QED  BY <2>1, <3>2, <3>3, <3>4, <3>5
    <2>. QED  BY <1>7, <2>2, <2>3
  <1>9. CASE AgentReady
    <2>1. /\ turn' = [turn EXCEPT !.stage = "Prompting"] /\ turn.stage = "Opening"
          /\ UNCHANGED <<project, interrupted, deferred, out, fate>>
          /\ put' = IF turn.again THEN put ELSE [put EXCEPT ![turn.message] = @ + 1]
      BY <1>9 DEF AgentReady
    <2>2. turn'.stage = "Prompting" /\ turn'.message = turn.message /\ turn'.again = turn.again
      BY <1>2, <2>1 DEF Turn
    <2>3. Stays  BY <2>1, <2>2
    <2>4. CASE turn.again
      <3>1. UNCHANGED put  BY <2>1, <2>4
      <3>2. "Prompting" \notin Commanding \union {"Opening"}  BY DEF Commanding
      <3>. QED  BY <1>5, <2>2, <2>3, <3>1, <3>2
    <2>5. CASE ~turn.again  BY <1>6, <2>1, <2>2, <2>3, <2>5
    <2>. QED  BY <2>4, <2>5
  <1>10. CASE \E ok \in BOOLEAN : AgentAnswered(ok)
    <2>1. PICK ok \in BOOLEAN : AgentAnswered(ok)  BY <1>10
    <2>2. /\ turn' = [turn EXCEPT !.stage = "Closing", !.answered = ok]
          /\ UNCHANGED <<project, interrupted, deferred, out, fate, put>>
      BY <2>1 DEF AgentAnswered, history
    <2>3. turn'.stage = "Closing" /\ turn'.message = turn.message /\ turn'.again = turn.again
      BY <1>2, <2>2 DEF Turn
    <2>4. "Closing" \notin Commanding \union {"Opening"}  BY DEF Commanding
    <2>5. Stays /\ UNCHANGED put  BY <2>2, <2>3
    <2>. QED  BY <1>5, <2>3, <2>4, <2>5
  <1>11. CASE ProcessEnded
    <2>1. (turn.stage = "Closing" /\ turn.answered) \in BOOLEAN  BY <1>2 DEF Turn
    <2>2. Ended(turn.stage = "Closing" /\ turn.answered)  BY <1>11 DEF ProcessEnded
    <2>. QED  BY <1>3, <2>1, <2>2
  <1>. QED  BY <1>8, <1>9, <1>10, <1>11 DEF Agent

\* A room is never made again, so what is answered is a thread or the look at
\* the container.
LEMMA AskedAhead ==
  ASSUME Typed, Typed', Looping, Ahead, LookAnswered \/ ThreadAnswered
  PROVE  Ahead'
  <1>1. /\ UNCHANGED <<project, said, fate, put, deferred, disk>>
    BY DEF LookAnswered, ThreadAnswered, Inspected, ThreadRead, Release, history, world
  <1>2. CASE ThreadAnswered
    <2>1. PICK m \in Message : ThreadRead(m)  BY <1>2 DEF ThreadAnswered
    <2>2. /\ Read(m) \in out /\ UNCHANGED <<turn, interrupted>>
          /\ out' = (out \ {Read(m)}) \union (IF pending THEN {Inspect} ELSE {})
      BY <2>1 DEF ThreadRead, Release
    <2>3. Read(m) \in Driving  BY <2>1, EffectTypes DEF Driving
    <2>4. \A e \in out' : e \in out \/ (e = Inspect /\ \E f \in Driving : f \in out)
      BY <2>2, <2>3
    <2>5. Later  BY <1>1, <2>4, SameLater
    <2>. QED  BY <1>1, <2>2, <2>5, LaterRecorded, LaterPutting DEF Ahead
  <1>3. CASE LookAnswered
    <2>1. PICK present \in BOOLEAN : Inspected(present)  BY <1>3 DEF LookAnswered
    <2>2. Inspect \in out /\ out' = out \ {Inspect}
      BY <2>1 DEF Inspected, Release
    <2>3. Later
      <3>1. \A e \in out' : e \in out \/ (e = Inspect /\ \E f \in Driving : f \in out)
        BY <2>2
      <3>. QED  BY <1>1, <3>1, SameLater
    <2>4. Recorded'  BY <1>1, <2>3, LaterRecorded DEF Ahead
    <2>5. CASE UNCHANGED <<turn, interrupted>>
      BY <1>1, <2>3, <2>4, <2>5, LaterPutting DEF Ahead
    <2>6. CASE ~UNCHANGED <<turn, interrupted>>
      <3> DEFINE h == Head(project.mail)
      <3>1. /\ turn.stage = "None" /\ project.mail # <<>>
            /\ turn' = [NoTurn EXCEPT !.stage = IF present THEN "Starting" ELSE "Looking",
                                      !.message = h, !.shown = read, !.again = interrupted]
        BY <2>1, <2>6 DEF Inspected
      <3>2. /\ turn'.stage \in Commanding /\ turn'.message = h /\ turn'.again = interrupted
            /\ turn'.stage # "None"
        BY <3>1, NoTurnTyped DEF NoTurn, Commanding
      <3>3. \A j \in Places : Leads(Rec(deferred, disk, j), h)
        <4>1. Inspect \in Driving /\ Inspect \in At(deferred, out, 0) /\ 0 \in Places
          BY <2>2, EffectTypes, Places2 DEF Driving, At
        <4>. QED  BY <3>1, <4>1 DEF Ahead, Recorded, Driven, Places
      <3>4. Leads(project, h) /\ h \in Held(project)
        BY <3>1, Records, HeadHeld DEF Leads
      <3>5. h \in Message /\ h <= said
        BY <3>4, Records, HeldSaid DEF Ahead, Recorded, Sorted, Typed, Outer
      <3> HIDE DEF h
      <3>6. Turned'
        <4>1. /\ h \in Message /\ h <= said /\ Leads(project, h)
              /\ \A j \in Places : Leads(Rec(deferred, disk, j), h)
          BY <3>3, <3>4, <3>5
        <4>. QED  BY <1>1, <2>3, <3>2, <4>1 DEF Turned, Later, Follows, Places
      <3>7. PutOnce'
        BY <1>1, <2>3 DEF Ahead, Putting, PutOnce, Later, Follows, Places
      <3>8. PutInHand'  BY <1>1, <3>1, <3>2 DEF Ahead, Putting, PutInHand
      <3>9. put[h] > 0 => interrupted
        BY <3>1, <3>4, <3>5 DEF Ahead, Putting, PutInHand
      <3>10. AsNew'
        <4>1. put[h] \in Nat  BY <3>5 DEF Typed, Inner
        <4>. QED  BY <1>1, <3>2, <3>9, <4>1 DEF AsNew
      <3>. QED  BY <2>4, <3>6, <3>7, <3>8, <3>10 DEF Ahead, Putting
    <2>. QED  BY <2>5, <2>6
  <1>. QED  BY <1>2, <1>3

LEMMA RestAhead ==
  ASSUME Typed, Typed', Ahead, HaltAnswered \/ Settle \/ ListAnswered \/ DiscardAnswered
  PROVE  Ahead'
  <1>1. /\ UNCHANGED <<project, turn, interrupted, said, fate, put, deferred, disk>>
        /\ out' \subseteq out
    BY DEF HaltAnswered, Halted, Settle, ListAnswered, Named, Labelled, DiscardAnswered,
           Discarded, memory, history, world
  <1>2. \A e \in out' : e \in out \/ (e = Inspect /\ \E f \in Driving : f \in out)
    BY <1>1
  <1>3. Later  BY <1>1, <1>2, SameLater
  <1>. QED  BY <1>1, <1>3, LaterRecorded, LaterPutting DEF Ahead

LEMMA DiskAhead ==
  ASSUME Typed, Typed', Ahead, WriteAnswered
  PROVE  Ahead'
  <1>1. deferred # <<>>  BY DEF WriteAnswered, Landed, Unwritten
  <1>2. MakeRoom \notin Head(deferred).effects
    <2>1. deferred \in Seq(Deferred)  BY DEF Typed, Inner, Snaps
    <2>2. Len(deferred) \in Nat \ {0} /\ At(deferred, out, 1) = Head(deferred).effects
      BY <1>1, <2>1, TailAt
    <2>3. 1 \in Places  BY <2>2 DEF Places
    <2>. QED  BY <2>2, <2>3 DEF Ahead, Recorded, Roomy
  <1>3. /\ UNCHANGED <<project, turn, interrupted, said, fate, put>>
        /\ deferred' = Tail(deferred)
        /\ \/ disk' = Head(deferred).snap /\ out' = out \union Head(deferred).effects
           \/ disk' = disk /\ out' = out
    <2>1. CASE Landed
      BY <2>1 DEF Landed, Release, memory, history
    <2>2. CASE Unwritten
      BY <1>2, <2>2 DEF Unwritten, Release
    <2>. QED  BY <2>1, <2>2 DEF WriteAnswered
  <1>4. Later  BY <1>1, <1>3, LandedLater
  <1>. QED  BY <1>3, <1>4, LaterRecorded, LaterPutting DEF Ahead

LEMMA RoomAhead ==
  ASSUME Typed, Ahead
  PROVE  ~RoomAnswered
  <1>1. MakeRoom \notin out
    BY Places2 DEF Ahead, Recorded, Roomy, At
  <1>. QED  BY <1>1 DEF RoomAnswered, RoomMade, RoomRefused

\* Whichever record had reached the disk is the one that is woken to.
LEMMA RestartAhead ==
  ASSUME Typed, Typed', Ahead, Restart
  PROVE  Ahead'
  <1> DEFINE picks == PicksUp(project')
             out2 == (out \intersect Facts) \union
                     (IF ~project'.watched /\ container' # "None" THEN {Discard} ELSE {})
  <1>1. /\ turn' = NoTurn /\ interrupted' = (project'.mail # <<>>)
        /\ disk' = project' /\ UNCHANGED <<said, put>>
        /\ deferred' = Append(<<>>, [snap |-> project', effects |-> picks])
        /\ out' = out2
        /\ fate' = [m \in Message |->
                     IF m \in Held(project') THEN "Held"
                     ELSE IF fate[m] = "Held" THEN "Forgotten" ELSE fate[m]]
    BY DEF Restart, Write, Interrupted
  <1>2. PICK j \in Places : project' = Rec(deferred, disk, j)
    <2>1. disk' = disk \/ \E i \in DOMAIN deferred : disk' = deferred[i].snap
      BY DEF Restart
    <2>2. DOMAIN deferred = 1..Len(deferred)  BY DEF Typed, Inner, Snaps
    <2>3. CASE disk' = disk
      <3>1. project' = Rec(deferred, disk, 0)  BY <1>1, <2>3 DEF Rec
      <3>. QED  BY <3>1, Places2
    <2>4. ASSUME NEW i \in 1..Len(deferred), disk' = deferred[i].snap
          PROVE  \E k \in Places : project' = Rec(deferred, disk, k)
      <3>1. i \in Places /\ i # 0  BY Records DEF Places
      <3>2. project' = Rec(deferred, disk, i)  BY <1>1, <2>4, <3>1 DEF Rec
      <3>. QED  BY <3>1, <3>2
    <2>. QED  BY <2>1, <2>2, <2>3, <2>4
  <1>3. project' \in Project /\ Sound(project')  BY <1>2, Records
  <1>4. project'.watched => project'.room  BY <1>2 DEF Ahead, Recorded, Roomy
  <1>5. \A e \in picks : e \in Driving /\ e # MakeRoom
    <2>1. CASE project'.mail = <<>>  BY <2>1 DEF PicksUp
    <2>2. CASE project'.mail # <<>>
      <3>1. project'.room  BY <1>3, <1>4, <2>2 DEF Sound
      <3>2. picks = LooksFirst(project', FALSE, NoMessage)  BY <2>2 DEF PicksUp
      <3>. QED  BY <1>3, <3>1, <3>2, AsksWith
    <2>. QED  BY <2>1, <2>2
  <1>6. picks \in SUBSET Effect  BY <1>5, EffectTypes
  <1> HIDE DEF picks
  <1>7. Len(deferred') = 1 /\ deferred'[1].snap = project' /\ deferred'[1].effects = picks
    BY <1>1, <1>3, <1>6 DEF Deferred
  <1>8. Places' = {0, 1}  BY <1>7 DEF Places
  <1>9. \A i \in {0, 1} : Rec(deferred', disk', i) = project'
    BY <1>1, <1>7 DEF Rec
  <1>10. At(deferred', out', 0) = out2 /\ At(deferred', out', 1) = picks
    BY <1>1, <1>7 DEF At
  <1>11. \A e \in out2 : (e \in out /\ e \in Facts) \/ e = Discard  OBVIOUS
  <1> HIDE DEF out2
  <1>12. Roomy'
    <2>1. MakeRoom \notin out2 /\ MakeRoom \notin picks  BY <1>5, <1>11, Apart
    <2>. QED  BY <1>4, <1>8, <1>9, <1>10, <2>1 DEF Roomy
  <1>13. Sorted'
    <2>1. Rising(project'.mail, said')  BY <1>1, <1>2 DEF Ahead, Recorded, Sorted
    <2>. QED  BY <1>8, <1>9, <2>1 DEF Sorted
  <1>14. Fated'  BY <1>1 DEF Fated
  <1>15. SaidOf'
    <2>1. ASSUME NEW i \in Places', NEW m \in Message,
                 NEW e \in {Seen(m), Done(m), Stuck(m)}, e \in At(deferred', out', i)
          PROVE  e \in At(deferred, out, 0) /\ 0 \in Places /\ j \in 0..Len(deferred)
      <3>1. e \notin picks /\ e # Discard  BY <1>5, Apart
      <3>2. e \in out  BY <1>8, <1>10, <1>11, <2>1, <3>1
      <3>. QED  BY <3>2, Places2 DEF At, Places
    <2>2. ASSUME NEW i \in Places', NEW m \in Message, Seen(m) \in At(deferred', out', i)
          PROVE  /\ m <= said' /\ fate'[m] # "Forgotten"
                 /\ fate'[m] = "Held" =>
                      \A k \in i..Len(deferred') : m \in Held(Rec(deferred', disk', k))
      <3>1. Seen(m) \in At(deferred, out, 0) /\ 0 \in Places /\ j \in 0..Len(deferred)
        BY <2>1, <2>2
      <3>2. m <= said /\ fate[m] # "Forgotten" /\ (fate[m] = "Held" => m \in Held(project'))
        BY <1>2, <3>1 DEF Ahead, Recorded, SaidOf
      <3>3. fate'[m] # "Forgotten" /\ (fate'[m] = "Held" => m \in Held(project'))
        BY <1>1, <3>2
      <3>4. \A k \in i..Len(deferred') : k \in {0, 1}  BY <1>7, <1>8
      <3>. QED  BY <1>1, <1>9, <3>2, <3>3, <3>4
    <2>3. ASSUME NEW i \in Places', NEW m \in Message, NEW f \in {Done(m), Stuck(m)},
                 f \in At(deferred', out', i)
          PROVE  /\ m <= said' /\ m \notin Held(project')
                 /\ \A k \in i..Len(deferred') : m \notin Held(Rec(deferred', disk', k))
      <3>1. f \in At(deferred, out, 0) /\ 0 \in Places /\ j \in 0..Len(deferred)
        BY <2>1, <2>3
      <3>2. m <= said /\ m \notin Held(project')
        BY <1>2, <3>1 DEF Ahead, Recorded, SaidOf
      <3>3. \A k \in i..Len(deferred') : k \in {0, 1}  BY <1>7, <1>8
      <3>. QED  BY <1>1, <1>9, <3>2, <3>3
    <2>. QED  BY <2>2, <2>3 DEF SaidOf
  <1>16. Driven'
    <2>1. \A i \in Places' : \A k \in i..Len(deferred') : k \in {0, 1}  BY <1>7, <1>8
    <2>. QED  BY <1>9, <2>1 DEF Driven, Leads
  <1>17. turn'.stage = "None"  BY <1>1, NoTurnTyped
  <1>18. Turned' /\ AsNew'  BY <1>17 DEF Turned, AsNew, Commanding
  <1>19. PutOnce'
    <2>1. \A m \in Message : put'[m] > 0 =>
            put'[m] = 1 /\ m <= said' /\ (m \in Held(project') => Head(project'.mail) = m)
      BY <1>1, <1>2 DEF Ahead, Putting, PutOnce
    <2>. QED  BY <1>8, <1>9, <2>1 DEF PutOnce
  <1>20. PutInHand'
    <2>1. ASSUME NEW m \in Message, put'[m] > 0, m \in Held(project')
          PROVE  Head(project'.mail) = m /\ interrupted'
      <3>1. project'.mail # <<>>  BY <2>1, HeldNone
      <3>2. Head(project'.mail) = m  BY <1>1, <1>2, <2>1 DEF Ahead, Putting, PutOnce
      <3>. QED  BY <1>1, <3>1, <3>2
    <2>. QED  BY <1>17, <2>1 DEF PutInHand
  <1>. QED  BY <1>12, <1>13, <1>14, <1>15, <1>16, <1>18, <1>19, <1>20
            DEF Ahead, Recorded, Putting

LEMMA InitAhead ==
  ASSUME Housed, Init
  PROVE  Ahead
  <1>1. /\ project.watched /\ project.room /\ project.mail = <<>> /\ disk = project
        /\ deferred = <<>> /\ out = {} /\ turn.stage = "None"
        /\ fate = [m \in Message |-> "Unsaid"] /\ put = [m \in Message |-> 0]
    <2>1. PICK made \in Rooms : project = [watched |-> TRUE, room |-> made, mail |-> <<>>]
      BY DEF Init
    <2>2. made = TRUE  BY DEF Housed
    <2>3. project.watched /\ project.room /\ project.mail = <<>>  BY <2>1, <2>2
    <2>4. /\ disk = project /\ deferred = <<>> /\ out = {} /\ turn = NoTurn
          /\ fate = [m \in Message |-> "Unsaid"] /\ put = [m \in Message |-> 0]
      BY DEF Init
    <2>. QED  BY <2>3, <2>4, NoTurnTyped
  <1>2. Places = {0} /\ Rec(deferred, disk, 0) = project /\ At(deferred, out, 0) = {}
    BY <1>1, EmptySeq DEF Places, Rec, At
  <1>3. Roomy /\ Fated /\ SaidOf /\ Driven
    BY <1>1, <1>2 DEF Roomy, Fated, SaidOf, Driven
  <1>4. Sorted  BY <1>1, <1>2, HeldNone DEF Sorted
  <1>5. Turned /\ PutOnce /\ PutInHand /\ AsNew
    BY <1>1 DEF Turned, PutOnce, PutInHand, AsNew, Commanding
  <1>. QED  BY <1>3, <1>4, <1>5 DEF Ahead, Recorded, Putting

LEMMA NextAhead ==
  ASSUME Typed, Looping, Ahead, [Next]_vars
  PROVE  Ahead'
  <1>0. Typed'  BY NextTyped
  <1>1. CASE UNCHANGED vars
    <2>1. UNCHANGED <<project, turn, interrupted, deferred, disk, out, said, fate, put>>
      BY <1>1 DEF vars, memory, history, world
    <2>2. \A e \in out' : e \in out \/ (e = Inspect /\ \E f \in Driving : f \in out)
      BY <2>1
    <2>3. Later  BY <2>1, <2>2, SameLater
    <2>. QED  BY <1>0, <2>1, <2>3, LaterRecorded, LaterPutting DEF Ahead
  <1>. QED  BY <1>0, <1>1, SayAhead, ForgetAhead, RoomAhead, AskedAhead, TurnAhead,
               RestAhead, DiskAhead, RestartAhead DEF Next, Person

\* The invariant of the records: what is said, asked for and begun is so in the
\* record it waits on and in each one after, so a crash that brings any of them
\* back contradicts nothing (the end of step and written,
\* instance/src/lib.rs).
THEOREM AheadInvariance == Housed => (Spec => []Ahead)
  <1> SUFFICES ASSUME Housed PROVE Spec => []Ahead  OBVIOUS
  <1>1. Init => Typed /\ Looping /\ Ahead
    BY InitTyped, InitLoops, InitAhead
  <1>2. Typed /\ Looping /\ Ahead /\ [Next]_vars => (Typed /\ Looping /\ Ahead)'
    BY NextTyped, NextLoops, NextAhead
  <1>. QED  BY <1>1, <1>2, PTL DEF Spec

\* Nothing is said of a message, and no turn begun on it, that a crash would
\* undo: the eyes reaction is put on no message that is lost after, none said to
\* be done is done again, and the inbox a turn starts from is on the disk.
THEOREM WrittenFirst == Housed => (Spec => []WriteAhead)
  <1> SUFFICES ASSUME Housed PROVE Spec => []WriteAhead  OBVIOUS
  <1>1. Typed /\ Ahead => WriteAhead
    <2> SUFFICES ASSUME Typed, Ahead PROVE WriteAhead  OBVIOUS
    <2>1. 0 \in Places /\ At(deferred, out, 0) = out /\ Rec(deferred, disk, 0) = disk
          /\ 0 \in 0..Len(deferred)
      BY Places2 DEF At, Rec, Places
    <2>2. SaidIsTrue  BY <2>1 DEF Ahead, Recorded, SaidOf, SaidIsTrue
    <2>3. TurnIsOnDisk
      <3>1. ASSUME turn.stage \in {"Starting", "Looking"}, project.watched
            PROVE  turn.message \in Held(disk)
        <4>1. disk.watched  BY <2>1, <3>1 DEF Ahead, Recorded, Roomy
        <4>2. Leads(disk, turn.message)  BY <2>1, <3>1, <4>1 DEF Ahead, Putting, Turned
        <4>. QED  BY <2>1, <4>2, Records, HeadHeld
      <3>. QED  BY <3>1 DEF TurnIsOnDisk
    <2>. QED  BY <2>2, <2>3 DEF WriteAhead
  <1>. QED  BY <1>1, Invariance, AheadInvariance, PTL

\* A message is put to the foreman's agent as new once, whatever a crash repeats
\* (interrupted and pick_up, instance/src/foreman.rs).
THEOREM PutAsNewOnce == Housed => (Spec => []NeverTwiceAsNew)
  <1> SUFFICES ASSUME Housed PROVE Spec => []NeverTwiceAsNew  OBVIOUS
  <1>1. Typed /\ Ahead => NeverTwiceAsNew
    <2> SUFFICES ASSUME Typed, Ahead, NEW m \in Message PROVE put[m] <= 1
      BY DEF NeverTwiceAsNew
    <2>1. put[m] \in Nat  BY DEF Typed, Inner
    <2>. QED  BY <2>1 DEF Ahead, Putting, PutOnce
  <1>. QED  BY <1>1, Invariance, AheadInvariance, PTL

=============================================================================
