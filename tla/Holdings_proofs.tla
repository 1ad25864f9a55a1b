-------------------------- MODULE Holdings_proofs --------------------------
(***************************************************************************)
(* Theorems about what is held and shown, for every value of the constants *)
(* each names.                                                             *)
(*                                                                         *)
(* Each part has an inductive invariant of its own, shown below to hold at *)
(* first and to be kept by its steps; a step of one part is none of        *)
(* another's.                                                              *)
(***************************************************************************)
EXTENDS Holdings, SequenceTheorems, TLAPS

----------------------------------------------------------------------------
(* Images, of one instance on its runtime, its answers read in any order and  *)
(* its builds going on without it: what its release uses is removed by no      *)
(* sweep, and what was said to be there still is.                              *)

OneHost == \A i, j \in Hosts : i = j

Commands == [kind  : {"Present", "Build", "Create", "Discard", "Images", "RemoveImage"},
             by    : Hosts \union {I!None}, about : Turning \union {I!None}, image : Nat]
Answers == [to : Commands, fine : BOOLEAN, names : SUBSET I!Digests]

\* What asks for an image asks for the one its turn's recipe names; what is told
\* to go is none the release uses.
AsUsed(at_release, c) ==
  /\ c.by \in Hosts
  /\ c.kind \in {"Present", "Build", "Create"} =>
       /\ c.about \in Turning /\ c.by = HostOf[c.about]
       /\ c.image = Recipes[at_release[c.by]][c.about]
  /\ c.kind = "RemoveImage" => c.image \in I!Digests \ I!keeping(at_release[c.by])

\* What is told is told by who still is, or is a build that outlived who asked for
\* it; a container is asked for from what is there.
IsToldAsUsed(at_release, held, c) ==
  /\ c \in Commands
  /\ IF c.by = I!None THEN c.kind = "Build" ELSE AsUsed(at_release, c)
  /\ c.kind = "Create" => held[c.image] # 0

\* What was said to be there, or built, is.
IsSoSaid(at_release, held, reply) ==
  /\ reply \in Answers /\ AsUsed(at_release, reply.to)
  /\ reply.to.kind \in {"Present", "Build"} /\ reply.fine => held[reply.to.image] # 0

\* Who waits on a build uses its image.
WaitsAsUsed(waiting) ==
  /\ waiting \in [Hosts \X I!Digests -> SUBSET Turning]
  /\ \A i \in Hosts, m \in I!Digests : \A s \in waiting[<<i, m>>] :
       HostOf[s] = i /\ Recipes[release[i]][s] = m

ImagesHeld ==
  /\ release \in [Hosts -> I!Releases] /\ images \in [I!Digests -> Nat] /\ copies \in Nat
  /\ replies \in [Hosts -> Seq(Answers)]
  /\ WaitsAsUsed(builds)
  /\ \A c \in runtime : IsToldAsUsed(release, images, c)
  /\ \A i \in Hosts : \A n \in 1..Len(replies[i]) : IsSoSaid(release, images, replies[i][n])

LEMMA ImagesAssumed ==
  /\ HostOf \in [Turning -> Hosts] /\ I!Digests \subseteq Nat /\ 1 \in I!Releases
  /\ I!None \notin Hosts
  /\ \A r \in I!Releases : Recipes[r] \in [Turning -> Nat] /\ I!keeping(r) \subseteq I!Digests
  /\ \A r \in I!Releases, s \in Turning : Recipes[r][s] \in I!keeping(r)
<1>1. /\ HostOf \in [Turning -> Hosts] /\ 1 \in I!Releases /\ I!None \notin Hosts
      /\ \A r \in I!Releases : Recipes[r] \in [Turning -> Nat \ {0}]
  BY HoldingsAssumption DEF I!ImagesAssumption
<1>2. \A r \in I!Releases, s \in Turning : Recipes[r][s] \in I!keeping(r)
  BY DEF I!keeping
<1>3. \A r \in I!Releases : I!keeping(r) \subseteq I!Digests /\ I!keeping(r) \subseteq Nat
  BY <1>1 DEF I!keeping, I!Digests
<1>4. I!Digests \subseteq Nat
  BY <1>3 DEF I!Digests
<1> QED
  BY <1>1, <1>2, <1>3, <1>4

LEMMA ImagesBegin == ASSUME I!Init PROVE ImagesHeld
<1>1. /\ release \in [Hosts -> I!Releases] /\ images \in [I!Digests -> Nat] /\ copies \in Nat
      /\ replies \in [Hosts -> Seq(Answers)] /\ \A i \in Hosts : Len(replies[i]) = 0
  BY ImagesAssumed DEF I!Init
<1>2. WaitsAsUsed(builds)
  BY DEF I!Init, WaitsAsUsed
<1> QED
  BY <1>1, <1>2 DEF I!Init, ImagesHeld

\* What a turn asks for is the image its recipe names, which its release keeps.
LEMMA AsUsedIs ==
  ASSUME ImagesHeld, NEW c \in Commands, AsUsed(release, c),
         c.kind \in {"Present", "Build", "Create"}
  PROVE  c.by \in Hosts /\ c.image \in I!Digests /\ c.image \in I!keeping(release[c.by])
<1>1. c.by \in Hosts /\ c.about \in Turning /\ c.image = Recipes[release[c.by]][c.about]
  BY DEF AsUsed
<1>2. release[c.by] \in I!Releases
  BY <1>1 DEF ImagesHeld
<1> QED
  BY <1>1, <1>2, ImagesAssumed

\* A step under the same release that takes nothing away that it uses, tells and is
\* told only what holds, and reads what was said in any order.
LEMMA ImagesKept ==
  ASSUME ImagesHeld, UNCHANGED release,
         images' \in [I!Digests -> Nat], copies' \in Nat, WaitsAsUsed(builds'),
         \A i \in Hosts : \A m \in I!keeping(release[i]) : images[m] # 0 => images'[m] # 0,
         \A c \in runtime' : c \in runtime \/ IsToldAsUsed(release, images', c),
         replies' \in [Hosts -> Seq(Answers)],
         \A i \in Hosts : \A n \in 1..Len(replies'[i]) :
           \/ \E k \in 1..Len(replies[i]) : replies'[i][n] = replies[i][k]
           \/ IsSoSaid(release, images', replies'[i][n])
  PROVE  ImagesHeld'
<1>1. ASSUME NEW c \in Commands, AsUsed(release, c), c.kind \in {"Present", "Build", "Create"},
             images[c.image] # 0
      PROVE  images'[c.image] # 0
  BY <1>1, AsUsedIs
<1>2. ASSUME NEW c \in runtime' PROVE IsToldAsUsed(release, images', c)
  <2>1. CASE c \in runtime
    <3>1. IsToldAsUsed(release, images, c)
      BY <2>1 DEF ImagesHeld
    <3> QED
      BY <3>1, <1>1 DEF IsToldAsUsed
  <2> QED
    BY <2>1
<1>3. ASSUME NEW i \in Hosts, NEW n \in 1..Len(replies'[i])
      PROVE  IsSoSaid(release, images', replies'[i][n])
  <2>1. ASSUME NEW k \in 1..Len(replies[i]), replies'[i][n] = replies[i][k]
        PROVE  IsSoSaid(release, images', replies'[i][n])
    <3>1. IsSoSaid(release, images, replies[i][k])
      BY DEF ImagesHeld
    <3>2. replies[i][k].to \in Commands
      BY <3>1 DEF IsSoSaid, Answers
    <3> QED
      BY <2>1, <3>1, <3>2, <1>1 DEF IsSoSaid
  <2> QED
    BY <2>1
<1>4. release' = release /\ release \in [Hosts -> I!Releases]
  BY DEF ImagesHeld
<1>5. WaitsAsUsed(builds)'
  BY <1>4 DEF WaitsAsUsed
<1>6. \A c \in runtime' : IsToldAsUsed(release, images, c)'
  BY <1>2, <1>4 DEF IsToldAsUsed
<1>7. \A i \in Hosts : \A n \in 1..Len(replies'[i]) : IsSoSaid(release', images', replies'[i][n])
  BY <1>3, <1>4
<1> QED
  BY <1>4, <1>5, <1>6, <1>7 DEF ImagesHeld

\* Who waits on a build waits on it still, or for another step's sake.
LEMMA WaitStill == ASSUME ImagesHeld, UNCHANGED <<builds, release>> PROVE WaitsAsUsed(builds')
BY DEF ImagesHeld, WaitsAsUsed

\* A step that tells the runtime more, of images that stay as they are.
LEMMA Telling ==
  ASSUME ImagesHeld, UNCHANGED <<release, images, copies>>, WaitsAsUsed(builds'),
         NEW X, runtime' = runtime \union X, \A c \in X : IsToldAsUsed(release, images, c),
         replies' \in [Hosts -> Seq(Answers)],
         \A i \in Hosts : \A n \in 1..Len(replies'[i]) :
           \E k \in 1..Len(replies[i]) : replies'[i][n] = replies[i][k]
  PROVE  ImagesHeld'
<1>1. images' \in [I!Digests -> Nat] /\ copies' \in Nat /\ images' = images /\ release' = release
  BY DEF ImagesHeld
<1>2. \A i \in Hosts : \A m \in I!keeping(release[i]) : images[m] # 0 => images'[m] # 0
  BY <1>1
<1>3. \A c \in runtime' : c \in runtime \/ IsToldAsUsed(release, images', c)
  BY <1>1
<1> QED
  BY <1>1, <1>2, <1>3, ImagesKept

LEMMA OnlyTelling ==
  ASSUME ImagesHeld, UNCHANGED <<release, images, copies, builds, replies>>,
         NEW X, runtime' = runtime \union X, \A c \in X : IsToldAsUsed(release, images, c)
  PROVE  ImagesHeld'
<1>1. /\ replies' \in [Hosts -> Seq(Answers)]
      /\ \A i \in Hosts : \A n \in 1..Len(replies'[i]) :
           \E k \in 1..Len(replies[i]) : replies'[i][n] = replies[i][k]
  BY DEF ImagesHeld
<1>2. WaitsAsUsed(builds')
  BY WaitStill
<1> QED
  BY <1>1, <1>2, Telling

LEMMA AskingHeld ==
  ASSUME ImagesHeld, NEW s \in Turning, NEW kind \in {"Present", "Build", "Create", "Discard"}
  PROVE  /\ I!Asking(kind, s) \in Commands /\ AsUsed(release, I!Asking(kind, s))
         /\ I!Asking(kind, s).kind = kind /\ I!Asking(kind, s).by = HostOf[s]
         /\ I!Asking(kind, s).image = Recipes[release[HostOf[s]]][s]
         /\ HostOf[s] \in Hosts /\ HostOf[s] # I!None
<1>1. HostOf[s] \in Hosts /\ release[HostOf[s]] \in I!Releases /\ HostOf[s] # I!None
  BY ImagesAssumed DEF ImagesHeld
<1>2. Recipes[release[HostOf[s]]][s] \in Nat
  BY <1>1, ImagesAssumed
<1> QED
  BY <1>1, <1>2 DEF I!Asking, I!Told, Commands, AsUsed

\* Anything but a container can be asked for, and a container from what is there.
LEMMA AskingIsTold ==
  ASSUME ImagesHeld, NEW s \in Turning, NEW kind \in {"Present", "Build", "Create", "Discard"},
         kind = "Create" => images[Recipes[release[HostOf[s]]][s]] # 0
  PROVE  IsToldAsUsed(release, images, I!Asking(kind, s))
<1> DEFINE c == I!Asking(kind, s)
<1>1. /\ c \in Commands /\ AsUsed(release, c) /\ c.kind = kind /\ c.by # I!None
      /\ c.image = Recipes[release[HostOf[s]]][s]
  BY AskingHeld
<1> HIDE DEF c
<1>2. IsToldAsUsed(release, images, c)
  BY <1>1 DEF IsToldAsUsed
<1> QED
  BY <1>2 DEF c

LEMMA TurnBegins == ASSUME ImagesHeld, NEW s \in Turning, I!turn(s) PROVE ImagesHeld'
<1> DEFINE X == {I!Asking("Present", s)}
<1>1. \A c \in X : IsToldAsUsed(release, images, c)
  BY AskingIsTold
<1>2. runtime' = runtime \union X
  BY DEF I!turn
<1> HIDE DEF X
<1> QED
  BY <1>1, <1>2, OnlyTelling DEF I!turn

LEMMA TurnStopped == ASSUME ImagesHeld, NEW s \in Turning, I!stop_turn(s) PROVE ImagesHeld'
<1> DEFINE X == {c \in Commands : FALSE}
<1>1. runtime' = runtime \union X /\ \A c \in X : IsToldAsUsed(release, images, c)
  BY DEF I!stop_turn
<1> HIDE DEF X
<1> QED
  BY <1>1, OnlyTelling DEF I!stop_turn

LEMMA Retired == ASSUME ImagesHeld, NEW s \in Turning, I!retire(s) PROVE ImagesHeld'
<1> DEFINE L == I!Told("Images", HostOf[s], s, 0)
           X == {I!Asking("Discard", s), L}
<1>1. IsToldAsUsed(release, images, L)
  BY AskingHeld DEF IsToldAsUsed, I!Told, Commands, AsUsed
<1>2. IsToldAsUsed(release, images, I!Asking("Discard", s))
  BY AskingIsTold
<1>3. \A c \in X : IsToldAsUsed(release, images, c)
  BY <1>1, <1>2
<1>4. runtime' = runtime \union X
  BY DEF I!retire
<1> HIDE DEF X
<1> QED
  BY <1>3, <1>4, OnlyTelling DEF I!retire

----------------------------------------------------------------------------
(* What is read of what the runtime said, in any order. *)

LEMMA ReadAny ==
  ASSUME ImagesHeld, NEW i \in Hosts, NEW n \in 1..Len(replies[i]),
         replies' = [replies EXCEPT ![i] = I!RemoveAt(@, n)]
  PROVE  /\ replies' \in [Hosts -> Seq(Answers)]
         /\ \A j \in Hosts : \A m \in 1..Len(replies'[j]) :
              \E k \in 1..Len(replies[j]) : replies'[j][m] = replies[j][k]
<1> DEFINE q == replies[i]
           before == SubSeq(q, 1, n - 1)
           after == SubSeq(q, n + 1, Len(q))
<1>1. replies \in [Hosts -> Seq(Answers)] /\ q \in Seq(Answers) /\ Len(q) \in Nat /\ n \in Nat /\ n > 0
  BY DEF ImagesHeld
<1>2. /\ before \in Seq(Answers) /\ Len(before) = n - 1
      /\ \A k \in 1..Len(before) : before[k] = q[k]
  <2>1. \A k \in 1..n - 1 : q[k] \in Answers
    BY <1>1
  <2> QED
    BY <1>1, <2>1, SubSeqProperties
<1>3. /\ after \in Seq(Answers) /\ Len(after) = Len(q) - n
      /\ \A k \in 1..Len(after) : after[k] = q[k + n]
  <2>1. \A k \in n + 1..Len(q) : q[k] \in Answers
    BY <1>1
  <2> QED
    BY <1>1, <2>1, SubSeqProperties
<1> HIDE DEF before, after
<1>4. I!RemoveAt(q, n) = before \o after
  BY DEF I!RemoveAt, before, after
<1>5. before \o after \in Seq(Answers)
  BY <1>2, <1>3
<1>6. ASSUME NEW m \in 1..Len(before \o after)
      PROVE  \E k \in 1..Len(q) : (before \o after)[m] = q[k]
  <2>1. CASE m <= Len(before)
    BY <2>1, <1>1, <1>2, <1>3, <1>6
  <2>2. CASE m > Len(before)
    <3>1. m + 1 \in 1..Len(q) /\ m - Len(before) \in 1..Len(after) /\ (m - Len(before)) + n = m + 1
      BY <2>2, <1>1, <1>2, <1>3, <1>6
    <3>2. (before \o after)[m] = after[m - Len(before)]
      BY <2>2, <1>2, <1>3, <1>6
    <3> QED
      BY <3>1, <3>2, <1>3
  <2> QED
    BY <2>1, <2>2, <1>2, <1>6
<1>7. /\ replies' \in [Hosts -> Seq(Answers)] /\ replies'[i] = before \o after
      /\ \A j \in Hosts : j # i => replies'[j] = replies[j]
  BY <1>1, <1>4, <1>5
<1>8. ASSUME NEW j \in Hosts, NEW m \in 1..Len(replies'[j])
      PROVE  \E k \in 1..Len(replies[j]) : replies'[j][m] = replies[j][k]
  BY <1>6, <1>7
<1> QED
  BY <1>7, <1>8

LEMMA Reading ==
  ASSUME ImagesHeld, NEW i \in Hosts, NEW n \in 1..Len(replies[i]),
         replies' = [replies EXCEPT ![i] = I!RemoveAt(@, n)],
         WaitsAsUsed(builds'), NEW X, runtime' = runtime \union X,
         \A c \in X : IsToldAsUsed(release, images, c), UNCHANGED <<release, images, copies>>
  PROVE  ImagesHeld'
<1>1. replies' \in [Hosts -> Seq(Answers)]
  BY ReadAny
<1>2. \A j \in Hosts : \A m \in 1..Len(replies'[j]) :
        \E k \in 1..Len(replies[j]) : replies'[j][m] = replies[j][k]
  BY ReadAny
<1> QED
  BY <1>1, <1>2, Telling

LEMMA LookedAt ==
  ASSUME ImagesHeld, NEW i \in Hosts, NEW n \in 1..Len(replies[i]),
         replies' = [replies EXCEPT ![i] = I!RemoveAt(@, n)],
         replies[i][n].to.kind = "Present", I!looked(replies[i][n]),
         UNCHANGED <<release, images, copies>>
  PROVE  ImagesHeld'
<1> DEFINE reply == replies[i][n]
           s == reply.to.about
<1>1. /\ reply \in Answers /\ reply.to \in Commands /\ AsUsed(release, reply.to)
      /\ reply.fine => images[reply.to.image] # 0
  BY DEF ImagesHeld, IsSoSaid, Answers
<1>2. /\ s \in Turning /\ HostOf[s] \in Hosts /\ reply.to.by = HostOf[s]
      /\ reply.to.image = Recipes[release[HostOf[s]]][s] /\ reply.to.image \in I!Digests
  BY <1>1, AsUsedIs DEF AsUsed
<1>3. CASE s \in halting
  <2> DEFINE X == {c \in Commands : FALSE}
  <2>1. runtime' = runtime \union X /\ UNCHANGED builds /\ \A c \in X : IsToldAsUsed(release, images, c)
    BY <1>3 DEF I!looked
  <2>2. WaitsAsUsed(builds')
    BY <2>1, WaitStill
  <2> HIDE DEF X
  <2> QED
    BY <2>1, <2>2, Reading
<1>4. CASE s \notin halting /\ reply.fine
  <2> DEFINE X == {I!Asking("Create", s)}
  <2>1. runtime' = runtime \union X /\ UNCHANGED builds
    <3>1. {s} \ halting = {s}
      BY <1>4
    <3>2. runtime' = runtime \union {I!Asking("Create", t) : t \in {s} \ halting} /\ UNCHANGED builds
      BY <1>4 DEF I!looked, I!make
    <3>3. {I!Asking("Create", t) : t \in {s} \ halting} = {I!Asking("Create", s)}
      BY <3>1
    <3> QED
      BY <3>2, <3>3
  <2>2. \A c \in X : IsToldAsUsed(release, images, c)
    BY <1>1, <1>2, <1>4, AskingIsTold
  <2>3. WaitsAsUsed(builds')
    BY <2>1, WaitStill
  <2> HIDE DEF X
  <2> QED
    BY <2>1, <2>2, <2>3, Reading
<1>5. CASE s \notin halting /\ ~reply.fine
  <2> DEFINE a == <<HostOf[s], reply.to.image>>
             X == {c \in {I!Asking("Build", s)} : builds[a] = {}}
  <2>1. runtime' = runtime \union X /\ builds' = [builds EXCEPT ![a] = @ \union {s}]
    BY <1>5, Zenon DEF I!looked, I!build
  <2>2. \A c \in X : IsToldAsUsed(release, images, c)
    BY <1>2, AskingIsTold
  <2>3. WaitsAsUsed(builds')
    <3>1. a \in Hosts \X I!Digests /\ builds \in [Hosts \X I!Digests -> SUBSET Turning]
      BY <1>2 DEF ImagesHeld, WaitsAsUsed
    <3>2. /\ builds' \in [Hosts \X I!Digests -> SUBSET Turning] /\ builds'[a] = builds[a] \union {s}
          /\ \A b \in Hosts \X I!Digests : b # a => builds'[b] = builds[b]
      BY <1>2, <2>1, <3>1, Zenon
    <3>3. ASSUME NEW j \in Hosts, NEW m \in I!Digests, NEW t \in builds'[<<j, m>>]
          PROVE  HostOf[t] = j /\ Recipes[release[j]][t] = m
      <4>1. CASE t \in builds[<<j, m>>]
        BY <4>1 DEF ImagesHeld, WaitsAsUsed
      <4>2. CASE t \notin builds[<<j, m>>]
        <5>1. <<j, m>> = a /\ t = s
          BY <3>2, <3>3, <4>2
        <5> QED
          BY <5>1, <1>2
      <4> QED
        BY <4>1, <4>2
    <3> QED
      BY <3>2, <3>3 DEF WaitsAsUsed
  <2> HIDE DEF X
  <2> QED
    BY <2>1, <2>2, <2>3, Reading
<1> QED
  BY <1>3, <1>4, <1>5

LEMMA BuiltRead ==
  ASSUME ImagesHeld, NEW i \in Hosts, NEW n \in 1..Len(replies[i]),
         replies' = [replies EXCEPT ![i] = I!RemoveAt(@, n)],
         replies[i][n].to.kind = "Build", I!built(replies[i][n]),
         UNCHANGED <<release, images, copies>>
  PROVE  ImagesHeld'
<1> DEFINE reply == replies[i][n]
           m == reply.to.image
           a == <<reply.to.by, m>>
           X == {I!Asking("Create", s) : s \in {t \in builds[a] \ halting : reply.fine}}
<1>1. /\ reply \in Answers /\ reply.to \in Commands /\ AsUsed(release, reply.to)
      /\ reply.fine => images[m] # 0
  BY DEF ImagesHeld, IsSoSaid, Answers
<1>2. reply.to.by \in Hosts /\ m \in I!Digests
  BY <1>1, AsUsedIs
<1>3. builds' = [builds EXCEPT ![a] = {}] /\ runtime' = runtime \union X
  <2>1. CASE reply.fine
    <3>1. {t \in builds[a] \ halting : reply.fine} = builds[a] \ halting
      BY <2>1
    <3>2. /\ builds' = [builds EXCEPT ![a] = {}]
          /\ runtime' = runtime \union {I!Asking("Create", s) : s \in builds[a] \ halting}
      BY <2>1 DEF I!built, I!make
    <3> QED
      BY <3>1, <3>2
  <2>2. CASE ~reply.fine
    <3>1. builds' = [builds EXCEPT ![a] = {}] /\ runtime' = runtime
      BY <2>2 DEF I!built
    <3>2. X = {}
      BY <2>2
    <3> QED
      BY <3>1, <3>2
  <2> QED
    BY <2>1, <2>2, Zenon
<1>4. \A c \in X : IsToldAsUsed(release, images, c)
  <2> SUFFICES ASSUME NEW s \in builds[a], reply.fine
               PROVE  IsToldAsUsed(release, images, I!Asking("Create", s))
    OBVIOUS
  <2>1. s \in Turning /\ HostOf[s] = reply.to.by /\ Recipes[release[reply.to.by]][s] = m
    BY <1>2 DEF ImagesHeld, WaitsAsUsed
  <2> QED
    BY <2>1, <1>1, AskingIsTold
<1>5. WaitsAsUsed(builds')
  <2>1. a \in Hosts \X I!Digests /\ builds \in [Hosts \X I!Digests -> SUBSET Turning]
    BY <1>2 DEF ImagesHeld, WaitsAsUsed
  <2>2. /\ builds' \in [Hosts \X I!Digests -> SUBSET Turning]
        /\ \A b \in Hosts \X I!Digests : builds'[b] \subseteq builds[b]
    BY <1>3, <2>1
  <2>3. \A j \in Hosts, k \in I!Digests : \A t \in builds'[<<j, k>>] :
          HostOf[t] = j /\ Recipes[release[j]][t] = k
    <3> SUFFICES ASSUME NEW j \in Hosts, NEW k \in I!Digests, NEW t \in builds'[<<j, k>>]
                 PROVE  HostOf[t] = j /\ Recipes[release[j]][t] = k
      OBVIOUS
    <3>1. <<j, k>> \in Hosts \X I!Digests
      OBVIOUS
    <3>2. t \in builds[<<j, k>>]
      BY <3>1, <2>2, Zenon
    <3> QED
      BY <3>2 DEF ImagesHeld, WaitsAsUsed
  <2> QED
    BY <2>2, <2>3 DEF WaitsAsUsed
<1> HIDE DEF X
<1> QED
  BY <1>3, <1>4, <1>5, Reading

\* What is listed and none of this release's is told to go.
LEMMA ListedRead ==
  ASSUME ImagesHeld, NEW i \in Hosts, NEW n \in 1..Len(replies[i]),
         replies' = [replies EXCEPT ![i] = I!RemoveAt(@, n)],
         I!Images(replies[i][n]), UNCHANGED <<release, images, copies>>
  PROVE  ImagesHeld'
<1> DEFINE reply == replies[i][n]
           by == reply.to.by
           X == {I!Told("RemoveImage", by, I!None, m) : m \in I!reclaimed(release[by], reply.names)}
<1>1. by \in Hosts /\ by # I!None /\ reply.names \subseteq I!Digests
  BY ImagesAssumed DEF ImagesHeld, IsSoSaid, Answers, AsUsed
<1>2. \A c \in X : IsToldAsUsed(release, images, c)
  <2> SUFFICES ASSUME NEW m \in reply.names \ I!keeping(release[by])
               PROVE  IsToldAsUsed(release, images, I!Told("RemoveImage", by, I!None, m))
    BY DEF I!reclaimed
  <2>1. m \in Nat /\ m \in I!Digests \ I!keeping(release[by])
    BY <1>1, ImagesAssumed, Zenon
  <2> QED
    BY <1>1, <2>1 DEF IsToldAsUsed, AsUsed, Commands, I!Told
<1>3. runtime' = runtime \union X /\ UNCHANGED builds
  BY DEF I!Images
<1>4. WaitsAsUsed(builds')
  BY <1>3, WaitStill
<1> HIDE DEF X
<1> QED
  BY <1>2, <1>3, <1>4, Reading

LEMMA ReadKept == ASSUME ImagesHeld, I!Read PROVE ImagesHeld'
<1> PICK i \in Hosts : \E n \in 1..Len(replies[i]) :
      /\ LET reply == replies[i][n] IN
           \/ reply.to.kind = "Present" /\ I!looked(reply)
           \/ reply.to.kind = "Build" /\ I!built(reply)
           \/ reply.to.kind = "Create" /\ I!Created(reply)
           \/ reply.to.kind = "Images" /\ I!Images(reply)
           \/ reply.to.kind = "Discard" /\ UNCHANGED <<step, halting, builds, runtime>>
      /\ replies' = [replies EXCEPT ![i] = I!RemoveAt(@, n)]
      /\ UNCHANGED <<release, images, copies>>
  BY Zenon DEF I!Read
<1> PICK n \in 1..Len(replies[i]) :
      /\ LET reply == replies[i][n] IN
           \/ reply.to.kind = "Present" /\ I!looked(reply)
           \/ reply.to.kind = "Build" /\ I!built(reply)
           \/ reply.to.kind = "Create" /\ I!Created(reply)
           \/ reply.to.kind = "Images" /\ I!Images(reply)
           \/ reply.to.kind = "Discard" /\ UNCHANGED <<step, halting, builds, runtime>>
      /\ replies' = [replies EXCEPT ![i] = I!RemoveAt(@, n)]
      /\ UNCHANGED <<release, images, copies>>
  BY Zenon
<1> DEFINE X == {c \in Commands : FALSE}
<1>1. runtime = runtime \union X /\ \A c \in X : IsToldAsUsed(release, images, c)
  OBVIOUS
<1> HIDE DEF X
<1>2. CASE UNCHANGED <<builds, runtime>>
  <2>1. WaitsAsUsed(builds')
    BY <1>2, WaitStill
  <2> QED
    BY <1>1, <1>2, <2>1, Reading
<1> QED
  BY <1>2, LookedAt, BuiltRead, ListedRead, Zenon DEF I!Created

----------------------------------------------------------------------------
(* What the runtime does, and a restart. *)

\* What is said to the instance that asked stands last; or nothing is said, to one
\* that is gone, or of an image told to go.
LEMMA SaysIt ==
  ASSUME ImagesHeld, NEW c \in runtime, NEW fine \in BOOLEAN, NEW names \in SUBSET I!Digests,
         I!Replies(c, fine, names), images' \in [I!Digests -> Nat], copies' \in Nat,
         \A i \in Hosts : \A m \in I!keeping(release[i]) : images[m] # 0 => images'[m] # 0,
         c.kind \in {"Present", "Build"} /\ c.by # I!None /\ fine => images'[c.image] # 0
  PROVE  ImagesHeld'
<1> DEFINE reply == [to |-> c, fine |-> fine, names |-> names]
<1>1. c \in Commands /\ (c.by # I!None => AsUsed(release, c)) /\ replies \in [Hosts -> Seq(Answers)]
  BY DEF ImagesHeld, IsToldAsUsed
<1>2. /\ runtime' = runtime \ {c} /\ UNCHANGED <<release, builds>>
      /\ replies' = IF c.by = I!None \/ c.kind = "RemoveImage" THEN replies
                    ELSE [replies EXCEPT ![c.by] = Append(@, reply)]
  BY DEF I!Replies
<1>3. reply \in Answers /\ reply.to = c /\ reply.fine = fine
  BY <1>1 DEF Answers
<1>4. c.by # I!None => IsSoSaid(release, images', reply)
  BY <1>1, <1>3 DEF IsSoSaid
<1> HIDE DEF reply
<1>5. /\ replies' \in [Hosts -> Seq(Answers)]
      /\ \A i \in Hosts : \A n \in 1..Len(replies'[i]) :
           \/ \E k \in 1..Len(replies[i]) : replies'[i][n] = replies[i][k]
           \/ IsSoSaid(release, images', replies'[i][n])
  <2>1. CASE c.by = I!None \/ c.kind = "RemoveImage"
    BY <1>1, <1>2, <2>1
  <2>2. CASE ~(c.by = I!None \/ c.kind = "RemoveImage")
    <3>1. c.by \in Hosts /\ replies[c.by] \in Seq(Answers)
      BY <1>1, <2>2 DEF AsUsed
    <3>2. /\ replies' \in [Hosts -> Seq(Answers)] /\ replies'[c.by] = Append(replies[c.by], reply)
          /\ \A i \in Hosts : i # c.by => replies'[i] = replies[i]
      BY <1>1, <1>2, <1>3, <2>2, <3>1
    <3>3. ASSUME NEW n \in 1..Len(replies'[c.by])
          PROVE  \/ \E k \in 1..Len(replies[c.by]) : replies'[c.by][n] = replies[c.by][k]
                 \/ replies'[c.by][n] = reply
      BY <3>1, <3>2, <3>3, <1>3
    <3> QED
      BY <1>4, <2>2, <3>2, <3>3
  <2> QED
    BY <2>1, <2>2
<1>6. WaitsAsUsed(builds')
  BY <1>2, WaitStill
<1>7. \A b \in runtime' : b \in runtime \/ IsToldAsUsed(release, images', b)
  BY <1>2
<1>8. UNCHANGED release
  BY <1>2
<1> QED
  BY <1>5, <1>6, <1>7, <1>8, ImagesKept

LEMMA DoesKept ==
  ASSUME OneHost, ImagesHeld, NEW c \in runtime, I!Does(c)
  PROVE  ImagesHeld'
<1>a. /\ images \in [I!Digests -> Nat] /\ copies \in Nat
      /\ {} \in SUBSET I!Digests /\ {n \in I!Digests : images[n] # 0} \in SUBSET I!Digests
  BY DEF ImagesHeld
<1>b. c \in Commands /\ IF c.by = I!None THEN c.kind = "Build" ELSE AsUsed(release, c)
  BY DEF ImagesHeld, IsToldAsUsed
<1>1. CASE UNCHANGED <<images, copies>> /\ (\E fine \in BOOLEAN, names \in SUBSET I!Digests :
             /\ I!Replies(c, fine, names)
             /\ c.kind \in {"Present", "Build"} /\ fine => images[c.image] # 0)
  BY <1>1, <1>a, SaysIt
<1>2. CASE I!Looks(c)
  <2>1. (images[c.image] # 0) \in BOOLEAN
    OBVIOUS
  <2> QED
    BY <1>1, <1>2, <2>1, <1>a DEF I!Looks
<1>3. CASE I!Builds(c)
  <2>1. CASE I!Replies(c, FALSE, {}) /\ UNCHANGED <<images, copies>>
    BY <1>1, <2>1, <1>a
  <2>2. CASE /\ copies' = copies + 1 /\ images' = [images EXCEPT ![c.image] = copies + 1]
             /\ I!Replies(c, TRUE, {})
    <3>1. /\ images' \in [I!Digests -> Nat] /\ copies' \in Nat
          /\ \A n \in I!Digests : images[n] # 0 => images'[n] # 0
      <4>1. copies + 1 \in Nat /\ copies + 1 # 0
        BY <1>a
      <4>2. \A n \in I!Digests : images'[n] = IF n = c.image THEN copies + 1 ELSE images[n]
        BY <2>2, <1>a
      <4>3. images' \in [I!Digests -> Nat]
        BY <2>2, <4>1, <1>a
      <4> QED
        BY <2>2, <4>1, <4>2, <4>3
    <3>2. c.by # I!None => images'[c.image] # 0
      <4>1. c.by # I!None => c.image \in I!Digests
        BY <1>3, <1>b, AsUsedIs DEF I!Builds
      <4> QED
        BY <4>1, <2>2, <1>a
    <3>3. \A i \in Hosts : \A m \in I!keeping(release[i]) : images[m] # 0 => images'[m] # 0
      BY <3>1, ImagesAssumed DEF ImagesHeld
    <3>4. c.kind \in {"Present", "Build"} /\ c.by # I!None /\ TRUE => images'[c.image] # 0
      BY <3>2
    <3> QED
      BY <2>2, <3>1, <3>3, <3>4, <1>a, SaysIt
  <2> QED
    BY <1>3, <2>1, <2>2, Zenon DEF I!Builds
<1>4. CASE I!Creates(c)
  <2>1. (images[c.image] # 0) \in BOOLEAN
    OBVIOUS
  <2> QED
    BY <1>1, <1>4, <2>1, <1>a DEF I!Creates
<1>5. CASE I!Discards(c)
  BY <1>1, <1>5, <1>a DEF I!Discards
<1>6. CASE I!Lists(c)
  BY <1>1, <1>6, <1>a DEF I!Lists
<1>7. CASE I!Removes(c)
  <2>1. /\ I!Replies(c, ~I!Used(c.image), {}) /\ c.kind = "RemoveImage"
        /\ images' = IF I!Used(c.image) THEN images ELSE [images EXCEPT ![c.image] = 0]
        /\ UNCHANGED copies
    BY <1>7 DEF I!Removes
  <2>2. c.by \in Hosts /\ c.image \in I!Digests \ I!keeping(release[c.by])
    BY <2>1, <1>b DEF AsUsed
  <2>3. /\ images' \in [I!Digests -> Nat] /\ copies' \in Nat
        /\ \A m \in I!Digests : m # c.image => images'[m] = images[m]
    BY <2>1, <1>a, Zenon
  <2>4. \A i \in Hosts : \A m \in I!keeping(release[i]) : images[m] # 0 => images'[m] # 0
    <3> SUFFICES ASSUME NEW i \in Hosts, NEW m \in I!keeping(release[i]) PROVE images'[m] = images[m]
      BY Zenon
    <3>1. i = c.by /\ m # c.image
      BY <2>2 DEF OneHost
    <3>2. m \in I!Digests
      BY ImagesAssumed DEF ImagesHeld
    <3> QED
      BY <2>3, <3>1, <3>2
  <2>5. (~I!Used(c.image)) \in BOOLEAN
    OBVIOUS
  <2>6. c.kind \in {"Present", "Build"} /\ c.by # I!None /\ ~I!Used(c.image) => images'[c.image] # 0
    BY <2>1
  <2> QED
    BY <2>1, <2>3, <2>4, <2>5, <2>6, <1>a, SaysIt
<1> QED
  BY <1>2, <1>3, <1>4, <1>5, <1>6, <1>7 DEF I!Does

\* Of what was told before only builds outlive what told it, and they take nothing
\* away; what is told again is of containers and not of images.
LEMMA RestartsKept ==
  ASSUME OneHost, ImagesHeld, NEW i \in Hosts, I!Restarts(i)
  PROVE  ImagesHeld'
<1>1. /\ UNCHANGED <<images, copies>> /\ release' \in [Hosts -> I!Releases]
      /\ \A j \in Hosts : j = i
  <2>1. release \in [Hosts -> I!Releases]
    BY DEF ImagesHeld
  <2>2. \E r \in I!Releases : release' = [release EXCEPT ![i] = r]
    BY Zenon DEF I!Restarts
  <2> QED
    BY <2>1, <2>2 DEF I!Restarts, OneHost
<1>2. replies' = [j \in Hosts |-> <<>>]
  BY <1>1, Zenon DEF I!Restarts, ImagesHeld
<1>3. builds' = [a \in Hosts \X I!Digests |-> {}]
  <2>1. DOMAIN builds = Hosts \X I!Digests
    BY DEF ImagesHeld, WaitsAsUsed
  <2>2. \A a \in Hosts \X I!Digests : a[1] = i
    BY <1>1
  <2> QED
    BY <2>1, <2>2 DEF I!Restarts
<1>4. ASSUME NEW c \in runtime' PROVE IsToldAsUsed(release', images', c)
  <2>1. \/ c \in runtime /\ c.by # i
        \/ \E b \in runtime : b.kind = "Build" /\ c = [b EXCEPT !.by = I!None]
        \/ \E s \in Turning : c = I!Asking("Discard", s)
        \/ c = I!Told("Images", i, I!None, 0)
    BY DEF I!Restarts
  <2>2. CASE c \in runtime /\ c.by # i
    <3>1. IsToldAsUsed(release, images, c)
      BY <2>2 DEF ImagesHeld
    <3>2. c \in Commands /\ c.by = I!None /\ c.kind = "Build"
      BY <3>1, <2>2, <1>1 DEF IsToldAsUsed, AsUsed
    <3> QED
      BY <3>2 DEF IsToldAsUsed
  <2>3. ASSUME NEW b \in runtime, b.kind = "Build", c = [b EXCEPT !.by = I!None]
        PROVE  IsToldAsUsed(release', images', c)
    <3>1. b \in Commands
      BY DEF ImagesHeld, IsToldAsUsed
    <3>2. c \in Commands /\ c.by = I!None /\ c.kind = "Build"
      BY <3>1, <2>3 DEF Commands
    <3> QED
      BY <3>2 DEF IsToldAsUsed
  <2>4. ASSUME NEW s \in Turning, c = I!Asking("Discard", s)
        PROVE  IsToldAsUsed(release', images', c)
    <3>1. c \in Commands /\ c.by \in Hosts /\ c.by # I!None /\ c.kind = "Discard"
      BY <2>4, AskingHeld
    <3> QED
      BY <3>1 DEF IsToldAsUsed, AsUsed
  <2>5. CASE c = I!Told("Images", i, I!None, 0)
    BY <2>5, ImagesAssumed DEF IsToldAsUsed, AsUsed, I!Told, Commands
  <2> QED
    BY <2>1, <2>2, <2>3, <2>4, <2>5
<1>5. WaitsAsUsed(builds)'
  BY <1>3 DEF WaitsAsUsed
<1>6. images' \in [I!Digests -> Nat] /\ copies' \in Nat
  BY <1>1 DEF ImagesHeld
<1>7. replies' \in [Hosts -> Seq(Answers)] /\ \A j \in Hosts : Len(replies'[j]) = 0
  BY <1>2
<1> QED
  BY <1>1, <1>4, <1>5, <1>6, <1>7 DEF ImagesHeld

LEMMA ImagesNext == ASSUME OneHost, ImagesHeld, I!Next PROVE ImagesHeld'
BY TurnBegins, TurnStopped, Retired, RestartsKept, ReadKept, DoesKept DEF I!Next

----------------------------------------------------------------------------
(* Configuration. What a state says, apart from who may change it.           *)

Projected ==
  [status : {"Watched"}, foreman : Payers, kits : SUBSET Payers, repository : STRING,
   access : C!Accesses, binding : C!Bindings, job : C!Jobs]
Readings ==
  [foreman : Payers, kits : SUBSET Payers, repository : STRING,
   access : C!Accesses, binding : C!Bindings]
Standings == Projected \union {C!Unwatched, C!Forgotten}
Apps == [key : Nat, installations : SUBSET Installations]
ChannelApps ==
  [client : Clients \union {C!None}, ear : Ears \union {C!None}, workspaces : SUBSET Workspaces]

StateTyped(s) ==
  s \in [purses : SUBSET Payers, projects : [Trackable -> Standings],
         app : Apps, channelApp : ChannelApps]

\* What a project's jobs may be started on is held, and what they run on.
KitsAreHeld(s) == \A p \in C!Watched(s) : s.projects[p].kits \subseteq s.purses
PaidIn(s) == \A p \in C!Unfinished(s) : s.projects[p].job.purse \in s.purses

LEMMA StateParts ==
  ASSUME NEW s, StateTyped(s)
  PROVE  /\ s.purses \subseteq Payers /\ s.projects \in [Trackable -> Standings]
         /\ s.app \in Apps /\ s.channelApp \in ChannelApps
BY DEF StateTyped

LEMMA WatchedIs ==
  ASSUME NEW s, StateTyped(s), NEW p
  PROVE  /\ p \in C!Watched(s) <=> p \in Trackable /\ s.projects[p].status = "Watched"
         /\ p \in C!Watched(s) <=> p \in Trackable /\ s.projects[p] \in Projected
         /\ p \in C!Unfinished(s) <=>
              p \in C!Watched(s) /\ s.projects[p].job.progress # "Retired"
<1>1. p \in Trackable => s.projects[p] \in Standings
  BY StateParts
<1>2. C!Unwatched.status # "Watched" /\ C!Forgotten.status # "Watched"
  BY DEF C!Unwatched, C!Forgotten
<1>3. \A x \in Projected : x.status = "Watched"
  BY DEF Projected
<1> QED
  BY <1>1, <1>2, <1>3 DEF C!Watched, C!Unfinished, Standings

\* A state with one part of it another.
Put(s, p, x) == [s EXCEPT !.projects[p] = x]

\* What is said of it: named, so that a proof that cites the lemma says it of one.
Placed(s, p, x) ==
  /\ StateTyped(Put(s, p, x)) /\ Put(s, p, x).purses = s.purses
  /\ Put(s, p, x).app = s.app /\ Put(s, p, x).channelApp = s.channelApp
  /\ Put(s, p, x).projects = [s.projects EXCEPT ![p] = x]
  /\ Put(s, p, x).projects[p] = x
  /\ \A q \in Trackable : q # p => Put(s, p, x).projects[q] = s.projects[q]

LEMMA ProjectSet ==
  ASSUME NEW s, StateTyped(s), NEW p \in Trackable, NEW x \in Standings
  PROVE  Placed(s, p, x)
<1> DEFINE t == [s EXCEPT !.projects[p] = x]
<1>1. s.projects \in [Trackable -> Standings]
  BY StateParts
<1>2. /\ t.purses = s.purses /\ t.app = s.app /\ t.channelApp = s.channelApp
      /\ t.projects = [s.projects EXCEPT ![p] = x]
  BY DEF StateTyped
<1>3. t.projects \in [Trackable -> Standings]
  BY <1>1, <1>2
<1>4. StateTyped(t)
  BY <1>3 DEF StateTyped
<1>5. t = Put(s, p, x)
  BY DEF Put
<1> HIDE DEF t
<1> QED
  BY <1>1, <1>2, <1>4, <1>5 DEF Placed

LEMMA PursesSet ==
  ASSUME NEW s, StateTyped(s), NEW x \in SUBSET Payers, NEW t, t = [s EXCEPT !.purses = x]
  PROVE  /\ StateTyped(t) /\ t.purses = x /\ t.app = s.app
         /\ t.channelApp = s.channelApp /\ t.projects = s.projects
BY DEF StateTyped

LEMMA AppSet ==
  ASSUME NEW s, StateTyped(s), NEW x \in Apps, NEW t, t = [s EXCEPT !.app = x]
  PROVE  /\ StateTyped(t) /\ t.purses = s.purses /\ t.app = x
         /\ t.channelApp = s.channelApp /\ t.projects = s.projects
BY DEF StateTyped

LEMMA ChannelAppSet ==
  ASSUME NEW s, StateTyped(s), NEW x \in ChannelApps, NEW t, t = [s EXCEPT !.channelApp = x]
  PROVE  /\ StateTyped(t) /\ t.purses = s.purses /\ t.app = s.app
         /\ t.channelApp = x /\ t.projects = s.projects
BY DEF StateTyped

\* Where the projects and purses stay, what is said of them does.
LEMMA SameProjects ==
  ASSUME NEW s, NEW t, t.projects = s.projects
  PROVE  /\ C!Watched(t) = C!Watched(s) /\ C!Unfinished(t) = C!Unfinished(s)
         /\ s.purses \subseteq t.purses =>
              /\ KitsAreHeld(s) => KitsAreHeld(t)
              /\ PaidIn(s) => PaidIn(t)
<1>1. C!Watched(t) = C!Watched(s)
  BY DEF C!Watched
<1>2. C!Unfinished(t) = C!Unfinished(s)
  BY <1>1 DEF C!Unfinished
<1> QED
  BY <1>1, <1>2 DEF KitsAreHeld, PaidIn

\* Tabs are told apart, none is both an install's and a workspace's, and those
\* still out were spent on nothing.
OfItsOwn(b) == \A t, u \in b : t.tab = u.tab => t = u
TabsHeld(b, w, sp, n) ==
  /\ n \in Nat /\ n <= MaxTabs
  /\ b \in SUBSET [tab : Nat, brought : Installations \union {C!None}]
  /\ w \in SUBSET [tab : Nat, brought : Workspaces \union {C!None}]
  /\ \A t \in b \union w : t.tab \in 1..n
  /\ OfItsOwn(b) /\ OfItsOwn(w) /\ \A t \in b, u \in w : t.tab # u.tab
  /\ sp \in [C!Tabs -> 0..1]
  /\ \A t \in b \union w : sp[t.tab] = 0
  /\ \A t \in C!Tabs : t > n => sp[t] = 0

LEMMA ConfigurationAssumed ==
  /\ {Remembered, MaxHeld, MaxAsked, MaxTabs, MaxReturns, MaxApps} \subseteq Nat
  /\ C!None \notin Trackable \union Clients \union Installations \union Workspaces
  /\ Drafts \subseteq C!Said
BY HoldingsAssumption DEF C!ConfigurationAssumption, C!DraftsAssumption

\* Tabs spent are no longer out.
LEMMA SpendKept ==
  ASSUME NEW b, NEW w, NEW sp, NEW n, TabsHeld(b, w, sp, n), NEW A, NEW B,
         \A t \in A : \E x \in b : x.tab = t,
         \A t \in B : \E x \in w : x.tab = t
  PROVE  TabsHeld(C!Spend(b, A), C!Spend(w, B),
                  [t \in C!Tabs |-> IF t \in A \union B THEN sp[t] + 1 ELSE sp[t]], n)
<1> DEFINE sq == [t \in C!Tabs |-> IF t \in A \union B THEN sp[t] + 1 ELSE sp[t]]
           c == C!Spend(b, A)
           v == C!Spend(w, B)
<1>0. MaxTabs \in Nat
  BY ConfigurationAssumed
<1>1. /\ c \subseteq b /\ \A t \in c : t.tab \notin A
      /\ v \subseteq w /\ \A t \in v : t.tab \notin B
  BY DEF C!Spend
<1>2. \A t \in c \union v : t.tab \notin A \union B
  <2>1. \A t \in v : t.tab \notin A
    BY <1>1 DEF TabsHeld
  <2>2. \A t \in c : t.tab \notin B
    BY <1>1 DEF TabsHeld
  <2> QED
    BY <1>1, <2>1, <2>2
<1>3. \A t \in b \union w : t.tab \in C!Tabs /\ t.tab <= n
  BY <1>0 DEF TabsHeld, C!Tabs
<1>4. \A t \in A \union B : \E x \in b \union w : x.tab = t
  OBVIOUS
<1>5. \A t \in A \union B : t \in C!Tabs /\ sp[t] = 0 /\ t <= n
  BY <1>3, <1>4 DEF TabsHeld
<1>6. sq \in [C!Tabs -> 0..1]
  <2>1. \A t \in C!Tabs : sp[t] \in 0..1
    BY DEF TabsHeld
  <2> QED
    BY <1>5, <2>1
<1>7. \A t \in c \union v : sq[t.tab] = 0
  BY <1>1, <1>2, <1>3 DEF TabsHeld
<1>8. \A t \in C!Tabs : t > n => sq[t] = 0
  <2> SUFFICES ASSUME NEW t \in C!Tabs, t > n PROVE sq[t] = 0
    OBVIOUS
  <2>1. t \in Nat /\ n \in Nat
    BY <1>0 DEF TabsHeld, C!Tabs
  <2>2. t \notin A \union B
    BY <1>5, <2>1
  <2> QED
    BY <2>2 DEF TabsHeld
<1> HIDE DEF sq, c, v
<1>9. TabsHeld(c, v, sq, n)
  BY <1>1, <1>6, <1>7, <1>8 DEF TabsHeld, OfItsOwn
<1> QED
  BY <1>9 DEF sq, c, v

----------------------------------------------------------------------------
(* What a draft comes to.                                                    *)

LEMMA AccessIs ==
  ASSUME TabsHeld(begun, wbegun, spent, tabbed),
         NEW draft \in C!Said, NEW held \in SUBSET Projected,
         NEW a \in C!AccessOf(draft.access, held)
  PROVE  /\ a \in C!Accesses
         /\ \/ /\ draft.access.kind = "App" /\ draft.access.arrival = 0
               /\ \E p \in held : a = p.access
            \/ /\ draft.access.kind = "App" /\ draft.access.arrival # 0
               /\ \E t \in begun : /\ t.tab = draft.access.arrival
                                   /\ t.brought \in Installations
                                   /\ a = C!Installed(t.brought)
            \/ /\ draft.access.kind = "Token" /\ draft.access.token = C!None
               /\ \E p \in held : a = p.access
            \/ /\ draft.access.kind = "Token" /\ draft.access.token # C!None
               /\ a = C!Token(draft.access.token, C!None)
<1>1. \A p \in held : p.access \in C!Accesses
  BY DEF Projected
<1>2. \/ draft.access \in [kind : {"App"}, arrival : Nat]
      \/ draft.access \in [kind : {"Token"}, token : STRING]
  BY DEF C!Said
<1>3. CASE draft.access.kind = "App" /\ draft.access.arrival = 0
  <2>1. \E p \in held : a = p.access
    BY <1>3 DEF C!AccessOf, C!Unsaid
  <2> QED
    BY <1>1, <1>3, <2>1
<1>4. CASE draft.access.kind = "App" /\ draft.access.arrival # 0
  <2>1. PICK id \in C!Arrived(begun, draft.access.arrival) : a = C!Installed(id)
    BY <1>4 DEF C!AccessOf, C!Unsaid
  <2>2. PICK t \in begun : t.tab = draft.access.arrival /\ t.brought # C!None /\ id = t.brought
    BY <2>1 DEF C!Arrived
  <2>3. t.brought \in Installations
    BY <2>2 DEF TabsHeld
  <2>4. C!Installed(t.brought) \in C!Accesses
    BY <2>3 DEF C!Installed, C!Accesses
  <2> QED
    BY <1>4, <2>1, <2>2, <2>3, <2>4
<1>5. CASE draft.access.kind = "Token" /\ draft.access.token = C!None
  <2>1. \E p \in held : a = p.access
    BY <1>5 DEF C!AccessOf
  <2> QED
    BY <1>1, <1>5, <2>1
<1>6. CASE draft.access.kind = "Token" /\ draft.access.token # C!None
  <2>1. a = C!Token(draft.access.token, C!None)
    BY <1>6 DEF C!AccessOf
  <2>2. draft.access.token \in STRING
    BY <1>2, <1>6
  <2> QED
    BY <1>6, <2>1, <2>2 DEF C!Token, C!Accesses
<1> QED
  BY <1>2, <1>3, <1>4, <1>5, <1>6

LEMMA BindingIs ==
  ASSUME TabsHeld(begun, wbegun, spent, tabbed),
         NEW draft \in C!Said, NEW held \in SUBSET Projected,
         NEW c \in C!BindingOf(draft.binding, held)
  PROVE  /\ c \in C!Bindings
         /\ draft.binding.kind = "Workspace" /\ draft.binding.arrival # 0 =>
              \E t \in wbegun : t.tab = draft.binding.arrival
<1>1. \A p \in held : p.binding \in C!Bindings
  BY DEF Projected
<1>2. \/ draft.binding \in [kind : {"Kept"}]
      \/ draft.binding \in [kind : {"Own"}, ear : Ears]
      \/ draft.binding \in [kind : {"Workspace"}, arrival : Nat]
  BY DEF C!Said
<1>3. CASE \/ draft.binding.kind = "Kept"
           \/ draft.binding.kind = "Workspace" /\ draft.binding.arrival = 0
  <2>1. \E p \in held : c = p.binding
    BY <1>3 DEF C!BindingOf, C!Unsaid
  <2> QED
    BY <1>1, <1>3, <2>1
<1>4. CASE draft.binding.kind = "Own"
  <2>1. c = C!Own(draft.binding.ear) /\ draft.binding.ear \in Ears
    BY <1>2, <1>4 DEF C!BindingOf
  <2> QED
    BY <1>4, <2>1 DEF C!Own, C!Bindings
<1>5. CASE draft.binding.kind = "Workspace" /\ draft.binding.arrival # 0
  <2>1. PICK team \in C!Arrived(wbegun, draft.binding.arrival) : c = C!Workspace(team)
    BY <1>5 DEF C!BindingOf, C!Unsaid
  <2>2. PICK t \in wbegun : t.tab = draft.binding.arrival /\ t.brought # C!None /\ team = t.brought
    BY <2>1 DEF C!Arrived
  <2>3. t.brought \in Workspaces
    BY <2>2 DEF TabsHeld
  <2> QED
    BY <2>1, <2>2, <2>3 DEF C!Workspace, C!Bindings
<1> QED
  BY <1>2, <1>3, <1>4, <1>5

LEMMA DraftedIs ==
  ASSUME TabsHeld(begun, wbegun, spent, tabbed),
         NEW draft \in C!Said, NEW held \in SUBSET Projected,
         NEW d \in C!Drafted(draft, held)
  PROVE  /\ d \in Readings /\ d.kits # {} /\ d.repository = draft.repository
         /\ d.access \in C!AccessOf(draft.access, held)
         /\ d.binding \in C!BindingOf(draft.binding, held)
<1> DEFINE A == C!AccessOf(draft.access, held)
           B == C!BindingOf(draft.binding, held)
<1>0. d \in {[foreman |-> draft.foreman, kits |-> draft.kits,
             repository |-> draft.repository, access |-> a, binding |-> c] : a \in A, c \in B}
  BY DEF C!Drafted
<1>1. \E a \in A, c \in B : d = [foreman |-> draft.foreman, kits |-> draft.kits,
                              repository |-> draft.repository, access |-> a, binding |-> c]
  <2> HIDE DEF A, B
  <2> QED
    BY <1>0
<1>1a. PICK a \in A, c \in B : d = [foreman |-> draft.foreman, kits |-> draft.kits,
                                repository |-> draft.repository, access |-> a, binding |-> c]
  BY <1>1
<1>2. a \in C!Accesses /\ c \in C!Bindings
  BY AccessIs, BindingIs
<1>3. /\ draft.foreman \in Payers /\ draft.kits \in SUBSET Payers /\ draft.kits # {}
      /\ draft.repository \in STRING
  BY DEF C!Said
<1>4. /\ d.access = a /\ d.binding = c /\ d.kits = draft.kits
      /\ d.repository = draft.repository /\ d \in Readings
  BY <1>1a, <1>2, <1>3 DEF Readings
<1> QED
  BY <1>1a, <1>3, <1>4

Learned == STRING \union {C!None}

LEMMA ProjectIs ==
  ASSUME NEW d \in Readings, NEW learned \in Learned, NEW job \in C!Jobs
  PROVE  /\ C!Project(d, learned, job) \in Projected
         /\ C!Project(d, learned, job).kits = d.kits
         /\ C!Project(d, learned, job).job = job
         /\ C!Project(d, learned, job).repository = d.repository
         /\ C!Project(d, learned, job).access = C!ToldOf(d.access, learned)
<1>1. C!ToldOf(d.access, learned) \in C!Accesses
  <2>1. d.access \in C!Accesses
    BY DEF Readings
  <2>2. d.access.kind = "Token" => d.access.secret \in STRING
    BY <2>1 DEF C!Accesses
  <2>3. d.access.kind = "Token" => C!Token(d.access.secret, learned) \in C!Accesses
    BY <2>2 DEF C!Token, C!Accesses, Learned
  <2> QED
    BY <2>1, <2>3 DEF C!ToldOf
<1> QED
  BY <1>1 DEF C!Project, Projected, Readings

----------------------------------------------------------------------------
(* A request kept.                                                           *)

\* What a candidate is, of the state as it is.
KeptAs(request, learned, s) ==
  \/ /\ request.op = "Create"
     /\ \E p \in Trackable, d \in C!Drafted(request.draft, {}) :
          /\ configured.projects[p] = C!Unwatched
          /\ s = Put(configured, p, C!Project(d, learned, C!NoJob))
  \/ /\ request.op = "Amend" /\ request.project \in C!Watched(configured)
     /\ \E d \in C!Drafted(request.draft, {configured.projects[request.project]}) :
          s = Put(configured, request.project, C!Project(d, learned, configured.projects[request.project].job))
  \/ /\ request.op = "HoldPurse"
     /\ s = [configured EXCEPT !.purses = configured.purses \union {request.purse}]
  \/ /\ request.op = "RegisterChannelApp"
     /\ s = C!ChannelAppRegistered(request)

LEMMA RequestIs ==
  ASSUME NEW request \in C!Requests
  PROVE  /\ request.op \in {"Create", "Amend", "HoldPurse", "RegisterChannelApp"}
         /\ request.op \in {"Create", "Amend"} =>
              request.draft \in C!Said /\ "draft" \in DOMAIN request
         /\ request.op = "Amend" => request.project \in Trackable
         /\ request.op = "HoldPurse" => request.purse \in Payers /\ "draft" \notin DOMAIN request
         /\ request.op = "RegisterChannelApp" =>
              request.client \in Clients /\ request.ear \in Ears /\ "draft" \notin DOMAIN request
<1>1. Drafts \subseteq C!Said
  BY ConfigurationAssumed
<1>2. CASE request \in [op : {"Create"}, draft : Drafts]
  BY <1>1, <1>2
<1>3. CASE request \in [op : {"Amend"}, project : Trackable, draft : Drafts]
  BY <1>1, <1>3
<1>4. CASE request \in [op : {"HoldPurse"}, purse : Payers]
  BY <1>4
<1>5. CASE request \in [op : {"RegisterChannelApp"}, client : Clients, ear : Ears]
  BY <1>5
<1> QED
  BY <1>2, <1>3, <1>4, <1>5 DEF C!Requests

LEMMA HeldByIs ==
  ASSUME NEW request \in C!Requests
  PROVE  /\ request.op = "Amend" /\ request.project \in C!Watched(configured)
              => C!HeldBy(request) = {configured.projects[request.project]}
         /\ ~(request.op = "Amend" /\ request.project \in C!Watched(configured))
              => C!HeldBy(request) = {}
BY DEF C!HeldBy

LEMMA CandidateIs ==
  ASSUME NEW request \in C!Requests, NEW learned, NEW s \in C!Candidates(request, learned)
  PROVE  /\ KeptAs(request, learned, s)
         /\ request.op \in {"Create", "Amend"} => C!Check(s)
<1>1. CASE request.op = "Create"
  <2>1. s \in C!Created(request, learned) /\ C!Check(s)
    BY <1>1 DEF C!Candidates
  <2>2. PICK d \in C!Drafted(request.draft, {}), p \in {p \in Trackable : configured.projects[p] = C!Unwatched} :
          s = C!WithProject(p, C!Project(d, learned, C!NoJob))
    BY <2>1 DEF C!Created
  <2> QED
    BY <1>1, <2>1, <2>2 DEF C!WithProject, KeptAs, Put
<1>2. CASE request.op = "Amend"
  <2>1. s \in C!Amended(request, learned) /\ C!Check(s)
    BY <1>2 DEF C!Candidates
  <2>2. PICK d \in C!Drafted(request.draft, C!HeldBy(request)) :
          /\ C!HeldBy(request) # {}
          /\ s = C!WithProject(request.project,
                   C!Project(d, learned, configured.projects[request.project].job))
    BY <2>1 DEF C!Amended
  <2>3. request.project \in C!Watched(configured)
    BY <2>2, HeldByIs
  <2>4. C!HeldBy(request) = {configured.projects[request.project]}
    BY <1>2, <2>3, HeldByIs
  <2> QED
    BY <1>2, <2>1, <2>2, <2>3, <2>4 DEF C!WithProject, KeptAs, Put
<1>3. CASE request.op = "HoldPurse"
  BY <1>3 DEF C!Candidates, KeptAs
<1>4. CASE request.op = "RegisterChannelApp"
  BY <1>4 DEF C!Candidates, KeptAs
<1> QED
  BY <1>1, <1>2, <1>3, <1>4, RequestIs

StateHeld(s) == StateTyped(s) /\ KitsAreHeld(s) /\ PaidIn(s)

LEMMA CheckedKits ==
  ASSUME NEW s, C!Check(s)
  PROVE  KitsAreHeld(s)
BY DEF C!Check, C!ProjectIsWhole, KitsAreHeld

\* A project with another in its place.
LEMMA ProjectHeld ==
  ASSUME NEW s, StateHeld(s), NEW p \in Trackable, NEW x \in Standings,
         NEW t, t = Put(s, p, x),
         x \in Projected /\ x.job.progress # "Retired" => x.job.purse \in s.purses,
         KitsAreHeld(t) \/ (x \in Projected => x.kits \subseteq s.purses)
  PROVE  StateHeld(t)
<1>0. Placed(s, p, x)
  BY ProjectSet DEF StateHeld
<1>1. /\ StateTyped(t) /\ t.purses = s.purses /\ t.projects[p] = x
      /\ \A q \in Trackable : q # p => t.projects[q] = s.projects[q]
  BY <1>0 DEF Placed
<1>2. PaidIn(t)
  <2> SUFFICES ASSUME NEW q \in C!Unfinished(t) PROVE t.projects[q].job.purse \in t.purses
    BY DEF PaidIn
  <2>1. /\ q \in Trackable /\ t.projects[q] \in Projected
        /\ t.projects[q].job.progress # "Retired"
    BY <1>1, WatchedIs
  <2>2. CASE q = p
    BY <1>1, <2>1, <2>2
  <2>3. CASE q # p
    <3>1. t.projects[q] = s.projects[q]
      BY <1>1, <2>1, <2>3
    <3>2. q \in C!Unfinished(s)
      BY <2>1, <3>1, WatchedIs DEF StateHeld
    <3> QED
      BY <1>1, <3>1, <3>2 DEF StateHeld, PaidIn
  <2> QED
    BY <2>2, <2>3
<1>3. KitsAreHeld(t)
  <2> SUFFICES ASSUME x \in Projected => x.kits \subseteq s.purses, NEW q \in C!Watched(t)
               PROVE  t.projects[q].kits \subseteq t.purses
    BY DEF KitsAreHeld
  <2>1. q \in Trackable /\ t.projects[q] \in Projected
    BY <1>1, WatchedIs
  <2>2. CASE q = p
    BY <1>1, <2>1, <2>2
  <2>3. CASE q # p
    <3>1. t.projects[q] = s.projects[q]
      BY <1>1, <2>1, <2>3
    <3>2. q \in C!Watched(s)
      BY <2>1, <3>1, WatchedIs DEF StateHeld
    <3> QED
      BY <1>1, <3>1, <3>2 DEF StateHeld, KitsAreHeld
  <2> QED
    BY <2>2, <2>3
<1> QED
  BY <1>1, <1>2, <1>3 DEF StateHeld

LEMMA NoJobIs == C!NoJob \in C!Jobs /\ C!NoJob.progress = "Retired"
BY DEF C!NoJob, C!Jobs

LEMMA CandidateHeld ==
  ASSUME StateHeld(configured), TabsHeld(begun, wbegun, spent, tabbed),
         NEW request \in C!Requests, NEW learned \in Learned,
         NEW s \in C!Candidates(request, learned)
  PROVE  StateHeld(s)
<1>0. KeptAs(request, learned, s) /\ (request.op \in {"Create", "Amend"} => C!Check(s))
  BY CandidateIs
<1>1. CASE request.op = "Create"
  <2>1. PICK p \in Trackable, d \in C!Drafted(request.draft, {}) :
          s = Put(configured, p, C!Project(d, learned, C!NoJob))
    BY <1>0, <1>1 DEF KeptAs
  <2>2. d \in Readings
    BY <1>1, <2>1, DraftedIs, RequestIs
  <2>3. /\ C!Project(d, learned, C!NoJob) \in Standings
        /\ C!Project(d, learned, C!NoJob).job = C!NoJob
    BY <2>2, ProjectIs, NoJobIs DEF Standings
  <2>4. KitsAreHeld(s)
    BY <1>0, <1>1, CheckedKits
  <2> QED
    BY <2>1, <2>3, <2>4, ProjectHeld, NoJobIs
<1>2. CASE request.op = "Amend"
  <2> DEFINE p == request.project
             old == configured.projects[p]
  <2>0. p \in C!Watched(configured) /\ p \in Trackable /\ old \in Projected
    BY <1>0, <1>2, WatchedIs DEF KeptAs, StateHeld
  <2>1. PICK d \in C!Drafted(request.draft, {old}) :
          s = Put(configured, p, C!Project(d, learned, old.job))
    BY <1>0, <1>2 DEF KeptAs
  <2>2. d \in Readings
    BY <1>2, <2>0, <2>1, DraftedIs, RequestIs
  <2>3. old.job \in C!Jobs
    BY <2>0 DEF Projected
  <2>4. /\ C!Project(d, learned, old.job) \in Standings
        /\ C!Project(d, learned, old.job).job = old.job
    BY <2>2, <2>3, ProjectIs DEF Standings
  <2>5. old.job.progress # "Retired" => old.job.purse \in configured.purses
    BY <2>0, WatchedIs DEF StateHeld, PaidIn
  <2>6. KitsAreHeld(s)
    BY <1>0, <1>2, CheckedKits
  <2> HIDE DEF p, old
  <2> QED
    BY <2>0, <2>1, <2>4, <2>5, <2>6, ProjectHeld
<1>3. CASE request.op = "HoldPurse"
  <2>1. /\ s = [configured EXCEPT !.purses = configured.purses \union {request.purse}]
        /\ configured.purses \union {request.purse} \in SUBSET Payers
    BY <1>0, <1>3, RequestIs, StateParts DEF KeptAs, StateHeld
  <2>2. /\ StateTyped(s) /\ s.purses = configured.purses \union {request.purse}
        /\ s.projects = configured.projects
    BY <2>1, PursesSet DEF StateHeld
  <2> QED
    BY <2>2, SameProjects DEF StateHeld
<1>4. CASE request.op = "RegisterChannelApp"
  <2> DEFINE x == [client |-> request.client, ear |-> request.ear,
                   workspaces |-> IF configured.channelApp.client = request.client
                                  THEN configured.channelApp.workspaces ELSE {}]
  <2>1. s = [configured EXCEPT !.channelApp = x]
    BY <1>0, <1>4 DEF KeptAs, C!ChannelAppRegistered
  <2>2. x \in ChannelApps
    BY <1>4, RequestIs, StateParts DEF ChannelApps, StateHeld
  <2> HIDE DEF x
  <2>3. StateTyped(s) /\ s.purses = configured.purses /\ s.projects = configured.projects
    BY <2>1, <2>2, ChannelAppSet DEF StateHeld
  <2> QED
    BY <2>3, SameProjects DEF StateHeld
<1> QED
  BY <1>1, <1>2, <1>3, <1>4, RequestIs

\* A draft that comes to something names only tabs that are out.
LEMMA NamedAreOut ==
  ASSUME StateTyped(configured), TabsHeld(begun, wbegun, spent, tabbed),
         NEW request \in C!Requests, NEW learned, NEW s \in C!Candidates(request, learned)
  PROVE  /\ \A t \in C!AccessTabs(request) : \E b \in begun : b.tab = t
         /\ \A t \in C!BindingTabs(request) : \E b \in wbegun : b.tab = t
<1>0. KeptAs(request, learned, s)
  BY CandidateIs
<1>1. CASE request.op \in {"Create", "Amend"}
  <2>1. request.draft \in C!Said
    BY <1>1, RequestIs
  <2>2. \E held \in SUBSET Projected : \E d : d \in C!Drafted(request.draft, held)
    <3>1. CASE request.op = "Create"
      BY <1>0, <3>1 DEF KeptAs
    <3>2. CASE request.op = "Amend"
      <4>1. {configured.projects[request.project]} \in SUBSET Projected
        BY <1>0, <3>2, WatchedIs DEF KeptAs
      <4> QED
        BY <1>0, <3>2, <4>1 DEF KeptAs
    <3> QED
      BY <1>1, <3>1, <3>2
  <2>3. PICK held \in SUBSET Projected : \E d : d \in C!Drafted(request.draft, held)
    BY <2>2
  <2>4. PICK d : d \in C!Drafted(request.draft, held)
    BY <2>3
  <2>5. /\ d.access \in C!AccessOf(request.draft.access, held)
        /\ d.binding \in C!BindingOf(request.draft.binding, held)
    BY <2>1, <2>4, DraftedIs
  <2>6. request.draft.access.kind = "App" /\ request.draft.access.arrival # 0 =>
          \E b \in begun : b.tab = request.draft.access.arrival
    BY <2>1, <2>5, AccessIs, Zenon
  <2>7. request.draft.binding.kind = "Workspace" /\ request.draft.binding.arrival # 0 =>
          \E b \in wbegun : b.tab = request.draft.binding.arrival
    BY <2>1, <2>5, BindingIs, Zenon
  <2> QED
    BY <2>6, <2>7 DEF C!AccessTabs, C!BindingTabs, C!Unsaid
<1>2. CASE request.op \in {"HoldPurse", "RegisterChannelApp"}
  <2>1. "draft" \notin DOMAIN request
    BY <1>2, RequestIs
  <2> QED
    BY <2>1 DEF C!AccessTabs, C!BindingTabs
<1> QED
  BY <1>1, <1>2, RequestIs

LEMMA RespondHeld ==
  ASSUME StateHeld(configured), TabsHeld(begun, wbegun, spent, tabbed),
         NEW request \in C!Requests, NEW drafted, NEW learned \in Learned,
         C!Respond(request, drafted, learned)
  PROVE  StateHeld(configured') /\ TabsHeld(begun', wbegun', spent', tabbed)
<1>1. CASE UNCHANGED <<configured, begun, wbegun, spent>>
  BY <1>1
<1>2. ASSUME NEW s \in C!Candidates(request, learned),
             configured' = s, begun' = C!Spend(begun, C!AccessTabs(request)),
             wbegun' = C!Spend(wbegun, C!BindingTabs(request)),
             spent' = [t \in C!Tabs |-> IF t \in C!Named(request) THEN spent[t] + 1 ELSE spent[t]]
      PROVE  StateHeld(configured') /\ TabsHeld(begun', wbegun', spent', tabbed)
  <2>1. StateHeld(configured')
    BY <1>2, CandidateHeld
  <2>2. /\ \A t \in C!AccessTabs(request) : \E b \in begun : b.tab = t
        /\ \A t \in C!BindingTabs(request) : \E b \in wbegun : b.tab = t
    BY NamedAreOut DEF StateHeld
  <2>3. spent' = [t \in C!Tabs |-> IF t \in C!AccessTabs(request) \union C!BindingTabs(request)
                                   THEN spent[t] + 1 ELSE spent[t]]
    BY <1>2 DEF C!Named
  <2>4. TabsHeld(begun', wbegun', spent', tabbed)
    BY <1>2, <2>2, <2>3, SpendKept
  <2> QED
    BY <2>1, <2>4
<1> QED
  BY <1>1, <1>2 DEF C!Respond

----------------------------------------------------------------------------
(* Requests held.                                                            *)

Questions == {"Token", "Owner", "Covered", "Speaking", "Listening", "Purse"}
Holding ==
  [request : C!Requests \union {C!NoRequest}, drafted : SUBSET Readings,
   outstanding : SUBSET Questions, refused : BOOLEAN, learned : Learned]

\* A slot that waits for something holds a request, and waits to learn the owner
\* of a token only of a token.
OfHeld(h) ==
  /\ h \in Holding
  /\ h.request.op = "None" => h.outstanding = {}
  /\ "Owner" \in h.outstanding =>
       \E d \in Readings : h.drafted = {d} /\ d.access.kind = "Token"

SlotsHeld == checking \in [C!Slots -> Holding] /\ \A i \in C!Slots : OfHeld(checking[i])

ReturnsHeld ==
  /\ installs \in SUBSET [tab : Nat, id : Installations, key : Nat \ {0}]
  /\ \A u \in installs : u.tab <= tabbed
  /\ exchanges \in SUBSET [tab : Nat, team : Workspaces]
  /\ registering \in Nat /\ exchanging \in Nat /\ apps \in Nat
  /\ registering + exchanging <= apps

BaseHeld ==
  /\ StateHeld(configured) /\ TabsHeld(begun, wbegun, spent, tabbed)
  /\ SlotsHeld /\ ReturnsHeld

HeldForAs(request, h) ==
  /\ h.request = request /\ h.refused = FALSE /\ h.learned = C!None
  /\ request.op \in {"Create", "Amend"} =>
       /\ request.op = "Amend" => request.project \in C!Watched(configured)
       /\ \E d \in C!Drafted(request.draft, C!HeldBy(request)) :
            h.drafted = {d} /\ h.outstanding = C!ChecksOf(d, C!HeldBy(request))
  /\ request.op = "HoldPurse" => h.outstanding = {"Purse"}
  /\ request.op = "RegisterChannelApp" => h.outstanding = {"Listening"}

LEMMA HeldByProjected ==
  ASSUME StateTyped(configured), NEW request \in C!Requests
  PROVE  C!HeldBy(request) \in SUBSET Projected
<1>1. request.op = "Amend" /\ request.project \in C!Watched(configured) =>
        configured.projects[request.project] \in Projected
  BY WatchedIs
<1> QED
  BY <1>1, HeldByIs

LEMMA HeldForIs ==
  ASSUME BaseHeld, NEW request \in C!Requests, NEW h \in C!HeldFor(request)
  PROVE  OfHeld(h) /\ HeldForAs(request, h)
<1>0. C!None \in Learned /\ request.op # "None"
  BY RequestIs DEF Learned
<1>1. CASE request.op \in {"Create", "Amend"}
  <2> DEFINE held == C!HeldBy(request)
  <2>1. PICK d \in C!Drafted(request.draft, held) :
          /\ h = [request |-> request, drafted |-> {d}, outstanding |-> C!ChecksOf(d, held),
                  refused |-> FALSE, learned |-> C!None]
          /\ request.op = "Amend" => held # {}
    BY <1>1 DEF C!HeldFor
  <2>2. d \in Readings
    BY <1>1, <2>1, DraftedIs, RequestIs, HeldByProjected DEF BaseHeld, StateHeld
  <2>3. /\ C!ChecksOf(d, held) \in SUBSET Questions
        /\ "Owner" \in C!ChecksOf(d, held) => d.access.kind = "Token"
    BY DEF C!ChecksOf, Questions
  <2> HIDE DEF held
  <2>4. h \in Holding
    BY <1>0, <2>1, <2>2, <2>3 DEF Holding
  <2>5. OfHeld(h)
    BY <1>0, <2>1, <2>2, <2>3, <2>4 DEF OfHeld
  <2>6. request.op = "Amend" => request.project \in C!Watched(configured)
    BY <2>1, HeldByIs DEF held
  <2> QED
    BY <1>1, <2>1, <2>5, <2>6 DEF HeldForAs, held
<1>2. CASE request.op \in {"HoldPurse", "RegisterChannelApp"}
  <2>1. h = [request |-> request, drafted |-> {},
             outstanding |-> IF request.op = "HoldPurse" THEN {"Purse"} ELSE {"Listening"},
             refused |-> FALSE, learned |-> C!None]
    BY <1>2 DEF C!HeldFor
  <2>2. h \in Holding
    BY <1>0, <2>1 DEF Holding, Questions
  <2> QED
    BY <1>0, <1>2, <2>1, <2>2 DEF OfHeld, HeldForAs
<1> QED
  BY <1>1, <1>2, RequestIs

LEMMA FreeIs ==
  ASSUME C!HeldSlots # C!Slots
  PROVE  C!FreeSlot \in C!Slots \ C!HeldSlots
BY DEF C!FreeSlot, C!HeldSlots

\* A request asked is refused, or answered at once, or held.
LEMMA RequestedIs ==
  ASSUME BaseHeld, NEW request \in C!Requests, C!Requested(request)
  PROVE  /\ C!Clear(request)
         /\ UNCHANGED <<registering, exchanging, installs, exchanges, accepted, tabbed, returns, apps>>
         /\ \E h \in C!HeldFor(request) :
              /\ OfHeld(h) /\ HeldForAs(request, h)
              /\ \/ /\ h.outstanding = {} /\ C!Respond(request, h.drafted, C!None) /\ UNCHANGED checking
                 \/ /\ h.outstanding # {}
                    /\ \E i \in C!Slots \ C!HeldSlots : checking' = [checking EXCEPT ![i] = h]
                    /\ UNCHANGED <<configured, begun, wbegun, spent, reread>>
<1>1. PICK h \in C!HeldFor(request) :
        IF h.outstanding = {}
        THEN C!Respond(request, h.drafted, C!None) /\ UNCHANGED <<checking, heard>>
        ELSE /\ C!HeldSlots # C!Slots
             /\ checking' = [checking EXCEPT ![C!FreeSlot] = h]
             /\ UNCHANGED <<configured, begun, wbegun, spent, reread>>
  BY DEF C!Requested
<1>2. OfHeld(h) /\ HeldForAs(request, h)
  BY HeldForIs
<1>3. h.outstanding # {} => C!FreeSlot \in C!Slots \ C!HeldSlots
  BY <1>1, FreeIs
<1> QED
  BY <1>1, <1>2, <1>3 DEF C!Requested, C!pending

\* What is held once a check of it is answered.
Told(h, check, accepts) ==
  [h EXCEPT !.outstanding = h.outstanding \ {check}, !.refused = h.refused \/ ~accepts,
            !.learned = IF check = "Owner" /\ accepts
                        THEN (CHOOSE d \in h.drafted : TRUE).access.secret ELSE h.learned]

LEMMA ToldIs ==
  ASSUME NEW h, OfHeld(h), NEW check \in h.outstanding, NEW accepts \in BOOLEAN
  PROVE  /\ OfHeld(Told(h, check, accepts)) /\ h.request \in C!Requests
         /\ Told(h, check, accepts).request = h.request
         /\ Told(h, check, accepts).drafted = h.drafted
         /\ Told(h, check, accepts).outstanding = h.outstanding \ {check}
         /\ Told(h, check, accepts).refused = (h.refused \/ ~accepts)
         /\ Told(h, check, accepts).learned \in Learned
         /\ ~(check = "Owner" /\ accepts) => Told(h, check, accepts).learned = h.learned
         /\ check = "Owner" /\ accepts =>
              \E d \in Readings : /\ h.drafted = {d} /\ d.access.kind = "Token"
                                  /\ Told(h, check, accepts).learned = d.access.secret
<1> DEFINE learned == IF check = "Owner" /\ accepts
                      THEN (CHOOSE d \in h.drafted : TRUE).access.secret ELSE h.learned
           now == Told(h, check, accepts)
<1>1. check = "Owner" => \E d \in Readings : h.drafted = {d} /\ d.access.kind = "Token"
  BY DEF OfHeld
<1>2. check = "Owner" /\ accepts =>
        \E d \in Readings : /\ h.drafted = {d} /\ d.access.kind = "Token"
                            /\ learned = d.access.secret
  <2> SUFFICES ASSUME check = "Owner", accepts
               PROVE  \E d \in Readings : /\ h.drafted = {d} /\ d.access.kind = "Token"
                                          /\ learned = d.access.secret
    OBVIOUS
  <2>1. PICK d \in Readings : h.drafted = {d} /\ d.access.kind = "Token"
    BY <1>1
  <2>2. (CHOOSE e \in h.drafted : TRUE) = d
    BY <2>1
  <2> QED
    BY <2>1, <2>2
<1>3. \A d \in Readings : d.access.kind = "Token" => d.access.secret \in STRING
  BY DEF Readings, C!Accesses
<1>4. learned \in Learned
  BY <1>2, <1>3 DEF OfHeld, Holding, Learned
<1>5. h.request \in C!Requests
  <2>1. h.request \in C!Requests \union {C!NoRequest} /\ h.request.op # "None"
    BY DEF OfHeld, Holding
  <2> QED
    BY <2>1 DEF C!NoRequest
<1> HIDE DEF learned
<1>6. /\ now.request = h.request /\ now.drafted = h.drafted
      /\ now.outstanding = h.outstanding \ {check}
      /\ now.refused = (h.refused \/ ~accepts) /\ now.learned = learned /\ now \in Holding
  <2>1. now = [h EXCEPT !.outstanding = h.outstanding \ {check}, !.refused = h.refused \/ ~accepts,
                        !.learned = learned]
    BY DEF Told, learned
  <2>2. h \in Holding
    BY DEF OfHeld
  <2>3. (h.refused \/ ~accepts) \in BOOLEAN
    BY <2>2 DEF Holding
  <2> HIDE DEF now
  <2> QED
    BY <1>4, <2>1, <2>2, <2>3, Zenon DEF Holding
<1> HIDE DEF now
<1>7. OfHeld(now)
  BY <1>6 DEF OfHeld
<1> QED
  BY <1>2, <1>4, <1>5, <1>6, <1>7 DEF now, learned

LEMMA CheckedIs ==
  ASSUME BaseHeld, NEW i \in C!Slots, NEW accepts \in BOOLEAN,
         NEW check \in checking[i].outstanding, C!Checked(i, check, accepts)
  PROVE  LET now == Told(checking[i], check, accepts) IN
         /\ accepted' = IF check \in {"Token", "Covered"} /\ accepts
                        THEN accepted \union {C!Reach(d) : d \in checking[i].drafted} ELSE accepted
         /\ UNCHANGED <<registering, exchanging, installs, exchanges, tabbed, apps>>
         /\ \/ /\ now.outstanding # {} /\ checking' = [checking EXCEPT ![i] = now]
               /\ UNCHANGED <<configured, begun, wbegun, spent, reread>>
            \/ /\ now.outstanding = {} /\ checking' = [checking EXCEPT ![i] = C!NotHeld]
               /\ \/ UNCHANGED <<configured, begun, wbegun, spent, reread>>
                  \/ ~now.refused /\ C!Respond(now.request, checking[i].drafted, now.learned)
<1> DEFINE h == checking[i]
           now == Told(h, check, accepts)
<1>1. now = [h EXCEPT !.outstanding = @ \ {check}, !.refused = @ \/ ~accepts,
                      !.learned = IF check = "Owner" /\ accepts
                                  THEN (CHOOSE d \in h.drafted : TRUE).access.secret ELSE @]
  BY DEF Told
<1>2. now.request = h.request
  BY ToldIs DEF BaseHeld, SlotsHeld
<1>3. /\ accepted' = IF check \in {"Token", "Covered"} /\ accepts
                     THEN accepted \union {C!Reach(d) : d \in h.drafted} ELSE accepted
      /\ IF now.outstanding # {}
         THEN /\ checking' = [checking EXCEPT ![i] = now]
              /\ UNCHANGED <<configured, begun, wbegun, spent, reread>>
         ELSE /\ checking' = [checking EXCEPT ![i] = C!NotHeld]
              /\ IF now.refused
                 THEN UNCHANGED <<configured, begun, wbegun, spent, reread>>
                 ELSE C!Respond(h.request, h.drafted, now.learned)
      /\ UNCHANGED <<C!pending, C!counted>>
  BY <1>1 DEF C!Checked
<1> QED
  BY <1>2, <1>3 DEF C!pending, C!counted

LEMMA NotHeldIs == OfHeld(C!NotHeld) /\ C!NotHeld.outstanding = {} /\ C!NotHeld.request.op = "None"
<1>1. C!NotHeld \in Holding
  BY DEF C!NotHeld, Holding, Learned
<1> QED
  BY <1>1 DEF C!NotHeld, OfHeld, C!NoRequest

LEMMA SlotSet ==
  ASSUME SlotsHeld, NEW i \in C!Slots, NEW h, OfHeld(h), checking' = [checking EXCEPT ![i] = h]
  PROVE  /\ SlotsHeld' /\ checking'[i] = h
         /\ \A j \in C!Slots : j # i => checking'[j] = checking[j]
<1>1. h \in Holding
  BY DEF OfHeld
<1> QED
  BY <1>1 DEF SlotsHeld

----------------------------------------------------------------------------
(* What every step keeps.                                                    *)

LEMMA TabsFewer ==
  ASSUME NEW b, NEW w, NEW sp, NEW n, TabsHeld(b, w, sp, n),
         NEW c \in SUBSET b, NEW v \in SUBSET w
  PROVE  TabsHeld(c, v, sp, n)
BY DEF TabsHeld, OfItsOwn

LEMMA BaseFrom ==
  ASSUME BaseHeld, StateHeld(configured'), TabsHeld(begun', wbegun', spent', tabbed'),
         UNCHANGED <<checking, registering, exchanging, installs, exchanges, tabbed, apps>>
  PROVE  BaseHeld'
<1>1. SlotsHeld' /\ ReturnsHeld'
  BY DEF BaseHeld, SlotsHeld, ReturnsHeld
<1> QED
  BY <1>1 DEF BaseHeld

LEMMA BaseRequested ==
  ASSUME BaseHeld, NEW request \in C!Requests, C!Requested(request)
  PROVE  BaseHeld'
<1>1. PICK h : /\ OfHeld(h)
               /\ \/ /\ h.outstanding = {} /\ C!Respond(request, h.drafted, C!None) /\ UNCHANGED checking
                  \/ /\ h.outstanding # {}
                     /\ \E i \in C!Slots \ C!HeldSlots : checking' = [checking EXCEPT ![i] = h]
                     /\ UNCHANGED <<configured, begun, wbegun, spent, reread>>
  BY RequestedIs
<1>2. UNCHANGED <<registering, exchanging, installs, exchanges, tabbed, apps>>
  BY RequestedIs
<1>3. CASE C!Respond(request, h.drafted, C!None) /\ UNCHANGED checking
  <2>1. C!None \in Learned
    BY DEF Learned
  <2>2. StateHeld(configured') /\ TabsHeld(begun', wbegun', spent', tabbed)
    BY <1>3, <2>1, RespondHeld DEF BaseHeld
  <2> QED
    BY <1>2, <1>3, <2>2, BaseFrom
<1>4. ASSUME NEW i \in C!Slots, checking' = [checking EXCEPT ![i] = h],
             UNCHANGED <<configured, begun, wbegun, spent, reread>>
      PROVE  BaseHeld'
  <2>1. SlotsHeld'
    BY <1>1, <1>4, SlotSet, Zenon DEF BaseHeld
  <2> QED
    BY <1>2, <1>4, <2>1 DEF BaseHeld, ReturnsHeld
<1> QED
  BY <1>1, <1>3, <1>4

LEMMA BaseChecked ==
  ASSUME BaseHeld, NEW i \in C!Slots, NEW accepts \in BOOLEAN,
         NEW check \in checking[i].outstanding, C!Checked(i, check, accepts)
  PROVE  BaseHeld'
<1> DEFINE now == Told(checking[i], check, accepts)
           drafted == checking[i].drafted
<1>0. /\ OfHeld(now) /\ now.request \in C!Requests /\ now.learned \in Learned
  BY ToldIs DEF BaseHeld, SlotsHeld
<1>1. /\ UNCHANGED <<registering, exchanging, installs, exchanges, tabbed, apps>>
      /\ \/ /\ checking' = [checking EXCEPT ![i] = now]
            /\ UNCHANGED <<configured, begun, wbegun, spent, reread>>
         \/ /\ checking' = [checking EXCEPT ![i] = C!NotHeld]
            /\ \/ UNCHANGED <<configured, begun, wbegun, spent, reread>>
               \/ C!Respond(now.request, drafted, now.learned)
  BY CheckedIs
<1> HIDE DEF now, drafted
<1>2. SlotsHeld'
  BY <1>0, <1>1, SlotSet, NotHeldIs DEF BaseHeld
<1>3. StateHeld(configured') /\ TabsHeld(begun', wbegun', spent', tabbed)
  <2>1. CASE UNCHANGED <<configured, begun, wbegun, spent, reread>>
    BY <2>1 DEF BaseHeld
  <2>2. CASE C!Respond(now.request, drafted, now.learned)
    BY <1>0, <2>2, RespondHeld DEF BaseHeld
  <2> QED
    BY <1>1, <2>1, <2>2
<1>4. ReturnsHeld'
  BY <1>1 DEF BaseHeld, ReturnsHeld
<1> QED
  BY <1>1, <1>2, <1>3, <1>4 DEF BaseHeld

\* What is forgotten, or done with a job, leaves everything else.
LEMMA KeepHeld ==
  ASSUME BaseHeld, NEW s, StateHeld(s), C!Keep(s), begun' \in SUBSET begun, wbegun' \in SUBSET wbegun
  PROVE  BaseHeld'
<1>1. /\ configured' = s
      /\ UNCHANGED <<checking, registering, exchanging, installs, exchanges, tabbed, spent, apps>>
  BY DEF C!Keep, C!pending, C!counted
<1>2. TabsHeld(begun', wbegun', spent', tabbed')
  BY <1>1, TabsFewer DEF BaseHeld
<1> QED
  BY <1>1, <1>2, BaseFrom

LEMMA BaseForgetPurse == ASSUME BaseHeld, NEW payer \in Payers, C!ForgetPurse(payer) PROVE BaseHeld'
<1> DEFINE s == configured
           t == [s EXCEPT !.purses = @ \ {payer}]
<1>1. C!ChargedBy(s, payer) = {} /\ C!Keep(t) /\ UNCHANGED <<begun, wbegun>>
  BY DEF C!ForgetPurse
<1>2. s.purses \ {payer} \in SUBSET Payers
  BY StateParts DEF BaseHeld, StateHeld
<1>3. t = [s EXCEPT !.purses = s.purses \ {payer}]
  OBVIOUS
<1>4. StateTyped(t) /\ t.purses = s.purses \ {payer} /\ t.projects = s.projects
  BY <1>2, <1>3, PursesSet DEF BaseHeld, StateHeld
<1>5. C!Watched(t) = C!Watched(s) /\ C!Unfinished(t) = C!Unfinished(s)
  BY <1>4, SameProjects, Zenon
<1>6. \A p \in C!Watched(s) : payer \notin s.projects[p].kits
  BY <1>1 DEF C!ChargedBy
<1>7. \A p \in C!Unfinished(s) : s.projects[p].job.purse # payer
  BY <1>1 DEF C!ChargedBy, C!Unfinished
<1> HIDE DEF t
<1>8. StateHeld(t)
  BY <1>4, <1>5, <1>6, <1>7 DEF BaseHeld, StateHeld, KitsAreHeld, PaidIn
<1> QED
  BY <1>1, <1>8, KeepHeld

LEMMA BaseForget == ASSUME BaseHeld, NEW p \in Trackable, C!Forget(p) PROVE BaseHeld'
<1> DEFINE t == Put(configured, p, C!Forgotten)
<1>1. C!Keep(t) /\ UNCHANGED <<begun, wbegun>>
  BY DEF C!Forget, C!WithProject, Put
<1>2. C!Forgotten \in Standings /\ C!Forgotten \notin Projected
  BY DEF Standings, C!Forgotten, Projected
<1>3. StateHeld(t)
  BY <1>2, ProjectHeld DEF BaseHeld
<1> QED
  BY <1>1, <1>3, KeepHeld

LEMMA AppHeld ==
  ASSUME NEW s, StateHeld(s), NEW x \in Apps, NEW t, t = [s EXCEPT !.app = x]
  PROVE  StateHeld(t)
BY AppSet, SameProjects DEF StateHeld

LEMMA ChannelAppHeld ==
  ASSUME NEW s, StateHeld(s), NEW x \in ChannelApps, NEW t, t = [s EXCEPT !.channelApp = x]
  PROVE  StateHeld(t)
BY ChannelAppSet, SameProjects DEF StateHeld

LEMMA BaseForgetApps ==
  ASSUME BaseHeld,
         \/ C!ForgetApp
         \/ \E id \in Installations : C!ForgetInstallation(id)
         \/ C!ForgetChannelApp
         \/ \E team \in Workspaces : C!ForgetWorkspace(team)
  PROVE  BaseHeld'
<1>0. StateHeld(configured) /\ configured.app \in Apps /\ configured.channelApp \in ChannelApps
  BY StateParts DEF BaseHeld, StateHeld
<1>1. CASE C!ForgetApp
  <2>1. [key |-> 0, installations |-> {}] \in Apps
    BY DEF Apps
  <2>2. StateHeld([configured EXCEPT !.app = [key |-> 0, installations |-> {}]])
    BY <1>0, <2>1, AppHeld
  <2> QED
    BY <1>1, <2>2, KeepHeld DEF C!ForgetApp
<1>2. ASSUME NEW id \in Installations, C!ForgetInstallation(id) PROVE BaseHeld'
  <2> DEFINE x == [configured.app EXCEPT !.installations = @ \ {id}]
             t == [configured EXCEPT !.app.installations = @ \ {id}]
  <2>1. x \in Apps
    BY <1>0 DEF Apps
  <2>2. t = [configured EXCEPT !.app = x]
    OBVIOUS
  <2>3. StateHeld(t)
    BY <1>0, <2>1, <2>2, AppHeld
  <2> QED
    BY <1>2, <2>3, KeepHeld DEF C!ForgetInstallation
<1>3. CASE C!ForgetChannelApp
  <2>1. [client |-> C!None, ear |-> C!None, workspaces |-> {}] \in ChannelApps
    BY DEF ChannelApps
  <2>2. StateHeld([configured EXCEPT !.channelApp = [client |-> C!None, ear |-> C!None, workspaces |-> {}]])
    BY <1>0, <2>1, ChannelAppHeld
  <2> QED
    BY <1>3, <2>2, KeepHeld DEF C!ForgetChannelApp
<1>4. ASSUME NEW team \in Workspaces, C!ForgetWorkspace(team) PROVE BaseHeld'
  <2> DEFINE x == [configured.channelApp EXCEPT !.workspaces = @ \ {team}]
             t == [configured EXCEPT !.channelApp.workspaces = @ \ {team}]
  <2>1. x \in ChannelApps
    BY <1>0 DEF ChannelApps
  <2>2. t = [configured EXCEPT !.channelApp = x]
    OBVIOUS
  <2>3. StateHeld(t)
    BY <1>0, <2>1, <2>2, ChannelAppHeld
  <2> QED
    BY <1>4, <2>3, KeepHeld DEF C!ForgetWorkspace
<1> QED
  BY <1>1, <1>2, <1>3, <1>4

\* A step of a job's is of one whose project stays as it is.
JobStep(p, job) ==
  /\ p \in C!Watched(configured) /\ job \in C!Jobs
  /\ C!Keep(Put(configured, p, [configured.projects[p] EXCEPT !.job = job]))
  /\ UNCHANGED <<begun, wbegun>>
  /\ job.progress # "Retired" => job.purse \in configured.purses

LEMMA WorkIs ==
  ASSUME BaseHeld, NEW p \in Trackable,
         \/ \E payer \in Payers : C!Start(p, payer)
         \/ C!TurnEnds(p) \/ C!Reply(p) \/ C!Retire(p)
  PROVE  \E job : JobStep(p, job)
<1> DEFINE old == configured.projects[p]
<1>0. p \in C!Watched(configured)
  BY Zenon DEF C!Start, C!TurnEnds, C!Reply, C!Retire, C!JobMoves
<1>1. old \in Projected /\ old.job \in C!Jobs
  BY <1>0, WatchedIs DEF BaseHeld, StateHeld, Projected
<1>2. ASSUME NEW payer \in Payers, C!Start(p, payer) PROVE \E job : JobStep(p, job)
  <2> DEFINE job == [progress |-> "Working", purse |-> payer]
  <2>1. payer \in configured.purses
    BY <1>0, <1>2 DEF C!Start, BaseHeld, StateHeld, KitsAreHeld
  <2>2. job \in C!Jobs
    BY DEF C!Jobs
  <2>3. C!Keep(Put(configured, p, [old EXCEPT !.job = job]))
    BY <1>2 DEF C!Start, Put
  <2>4. JobStep(p, job)
    BY <1>0, <1>2, <2>1, <2>2, <2>3 DEF JobStep, C!Start
  <2> QED
    BY <2>4
<1>3. ASSUME NEW from \in SUBSET {"Working", "Idle"}, NEW progress \in {"Working", "Idle", "Retired"},
             C!JobMoves(p, from, progress)
      PROVE  \E job : JobStep(p, job)
  <2> DEFINE job == [old.job EXCEPT !.progress = progress]
  <2>1. job \in C!Jobs /\ job.purse = old.job.purse
    BY <1>1 DEF C!Jobs
  <2>2. old.job.progress # "Retired"
    BY <1>3 DEF C!JobMoves
  <2>3. old.job.purse \in configured.purses
    BY <1>0, <2>2, WatchedIs DEF BaseHeld, StateHeld, PaidIn
  <2>4. C!Keep(Put(configured, p, [old EXCEPT !.job = job]))
    BY <1>3 DEF C!JobMoves, Put
  <2>5. JobStep(p, job)
    BY <1>0, <1>3, <2>1, <2>3, <2>4 DEF JobStep, C!JobMoves
  <2> QED
    BY <2>5
<1> QED
  BY <1>2, <1>3 DEF C!TurnEnds, C!Reply, C!Retire

LEMMA BaseWorks ==
  ASSUME BaseHeld, NEW p \in Trackable, NEW job, JobStep(p, job)
  PROVE  BaseHeld'
<1> DEFINE old == configured.projects[p]
           x == [old EXCEPT !.job = job]
<1>1. old \in Projected /\ p \in C!Watched(configured)
  BY WatchedIs DEF BaseHeld, StateHeld, JobStep
<1>2. x \in Projected /\ x.job = job /\ x.kits = old.kits
  BY <1>1 DEF Projected, JobStep
<1>3. x.kits \subseteq configured.purses
  BY <1>1, <1>2 DEF BaseHeld, StateHeld, KitsAreHeld
<1>4. C!Keep(Put(configured, p, x))
  BY DEF JobStep
<1> HIDE DEF x
<1>5. StateHeld(Put(configured, p, x))
  BY <1>2, <1>3, ProjectHeld DEF BaseHeld, JobStep, Standings
<1> QED
  BY <1>4, <1>5, KeepHeld DEF JobStep

\* A tab opened is one more than those there have been.
LEMMA TabOpened ==
  ASSUME NEW b, NEW w, NEW sp, NEW n, TabsHeld(b, w, sp, n), n < MaxTabs,
         NEW t, t = [tab |-> n + 1, brought |-> C!None]
  PROVE  TabsHeld(b \union {t}, w, sp, n + 1) /\ TabsHeld(b, w \union {t}, sp, n + 1)
<1>0. MaxTabs \in Nat /\ n \in Nat
  BY ConfigurationAssumed DEF TabsHeld
<1>1. t \in [tab : Nat, brought : Installations \union {C!None}]
  BY <1>0
<1>2. t \in [tab : Nat, brought : Workspaces \union {C!None}]
  BY <1>0
<1>3. t.tab = n + 1 /\ t.tab \in C!Tabs /\ sp[t.tab] = 0
  BY <1>0 DEF TabsHeld, C!Tabs
<1>4. \A u \in b \union w : u.tab \in 1..(n + 1) /\ u.tab # t.tab /\ sp[u.tab] = 0
  BY <1>0, <1>3 DEF TabsHeld
<1>5. \A k \in C!Tabs : k > n + 1 => sp[k] = 0
  BY <1>0 DEF TabsHeld, C!Tabs
<1>6. t.tab \in 1..(n + 1) /\ n + 1 \in Nat /\ n + 1 <= MaxTabs
  BY <1>0, <1>3
<1>7. OfItsOwn(b \union {t}) /\ OfItsOwn(w \union {t})
  BY <1>4 DEF TabsHeld, OfItsOwn
<1>8. /\ \A x \in b \union {t}, u \in w : x.tab # u.tab
      /\ \A x \in b, u \in w \union {t} : x.tab # u.tab
  BY <1>4 DEF TabsHeld
<1> QED
  BY <1>1, <1>2, <1>3, <1>4, <1>5, <1>6, <1>7, <1>8 DEF TabsHeld

\* What a tab brought back is of that tab.
LEMMA TabReturned ==
  ASSUME NEW b, NEW w, NEW sp, NEW n, TabsHeld(b, w, sp, n), NEW tab
  PROVE  /\ \A id \in Installations : TabsHeld(C!Returned(b, tab, id), w, sp, n)
         /\ \A team \in Workspaces : TabsHeld(b, C!Returned(w, tab, team), sp, n)
<1>1. ASSUME NEW x \in SUBSET [tab : Nat, brought : Installations \union {C!None}],
             NEW id \in Installations
      PROVE  C!Returned(x, tab, id) \in SUBSET [tab : Nat, brought : Installations \union {C!None}]
  BY DEF C!Returned
<1>2. ASSUME NEW x \in SUBSET [tab : Nat, brought : Workspaces \union {C!None}],
             NEW team \in Workspaces
      PROVE  C!Returned(x, tab, team) \in SUBSET [tab : Nat, brought : Workspaces \union {C!None}]
  BY DEF C!Returned
<1>3. ASSUME NEW x, NEW y, NEW t \in C!Returned(x, tab, y)
      PROVE  \E u \in x : /\ t.tab = u.tab
                          /\ t = [tab |-> u.tab, brought |-> IF u.tab = tab THEN y ELSE u.brought]
  BY DEF C!Returned
<1>4. ASSUME NEW x, NEW y, OfItsOwn(x) PROVE OfItsOwn(C!Returned(x, tab, y))
  <2> SUFFICES ASSUME NEW t \in C!Returned(x, tab, y), NEW v \in C!Returned(x, tab, y), t.tab = v.tab
               PROVE  t = v
    BY DEF OfItsOwn
  <2>1. PICK u \in x : /\ t.tab = u.tab
                       /\ t = [tab |-> u.tab, brought |-> IF u.tab = tab THEN y ELSE u.brought]
    BY <1>3
  <2>2. PICK z \in x : /\ v.tab = z.tab
                       /\ v = [tab |-> z.tab, brought |-> IF z.tab = tab THEN y ELSE z.brought]
    BY <1>3
  <2>3. u = z
    BY <1>4, <2>1, <2>2, Zenon DEF OfItsOwn
  <2> QED
    BY <2>1, <2>2, <2>3
<1>5. ASSUME NEW id \in Installations PROVE TabsHeld(C!Returned(b, tab, id), w, sp, n)
  <2> DEFINE c == C!Returned(b, tab, id)
  <2>1. \A t \in c : \E u \in b : t.tab = u.tab
    BY <1>3
  <2>2. c \in SUBSET [tab : Nat, brought : Installations \union {C!None}] /\ OfItsOwn(c)
    BY <1>1, <1>4 DEF TabsHeld
  <2> HIDE DEF c
  <2> QED
    BY <2>1, <2>2 DEF TabsHeld, c
<1>6. ASSUME NEW team \in Workspaces PROVE TabsHeld(b, C!Returned(w, tab, team), sp, n)
  <2> DEFINE c == C!Returned(w, tab, team)
  <2>1. \A t \in c : \E u \in w : t.tab = u.tab
    BY <1>3
  <2>2. c \in SUBSET [tab : Nat, brought : Workspaces \union {C!None}] /\ OfItsOwn(c)
    BY <1>2, <1>4 DEF TabsHeld
  <2> HIDE DEF c
  <2> QED
    BY <2>1, <2>2 DEF TabsHeld, c
<1> QED
  BY <1>5, <1>6

LEMMA OpenedIs ==
  ASSUME NEW b
  PROVE  C!Opened(b) \in SUBSET (b \union {[tab |-> tabbed + 1, brought |-> C!None]})
BY DEF C!Opened

LEMMA BaseLinks ==
  ASSUME BaseHeld, C!InstallLink \/ C!WorkspaceLink
  PROVE  BaseHeld'
<1> DEFINE t == [tab |-> tabbed + 1, brought |-> C!None]
<1>1. /\ tabbed < MaxTabs /\ tabbed' = tabbed + 1
      /\ UNCHANGED <<configured, checking, registering, exchanging, installs, exchanges, spent, apps>>
  BY DEF C!InstallLink, C!WorkspaceLink, C!OpenTab, C!pending
<1>2. /\ TabsHeld(begun \union {t}, wbegun, spent, tabbed + 1)
      /\ TabsHeld(begun, wbegun \union {t}, spent, tabbed + 1)
  BY <1>1, TabOpened, Zenon DEF BaseHeld
<1>3. TabsHeld(begun', wbegun', spent', tabbed')
  <2>1. CASE C!InstallLink
    <3>1. begun' \in SUBSET (begun \union {t}) /\ wbegun' = wbegun
      BY <2>1, OpenedIs DEF C!InstallLink
    <3> QED
      BY <1>1, <1>2, <3>1, TabsFewer
  <2>2. CASE C!WorkspaceLink
    <3>1. wbegun' \in SUBSET (wbegun \union {t}) /\ begun' = begun
      BY <2>2, OpenedIs DEF C!WorkspaceLink
    <3> QED
      BY <1>1, <1>2, <3>1, TabsFewer
  <2> QED
    BY <2>1, <2>2
<1>4. SlotsHeld'
  BY <1>1 DEF BaseHeld, SlotsHeld
<1>5. ReturnsHeld'
  <2>1. tabbed \in Nat
    BY DEF BaseHeld, TabsHeld
  <2>2. \A u \in installs : u.tab <= tabbed + 1
    BY <2>1 DEF BaseHeld, ReturnsHeld
  <2> QED
    BY <1>1, <2>2 DEF BaseHeld, ReturnsHeld
<1> QED
  BY <1>1, <1>3, <1>4, <1>5 DEF BaseHeld

\* The App the platform makes is one it never made.
LEMMA MintedIs ==
  ASSUME ReturnsHeld
  PROVE  C!Minted \in Nat \ {0}
<1>1. apps \in Nat /\ registering + exchanging \in Nat /\ registering + exchanging <= apps
  BY DEF ReturnsHeld
<1> QED
  BY <1>1 DEF C!Minted

LEMMA BaseRegisters ==
  ASSUME BaseHeld, C!Register \/ C!CameBack \/ \E accepts \in BOOLEAN : C!Exchanged(accepts)
  PROVE  BaseHeld'
<1>0. /\ registering \in Nat /\ exchanging \in Nat /\ apps \in Nat
      /\ registering + exchanging <= apps /\ Remembered \in Nat
  BY ConfigurationAssumed DEF BaseHeld, ReturnsHeld
<1>1. UNCHANGED <<begun, wbegun, spent, tabbed, checking, installs, exchanges>>
  BY DEF C!Register, C!CameBack, C!Exchanged, C!counted
<1>2. /\ registering' \in Nat /\ exchanging' \in Nat /\ apps' \in Nat
      /\ registering' + exchanging' <= apps'
  <2>1. CASE C!Register
    <3>1. /\ registering' \in {registering, registering + 1} /\ exchanging' = exchanging
          /\ apps' = apps + 1
      BY <2>1 DEF C!Register
    <3>2. CASE registering' = registering
      BY <1>0, <3>1, <3>2
    <3>3. CASE registering' = registering + 1
      BY <1>0, <3>1, <3>3
    <3> QED
      BY <3>1, <3>2, <3>3, Zenon
  <2>2. CASE C!CameBack
    <3>1. /\ registering > 0 /\ registering' = registering - 1 /\ exchanging' = exchanging + 1
          /\ apps' = apps
      BY <2>2 DEF C!CameBack, C!counted
    <3> QED
      BY <1>0, <3>1
  <2>3. CASE \E accepts \in BOOLEAN : C!Exchanged(accepts)
    <3>1. exchanging > 0 /\ exchanging' = exchanging - 1 /\ registering' = registering /\ apps' = apps
      BY <2>3 DEF C!Exchanged, C!counted
    <3> QED
      BY <1>0, <3>1
  <2> QED
    BY <2>1, <2>2, <2>3
<1>3. StateHeld(configured')
  <2>1. CASE configured' = configured
    BY <2>1 DEF BaseHeld
  <2>2. CASE configured' = [configured EXCEPT !.app = [key |-> C!Minted, installations |-> {}]]
    <3> DEFINE x == [key |-> C!Minted, installations |-> {}]
    <3>1. x \in Apps
      BY MintedIs DEF BaseHeld, Apps
    <3>2. configured' = [configured EXCEPT !.app = x]
      BY <2>2
    <3> HIDE DEF x
    <3> QED
      BY <3>1, <3>2, AppHeld DEF BaseHeld
  <2> QED
    BY <2>1, <2>2 DEF C!Register, C!CameBack, C!Exchanged
<1>4. TabsHeld(begun', wbegun', spent', tabbed')
  BY <1>1 DEF BaseHeld
<1>5. SlotsHeld' /\ ReturnsHeld'
  BY <1>1, <1>2 DEF BaseHeld, SlotsHeld, ReturnsHeld
<1> QED
  BY <1>3, <1>4, <1>5 DEF BaseHeld

LEMMA BaseComesBack ==
  ASSUME BaseHeld,
         \/ \E tab \in C!Tabs \union {C!Unsaid}, id \in Installations : C!CameBackInstalled(tab, id)
         \/ \E tab \in C!Tabs \union {C!Unsaid}, team \in Workspaces : C!CameBackWorkspace(tab, team)
  PROVE  BaseHeld'
<1>0. tabbed \in Nat /\ \A tab \in 0..tabbed : tab \in Nat /\ tab <= tabbed
  BY DEF BaseHeld, TabsHeld
<1>1. UNCHANGED <<configured, begun, wbegun, spent, tabbed, checking, registering, exchanging, apps>>
  BY DEF C!CameBackInstalled, C!CameBackWorkspace, C!ComesBack
<1>2. ReturnsHeld'
  <2>1. ASSUME NEW tab \in 0..tabbed, NEW id \in Installations, C!CameBackInstalled(tab, id)
        PROVE  ReturnsHeld'
    <3> DEFINE u == [tab |-> tab, id |-> id, key |-> configured.app.key]
    <3>1. configured.app.key \in Nat \ {0}
      BY <2>1, StateParts DEF C!CameBackInstalled, BaseHeld, StateHeld, Apps
    <3>2. u \in [tab : Nat, id : Installations, key : Nat \ {0}] /\ u.tab <= tabbed
      BY <1>0, <3>1
    <3>3. installs' = installs \union {u} /\ exchanges' = exchanges
      BY <2>1 DEF C!CameBackInstalled
    <3> QED
      BY <1>1, <3>2, <3>3 DEF BaseHeld, ReturnsHeld
  <2>2. ASSUME NEW tab \in 0..tabbed, NEW team \in Workspaces, C!CameBackWorkspace(tab, team)
        PROVE  ReturnsHeld'
    <3>1. [tab |-> tab, team |-> team] \in [tab : Nat, team : Workspaces]
      BY <1>0
    <3> QED
      BY <1>1, <2>2, <3>1 DEF C!CameBackWorkspace, BaseHeld, ReturnsHeld
  <2> QED
    BY <2>1, <2>2 DEF C!CameBackInstalled, C!CameBackWorkspace, C!ComesBack
<1>3. StateHeld(configured') /\ TabsHeld(begun', wbegun', spent', tabbed') /\ SlotsHeld'
  BY <1>1 DEF BaseHeld, SlotsHeld
<1> QED
  BY <1>2, <1>3 DEF BaseHeld

LEMMA InstalledIs ==
  ASSUME BaseHeld, NEW install \in installs, NEW accepts \in BOOLEAN,
         C!InstalledAnswered(install, accepts)
  PROVE  /\ installs' \in SUBSET installs
         /\ UNCHANGED <<wbegun, registering, exchanging, exchanges, checking, accepted, spent, reread,
                        tabbed, apps>>
         /\ \/ UNCHANGED <<configured, begun>>
            \/ /\ configured.app.key # 0
               /\ configured' = [configured EXCEPT !.app =
                    [configured.app EXCEPT !.installations = configured.app.installations \union {install.id}]]
               /\ begun' = C!Returned(begun, install.tab, install.id)
<1>1. install.key # 0
  BY DEF BaseHeld, ReturnsHeld
<1>2. [configured EXCEPT !.app.installations = @ \union {install.id}] =
        [configured EXCEPT !.app =
           [configured.app EXCEPT !.installations = configured.app.installations \union {install.id}]]
  OBVIOUS
<1> QED
  BY <1>1, <1>2 DEF C!InstalledAnswered, C!counted

LEMMA ExchangedIs ==
  ASSUME BaseHeld, NEW exchange \in exchanges, NEW accepts \in BOOLEAN,
         C!WorkspaceExchanged(exchange, accepts)
  PROVE  /\ exchanges' \in SUBSET exchanges
         /\ UNCHANGED <<begun, registering, exchanging, installs, checking, accepted, spent, reread,
                        tabbed, apps>>
         /\ \/ UNCHANGED <<configured, wbegun>>
            \/ /\ configured.channelApp.client # C!None
               /\ configured' = [configured EXCEPT !.channelApp =
                    [configured.channelApp EXCEPT !.workspaces =
                       configured.channelApp.workspaces \union {exchange.team}]]
               /\ wbegun' = C!Returned(wbegun, exchange.tab, exchange.team)
<1>1. [configured EXCEPT !.channelApp.workspaces = @ \union {exchange.team}] =
        [configured EXCEPT !.channelApp =
           [configured.channelApp EXCEPT !.workspaces =
              configured.channelApp.workspaces \union {exchange.team}]]
  OBVIOUS
<1> QED
  BY <1>1 DEF C!WorkspaceExchanged, C!counted

LEMMA BaseReturns ==
  ASSUME BaseHeld,
         \/ \E install \in installs, accepts \in BOOLEAN : C!InstalledAnswered(install, accepts)
         \/ \E exchange \in exchanges, accepts \in BOOLEAN : C!WorkspaceExchanged(exchange, accepts)
  PROVE  BaseHeld'
<1>0. StateHeld(configured) /\ configured.app \in Apps /\ configured.channelApp \in ChannelApps
  BY StateParts DEF BaseHeld, StateHeld
<1>1. ASSUME NEW install \in installs, NEW accepts \in BOOLEAN, C!InstalledAnswered(install, accepts)
      PROVE  BaseHeld'
  <2> DEFINE x == [configured.app EXCEPT !.installations =
                     configured.app.installations \union {install.id}]
  <2>1. install.id \in Installations
    BY DEF BaseHeld, ReturnsHeld
  <2>2. x \in Apps
    BY <1>0, <2>1 DEF Apps
  <2>3. /\ installs' \in SUBSET installs
        /\ UNCHANGED <<wbegun, registering, exchanging, exchanges, checking, spent, tabbed, apps>>
        /\ \/ UNCHANGED <<configured, begun>>
           \/ /\ configured' = [configured EXCEPT !.app = x]
              /\ begun' = C!Returned(begun, install.tab, install.id)
    BY <1>1, InstalledIs
  <2> HIDE DEF x
  <2>4. StateHeld(configured')
    BY <1>0, <2>2, <2>3, AppHeld
  <2>5. TabsHeld(begun', wbegun', spent', tabbed')
    BY <2>1, <2>3, TabReturned DEF BaseHeld
  <2>6. SlotsHeld' /\ ReturnsHeld'
    BY <2>3 DEF BaseHeld, SlotsHeld, ReturnsHeld
  <2> QED
    BY <2>4, <2>5, <2>6 DEF BaseHeld
<1>2. ASSUME NEW exchange \in exchanges, NEW accepts \in BOOLEAN, C!WorkspaceExchanged(exchange, accepts)
      PROVE  BaseHeld'
  <2> DEFINE x == [configured.channelApp EXCEPT !.workspaces =
                     configured.channelApp.workspaces \union {exchange.team}]
  <2>1. exchange.team \in Workspaces
    BY DEF BaseHeld, ReturnsHeld
  <2>2. x \in ChannelApps
    BY <1>0, <2>1 DEF ChannelApps
  <2>3. /\ exchanges' \in SUBSET exchanges
        /\ UNCHANGED <<begun, registering, exchanging, installs, checking, spent, tabbed, apps>>
        /\ \/ UNCHANGED <<configured, wbegun>>
           \/ /\ configured' = [configured EXCEPT !.channelApp = x]
              /\ wbegun' = C!Returned(wbegun, exchange.tab, exchange.team)
    BY <1>2, ExchangedIs
  <2> HIDE DEF x
  <2>4. StateHeld(configured')
    BY <1>0, <2>2, <2>3, ChannelAppHeld
  <2>5. TabsHeld(begun', wbegun', spent', tabbed')
    BY <2>1, <2>3, TabReturned DEF BaseHeld
  <2>6. SlotsHeld' /\ ReturnsHeld'
    BY <2>3 DEF BaseHeld, SlotsHeld, ReturnsHeld
  <2> QED
    BY <2>4, <2>5, <2>6 DEF BaseHeld
<1> QED
  BY <1>1, <1>2

LEMMA BaseNext ==
  ASSUME BaseHeld, C!Next
  PROVE  BaseHeld'
<1>1. CASE C!Asks
  BY <1>1, BaseRequested DEF C!Asks
<1>2. CASE C!Answers
  BY <1>2, BaseChecked, BaseRegisters, BaseReturns DEF C!Answers
<1>3. CASE C!Forgets
  BY <1>3, BaseForgetPurse, BaseForget, BaseForgetApps DEF C!Forgets
<1>4. CASE C!Works
  BY <1>4, WorkIs, BaseWorks DEF C!Works
<1>5. CASE C!Installing
  BY <1>5, BaseRegisters, BaseLinks, BaseComesBack DEF C!Installing
<1> QED
  BY <1>1, <1>2, <1>3, <1>4, <1>5 DEF C!Next

\* What an instance is started with is as it was written.
LEMMA StartIs ==
  ASSUME C!Init
  PROVE  /\ StateTyped(configured) /\ C!Check(configured)
         /\ PaidIn(configured)
         /\ configured.app.key = 0 => configured.app.installations = {}
         /\ configured.channelApp.client = C!None => configured.channelApp.workspaces = {}
<1>0. configured \in Beginnings
  BY DEF C!Init
<1>1. /\ configured \in [purses : SUBSET Payers,
                         projects : [Trackable -> {C!Unwatched} \union C!Found],
                         app : [key : {0, 1}, installations : SUBSET Installations],
                         channelApp : [client : Clients \union {C!None}, ear : Ears \union {C!None},
                                       workspaces : SUBSET Workspaces]]
      /\ C!Check(configured)
      /\ \A p \in C!Unfinished(configured) :
           configured.projects[p].job.purse \in configured.purses
      /\ configured.app.key = 0 => configured.app.installations = {}
      /\ configured.channelApp.client = C!None => configured.channelApp.workspaces = {}
  BY <1>0, HoldingsAssumption DEF C!StartsAssumption
<1>2. {C!Unwatched} \union C!Found \subseteq Standings
  BY DEF Standings, Projected, C!Found
<1>3. [key : {0, 1}, installations : SUBSET Installations] \subseteq Apps
  BY DEF Apps
<1>4. StateTyped(configured)
  BY <1>1, <1>2, <1>3 DEF StateTyped, ChannelApps
<1> QED
  BY <1>1, <1>4 DEF PaidIn

LEMMA BaseBegins == ASSUME C!Init PROVE BaseHeld
<1>1. StateHeld(configured)
  BY StartIs, CheckedKits DEF StateHeld
<1>2. TabsHeld(begun, wbegun, spent, tabbed)
  BY ConfigurationAssumed DEF C!Init, TabsHeld, OfItsOwn
<1>3. SlotsHeld
  BY NotHeldIs DEF C!Init, SlotsHeld, OfHeld
<1>4. ReturnsHeld
  BY DEF C!Init, ReturnsHeld
<1> QED
  BY <1>1, <1>2, <1>3, <1>4 DEF BaseHeld

----------------------------------------------------------------------------
(* That what is held is whole, where nobody registers over an app in use.    *)

WholeIn(s) ==
  /\ C!Check(s)
  /\ s.app.key = 0 => s.app.installations = {}
  /\ s.channelApp.client = C!None => s.channelApp.workspaces = {}

Registers(i) == checking[i].request.op = "RegisterChannelApp"

\* One registration at a time, begun where there is none.
Alone ==
  /\ registering + exchanging <= 1
  /\ registering + exchanging > 0 => configured.app.key = 0
  /\ \A i \in C!Slots : Registers(i) =>
       configured.channelApp.client \in {C!None, checking[i].request.client}
  /\ \A i, j \in C!Slots : Registers(i) /\ Registers(j) => i = j

WholeHeld == WholeIn(configured) /\ Alone

LEMMA CheckMore ==
  ASSUME NEW s, NEW t, t.projects = s.projects, C!Check(s), s.purses \subseteq t.purses,
         s.app.installations \subseteq t.app.installations,
         s.channelApp.workspaces \subseteq t.channelApp.workspaces
  PROVE  C!Check(t)
<1>1. C!Watched(t) = C!Watched(s)
  BY SameProjects
<1>2. ASSUME NEW p \in C!Watched(s) PROVE C!ProjectIsWhole(t, p)
  <2>1. C!ProjectIsWhole(s, p)
    BY DEF C!Check
  <2> QED
    BY <2>1 DEF C!ProjectIsWhole
<1> QED
  BY <1>1, <1>2 DEF C!Check

LEMMA CheckProject ==
  ASSUME NEW s, StateTyped(s), C!Check(s), NEW p \in Trackable, NEW x \in Standings,
         NEW t, t = Put(s, p, x),
         x \in Projected => /\ s.projects[p] \in Projected
                            /\ x.foreman = s.projects[p].foreman /\ x.kits = s.projects[p].kits
                            /\ x.access = s.projects[p].access /\ x.binding = s.projects[p].binding
  PROVE  C!Check(t)
<1>0. Placed(s, p, x)
  BY ProjectSet
<1>1. /\ StateTyped(t) /\ t.purses = s.purses /\ t.app = s.app /\ t.channelApp = s.channelApp
      /\ t.projects[p] = x /\ \A q \in Trackable : q # p => t.projects[q] = s.projects[q]
  BY <1>0 DEF Placed
<1>2. ASSUME NEW q \in C!Watched(t) PROVE C!ProjectIsWhole(t, q)
  <2>1. q \in Trackable /\ t.projects[q] \in Projected
    BY <1>1, WatchedIs
  <2>2. q \in C!Watched(s)
    BY <1>1, <2>1, WatchedIs
  <2>3. C!ProjectIsWhole(s, q)
    BY <2>2 DEF C!Check
  <2>4. /\ t.projects[q].foreman = s.projects[q].foreman /\ t.projects[q].kits = s.projects[q].kits
        /\ t.projects[q].access = s.projects[q].access
        /\ t.projects[q].binding = s.projects[q].binding
    BY <1>1, <2>1
  <2> QED
    BY <1>1, <2>3, <2>4 DEF C!ProjectIsWhole
<1> QED
  BY <1>2 DEF C!Check

LEMMA WholeCandidate ==
  ASSUME BaseHeld, WholeIn(configured), NEW request \in C!Requests, NEW learned \in Learned,
         NEW s \in C!Candidates(request, learned),
         request.op = "RegisterChannelApp" =>
           configured.channelApp.client \in {C!None, request.client}
  PROVE  /\ WholeIn(s) /\ s.app = configured.app
         /\ request.op # "RegisterChannelApp" => s.channelApp = configured.channelApp
<1>0. /\ KeptAs(request, learned, s) /\ (request.op \in {"Create", "Amend"} => C!Check(s))
      /\ StateTyped(configured)
  BY CandidateIs DEF BaseHeld, StateHeld
<1>1. CASE request.op \in {"Create", "Amend"}
  <2>1. \E p \in Trackable, x \in Standings : s = Put(configured, p, x)
    <3>1. CASE request.op = "Create"
      <4>1. PICK p \in Trackable, d \in C!Drafted(request.draft, {}) :
              s = Put(configured, p, C!Project(d, learned, C!NoJob))
        BY <1>0, <3>1 DEF KeptAs
      <4>2. d \in Readings
        BY <3>1, <4>1, DraftedIs, RequestIs DEF BaseHeld
      <4> QED
        BY <4>1, <4>2, ProjectIs, NoJobIs DEF Standings
    <3>2. CASE request.op = "Amend"
      <4> DEFINE old == configured.projects[request.project]
      <4>1. request.project \in Trackable /\ old \in Projected
        BY <1>0, <3>2, WatchedIs DEF KeptAs
      <4>2. PICK d \in C!Drafted(request.draft, {old}) :
              s = Put(configured, request.project, C!Project(d, learned, old.job))
        BY <1>0, <3>2 DEF KeptAs
      <4>3. d \in Readings
        BY <3>2, <4>1, <4>2, DraftedIs, RequestIs DEF BaseHeld
      <4>4. C!Project(d, learned, old.job) \in Standings
        BY <4>1, <4>3, ProjectIs DEF Standings, Projected
      <4> HIDE DEF old
      <4> QED
        BY <4>1, <4>2, <4>4
    <3> QED
      BY <1>1, <3>1, <3>2
  <2>1a. PICK p \in Trackable, x \in Standings : s = Put(configured, p, x)
    BY <2>1
  <2>1b. Placed(configured, p, x)
    BY <1>0, ProjectSet
  <2>2. s.app = configured.app /\ s.channelApp = configured.channelApp
    BY <2>1a, <2>1b DEF Placed
  <2> QED
    BY <1>0, <1>1, <2>2 DEF WholeIn
<1>2. CASE request.op = "HoldPurse"
  <2> DEFINE x == configured.purses \union {request.purse}
  <2>1. s = [configured EXCEPT !.purses = x] /\ x \in SUBSET Payers
    BY <1>0, <1>2, RequestIs, StateParts DEF KeptAs
  <2>2. /\ s.purses = x /\ s.app = configured.app /\ s.channelApp = configured.channelApp
        /\ s.projects = configured.projects
    BY <1>0, <2>1, PursesSet
  <2>3. C!Check(s)
    BY <2>2, CheckMore DEF WholeIn
  <2> QED
    BY <2>2, <2>3 DEF WholeIn
<1>3. CASE request.op = "RegisterChannelApp"
  <2> DEFINE x == [client |-> request.client, ear |-> request.ear,
                   workspaces |-> IF configured.channelApp.client = request.client
                                  THEN configured.channelApp.workspaces ELSE {}]
  <2>1. s = [configured EXCEPT !.channelApp = x]
    BY <1>0, <1>3 DEF KeptAs, C!ChannelAppRegistered
  <2>2. x \in ChannelApps /\ x.client # C!None
    BY <1>0, <1>3, RequestIs, StateParts, ConfigurationAssumed DEF ChannelApps
  <2>3. configured.channelApp.workspaces \subseteq x.workspaces
    BY <1>3 DEF WholeIn
  <2> HIDE DEF x
  <2>4. /\ s.purses = configured.purses /\ s.app = configured.app /\ s.channelApp = x
        /\ s.projects = configured.projects
    BY <1>0, <2>1, <2>2, ChannelAppSet
  <2>5. C!Check(s)
    BY <2>3, <2>4, CheckMore DEF WholeIn
  <2> QED
    BY <1>3, <2>2, <2>4, <2>5 DEF WholeIn
<1> QED
  BY <1>1, <1>2, <1>3, RequestIs

LEMMA WholeRespond ==
  ASSUME BaseHeld, WholeIn(configured), NEW request \in C!Requests, NEW learned \in Learned,
         NEW drafted, C!Respond(request, drafted, learned),
         request.op = "RegisterChannelApp" =>
           configured.channelApp.client \in {C!None, request.client}
  PROVE  /\ WholeIn(configured') /\ configured'.app = configured.app
         /\ request.op # "RegisterChannelApp" => configured'.channelApp = configured.channelApp
<1>1. CASE UNCHANGED configured
  BY <1>1
<1>2. CASE configured' \in C!Candidates(request, learned)
  BY <1>2, WholeCandidate
<1> QED
  BY <1>1, <1>2 DEF C!Respond

LEMMA WholeRequested ==
  ASSUME ~Replaces, BaseHeld, WholeHeld, NEW request \in C!Requests, C!Requested(request)
  PROVE  WholeHeld'
<1>0. /\ C!Clear(request) /\ UNCHANGED <<registering, exchanging>>
  BY RequestedIs
<1>1. PICK h : /\ HeldForAs(request, h) /\ OfHeld(h)
               /\ \/ /\ h.outstanding = {} /\ C!Respond(request, h.drafted, C!None) /\ UNCHANGED checking
                  \/ /\ h.outstanding # {}
                     /\ \E i \in C!Slots \ C!HeldSlots : checking' = [checking EXCEPT ![i] = h]
                     /\ UNCHANGED <<configured, begun, wbegun, spent, reread>>
  BY RequestedIs
<1>2. CASE h.outstanding = {} /\ C!Respond(request, h.drafted, C!None) /\ UNCHANGED checking
  <2>1. request.op # "RegisterChannelApp" /\ C!None \in Learned
    BY <1>1, <1>2 DEF HeldForAs, Learned
  <2>2. /\ WholeIn(configured') /\ configured'.app = configured.app
        /\ configured'.channelApp = configured.channelApp
    BY <1>2, <2>1, WholeRespond DEF WholeHeld
  <2> QED
    BY <1>0, <1>2, <2>2 DEF WholeHeld, Alone, Registers
<1>3. ASSUME NEW i \in C!Slots \ C!HeldSlots, checking' = [checking EXCEPT ![i] = h],
             UNCHANGED configured
      PROVE  WholeHeld'
  <2>1. /\ checking'[i] = h /\ h.request = request
        /\ \A j \in C!Slots : j # i => checking'[j] = checking[j]
    BY <1>1, <1>3, SlotSet, Zenon DEF BaseHeld, HeldForAs
  <2>2. request.op = "RegisterChannelApp" =>
          /\ configured.channelApp.client \in {C!None, request.client}
          /\ \A j \in C!Slots : ~Registers(j)
    BY <1>0, Zenon DEF C!Clear, C!HeldOf, C!HeldSlots, Registers
  <2>3. Alone'
    BY <1>0, <1>3, <2>1, <2>2 DEF WholeHeld, Alone, Registers
  <2> QED
    BY <1>3, <2>3 DEF WholeHeld
<1> QED
  BY <1>1, <1>2, <1>3

LEMMA WholeChecked ==
  ASSUME BaseHeld, WholeHeld, NEW i \in C!Slots, NEW accepts \in BOOLEAN,
         NEW check \in checking[i].outstanding, C!Checked(i, check, accepts)
  PROVE  WholeHeld'
<1> DEFINE now == Told(checking[i], check, accepts)
           drafted == checking[i].drafted
<1>0. /\ OfHeld(now) /\ now.request \in C!Requests /\ now.learned \in Learned
      /\ now.request = checking[i].request
  BY ToldIs DEF BaseHeld, SlotsHeld
<1>1. /\ UNCHANGED <<registering, exchanging>>
      /\ \/ /\ checking' = [checking EXCEPT ![i] = now]
            /\ UNCHANGED <<configured, begun, wbegun, spent, reread>>
         \/ /\ checking' = [checking EXCEPT ![i] = C!NotHeld]
            /\ \/ UNCHANGED <<configured, begun, wbegun, spent, reread>>
               \/ C!Respond(now.request, drafted, now.learned)
  BY CheckedIs
<1> HIDE DEF now, drafted
<1>2. \A j \in C!Slots : j # i => checking'[j] = checking[j]
  BY <1>0, <1>1, SlotSet, NotHeldIs DEF BaseHeld
<1>3. CASE checking' = [checking EXCEPT ![i] = now] /\ UNCHANGED configured
  <2>1. checking'[i] = now
    BY <1>0, <1>3, SlotSet, Zenon DEF BaseHeld
  <2> QED
    BY <1>0, <1>1, <1>2, <1>3, <2>1 DEF WholeHeld, Alone, Registers
<1>4. CASE checking' = [checking EXCEPT ![i] = C!NotHeld]
  <2>1. checking'[i] = C!NotHeld
    BY <1>4, SlotSet, NotHeldIs, Zenon DEF BaseHeld
  <2>2. ~Registers(i)' /\ \A j \in C!Slots : Registers(j)' => j # i /\ Registers(j)
    BY <1>2, <2>1, NotHeldIs DEF Registers
  <2>3. CASE UNCHANGED configured
    BY <1>1, <1>2, <2>2, <2>3 DEF WholeHeld, Alone
  <2>4. CASE C!Respond(now.request, drafted, now.learned)
    <3>1. /\ WholeIn(configured') /\ configured'.app = configured.app
          /\ now.request.op # "RegisterChannelApp" => configured'.channelApp = configured.channelApp
      BY <1>0, <2>4, WholeRespond DEF WholeHeld, Alone, Registers
    <3>2. now.request.op = "RegisterChannelApp" => \A j \in C!Slots : ~Registers(j)'
      BY <1>0, <2>2 DEF WholeHeld, Alone, Registers
    <3> QED
      BY <1>1, <1>2, <2>2, <3>1, <3>2 DEF WholeHeld, Alone
  <2> QED
    BY <1>1, <1>4, <2>3, <2>4
<1> QED
  BY <1>1, <1>3, <1>4

LEMMA AccessForms ==
  /\ \A a \in C!Accesses : a.kind = "Installation" => a.id \in Installations /\ a = C!Installed(a.id)
  /\ \A c \in C!Bindings : c.kind = "Workspace" => c.team \in Workspaces /\ c = C!Workspace(c.team)
BY DEF C!Accesses, C!Bindings, C!Installed, C!Workspace

\* Nobody registers by what forgets, works or comes back.
LEMMA WholeAlone ==
  ASSUME WholeHeld, UNCHANGED <<registering, exchanging, checking>>, WholeIn(configured'),
         configured'.app.key \in {0, configured.app.key},
         configured'.channelApp.client \in {C!None, configured.channelApp.client}
  PROVE  WholeHeld'
BY DEF WholeHeld, Alone, Registers

LEMMA WholeKeep ==
  ASSUME WholeHeld, NEW s, C!Keep(s), WholeIn(s),
         s.app.key \in {0, configured.app.key},
         s.channelApp.client \in {C!None, configured.channelApp.client}
  PROVE  WholeHeld'
<1>1. configured' = s /\ UNCHANGED <<registering, exchanging, checking>>
  BY DEF C!Keep, C!pending
<1> QED
  BY <1>1, WholeAlone

LEMMA WholeForgetPurse ==
  ASSUME BaseHeld, WholeHeld, NEW payer \in Payers, C!ForgetPurse(payer)
  PROVE  WholeHeld'
<1> DEFINE s == configured
           x == s.purses \ {payer}
           t == [s EXCEPT !.purses = x]
<1>1. C!ChargedBy(s, payer) = {} /\ C!Keep(t)
  BY DEF C!ForgetPurse
<1>2. x \in SUBSET Payers
  BY StateParts DEF BaseHeld, StateHeld
<1>3. /\ t.purses = s.purses \ {payer} /\ t.projects = s.projects /\ t.app = s.app
      /\ t.channelApp = s.channelApp
  BY <1>2, PursesSet DEF BaseHeld, StateHeld
<1> HIDE DEF t
<1>4. C!Watched(t) = C!Watched(s)
  BY <1>3, SameProjects
<1>5. \A p \in C!Watched(s) : s.projects[p].foreman # payer /\ payer \notin s.projects[p].kits
  BY <1>1 DEF C!ChargedBy
<1>6. ASSUME NEW p \in C!Watched(s) PROVE C!ProjectIsWhole(t, p)
  <2>1. C!ProjectIsWhole(s, p)
    BY DEF WholeHeld, WholeIn, C!Check
  <2> QED
    BY <1>3, <1>5, <2>1 DEF C!ProjectIsWhole
<1>7. WholeIn(t)
  BY <1>3, <1>4, <1>6 DEF WholeHeld, WholeIn, C!Check
<1> QED
  BY <1>1, <1>3, <1>7, WholeKeep

LEMMA WholeForget ==
  ASSUME BaseHeld, WholeHeld, NEW p \in Trackable, C!Forget(p)
  PROVE  WholeHeld'
<1> DEFINE t == Put(configured, p, C!Forgotten)
<1>1. C!Keep(t)
  BY DEF C!Forget, C!WithProject, Put
<1>2. C!Forgotten \in Standings /\ C!Forgotten \notin Projected
  BY DEF Standings, C!Forgotten, Projected
<1>3. C!Check(t)
  BY <1>2, CheckProject DEF BaseHeld, StateHeld, WholeHeld, WholeIn
<1>4. Placed(configured, p, C!Forgotten)
  BY <1>2, ProjectSet DEF BaseHeld, StateHeld
<1>5. t.app = configured.app /\ t.channelApp = configured.channelApp
  BY <1>4 DEF Placed
<1>6. WholeIn(t)
  BY <1>3, <1>5 DEF WholeHeld, WholeIn
<1> HIDE DEF t
<1> QED
  BY <1>1, <1>5, <1>6, WholeKeep

LEMMA WholeWorks ==
  ASSUME BaseHeld, WholeHeld, NEW p \in Trackable, NEW job, JobStep(p, job)
  PROVE  WholeHeld'
<1> DEFINE old == configured.projects[p]
           x == [old EXCEPT !.job = job]
           t == Put(configured, p, x)
<1>1. old \in Projected
  BY WatchedIs DEF BaseHeld, StateHeld, JobStep
<1>2. /\ x \in Projected /\ x.foreman = old.foreman /\ x.kits = old.kits
      /\ x.access = old.access /\ x.binding = old.binding
  BY <1>1 DEF Projected, JobStep
<1>3. C!Keep(t)
  BY DEF JobStep
<1> HIDE DEF x
<1>4. C!Check(t)
  BY <1>1, <1>2, CheckProject DEF BaseHeld, StateHeld, WholeHeld, WholeIn, Standings
<1>5. Placed(configured, p, x)
  BY <1>2, ProjectSet DEF BaseHeld, StateHeld, Standings
<1>6. t.app = configured.app /\ t.channelApp = configured.channelApp
  BY <1>5 DEF Placed
<1>7. WholeIn(t)
  BY <1>4, <1>6 DEF WholeHeld, WholeIn
<1> HIDE DEF t
<1> QED
  BY <1>3, <1>6, <1>7, WholeKeep

\* What no project names is forgotten, and they are as whole as they were.
LEMMA CheckFewer ==
  ASSUME NEW s, StateTyped(s), C!Check(s),
         NEW t, t.projects = s.projects, t.purses = s.purses,
         \A id \in s.app.installations :
           id \in t.app.installations \/ C!ReachingThrough(s, {id}) = {},
         \A team \in s.channelApp.workspaces :
           team \in t.channelApp.workspaces \/ C!BoundTo(s, {team}) = {}
  PROVE  C!Check(t)
<1>1. C!Watched(t) = C!Watched(s)
  BY SameProjects
<1>2. ASSUME NEW p \in C!Watched(s) PROVE C!ProjectIsWhole(t, p)
  <2>1. C!ProjectIsWhole(s, p)
    BY DEF C!Check
  <2>2. s.projects[p].access \in C!Accesses /\ s.projects[p].binding \in C!Bindings
    BY WatchedIs DEF Projected
  <2>3. s.projects[p].access.kind = "Installation" =>
          s.projects[p].access.id \in t.app.installations
    BY <2>1, <2>2, AccessForms DEF C!ProjectIsWhole, C!ReachingThrough
  <2>4. s.projects[p].binding.kind = "Workspace" =>
          s.projects[p].binding.team \in t.channelApp.workspaces
    BY <2>1, <2>2, AccessForms DEF C!ProjectIsWhole, C!BoundTo
  <2> QED
    BY <2>1, <2>3, <2>4 DEF C!ProjectIsWhole
<1> QED
  BY <1>1, <1>2 DEF C!Check

LEMMA WholeForgetApps ==
  ASSUME BaseHeld, WholeHeld,
         \/ C!ForgetApp
         \/ \E id \in Installations : C!ForgetInstallation(id)
         \/ C!ForgetChannelApp
         \/ \E team \in Workspaces : C!ForgetWorkspace(team)
  PROVE  WholeHeld'
<1> DEFINE s == configured
<1>0. /\ StateTyped(s) /\ s.app \in Apps /\ s.channelApp \in ChannelApps /\ C!Check(s)
      /\ s.app.key = 0 => s.app.installations = {}
      /\ s.channelApp.client = C!None => s.channelApp.workspaces = {}
  BY StateParts DEF BaseHeld, StateHeld, WholeHeld, WholeIn
<1>1. ASSUME NEW x \in Apps, C!Keep([s EXCEPT !.app = x]), x.key \in {0, s.app.key},
             x.key = 0 => x.installations = {},
             \A id \in s.app.installations :
               id \in x.installations \/ C!ReachingThrough(s, {id}) = {}
      PROVE  WholeHeld'
  <2> DEFINE t == [s EXCEPT !.app = x]
  <2>1. /\ t.purses = s.purses /\ t.projects = s.projects /\ t.app = x
        /\ t.channelApp = s.channelApp
    BY <1>0, AppSet
  <2>2. C!Keep(t)
    BY <1>1
  <2> HIDE DEF t, s
  <2>3. C!Check(t)
    BY <1>0, <1>1, <2>1, CheckFewer, Zenon
  <2>4. WholeIn(t)
    BY <1>0, <1>1, <2>1, <2>3 DEF WholeIn
  <2> QED
    BY <1>1, <2>1, <2>2, <2>4, WholeKeep DEF s
<1>2. ASSUME NEW x \in ChannelApps, C!Keep([s EXCEPT !.channelApp = x]),
             x.client \in {C!None, s.channelApp.client},
             x.client = C!None => x.workspaces = {},
             \A team \in s.channelApp.workspaces :
               team \in x.workspaces \/ C!BoundTo(s, {team}) = {}
      PROVE  WholeHeld'
  <2> DEFINE t == [s EXCEPT !.channelApp = x]
  <2>1. /\ t.purses = s.purses /\ t.projects = s.projects /\ t.channelApp = x
        /\ t.app = s.app
    BY <1>0, ChannelAppSet
  <2>2. C!Keep(t)
    BY <1>2
  <2> HIDE DEF t, s
  <2>3. C!Check(t)
    BY <1>0, <1>2, <2>1, CheckFewer, Zenon
  <2>4. WholeIn(t)
    BY <1>0, <1>2, <2>1, <2>3 DEF WholeIn
  <2> QED
    BY <1>2, <2>1, <2>2, <2>4, WholeKeep DEF s
<1>3. CASE C!ForgetApp
  <2> DEFINE x == [key |-> 0, installations |-> {}]
  <2>1. x \in Apps /\ x.key = 0 /\ x.installations = {}
    BY DEF Apps
  <2>2. C!Keep([s EXCEPT !.app = x]) /\ C!ReachingThrough(s, Installations) = {}
    BY <1>3 DEF C!ForgetApp
  <2>3. \A id \in s.app.installations : C!ReachingThrough(s, {id}) = {}
    BY <1>0, <2>2 DEF C!ReachingThrough, Apps
  <2> HIDE DEF x, s
  <2> QED
    BY <1>1, <2>1, <2>2, <2>3
<1>4. ASSUME NEW id \in Installations, C!ForgetInstallation(id) PROVE WholeHeld'
  <2> DEFINE x == [s.app EXCEPT !.installations = @ \ {id}]
  <2>1. x \in Apps /\ x.key = s.app.key /\ x.installations = s.app.installations \ {id}
    BY <1>0 DEF Apps
  <2>2. C!Keep([s EXCEPT !.app = x]) /\ C!ReachingThrough(s, {id}) = {}
    <3>1. [s EXCEPT !.app.installations = @ \ {id}] = [s EXCEPT !.app = x]
      OBVIOUS
    <3> QED
      BY <1>4, <3>1 DEF C!ForgetInstallation
  <2> HIDE DEF x, s
  <2> QED
    BY <1>0, <1>1, <2>1, <2>2
<1>5. CASE C!ForgetChannelApp
  <2> DEFINE x == [client |-> C!None, ear |-> C!None, workspaces |-> {}]
  <2>1. x \in ChannelApps /\ x.client = C!None /\ x.workspaces = {}
    BY DEF ChannelApps
  <2>2. C!Keep([s EXCEPT !.channelApp = x]) /\ C!BoundTo(s, Workspaces) = {}
    BY <1>5 DEF C!ForgetChannelApp
  <2>3. \A team \in s.channelApp.workspaces : C!BoundTo(s, {team}) = {}
    BY <1>0, <2>2 DEF C!BoundTo, ChannelApps
  <2> HIDE DEF x, s
  <2> QED
    BY <1>2, <2>1, <2>2, <2>3
<1>6. ASSUME NEW team \in Workspaces, C!ForgetWorkspace(team) PROVE WholeHeld'
  <2> DEFINE x == [s.channelApp EXCEPT !.workspaces = @ \ {team}]
  <2>1. /\ x \in ChannelApps /\ x.client = s.channelApp.client
        /\ x.workspaces = s.channelApp.workspaces \ {team}
    BY <1>0 DEF ChannelApps
  <2>2. C!Keep([s EXCEPT !.channelApp = x]) /\ C!BoundTo(s, {team}) = {}
    <3>1. [s EXCEPT !.channelApp.workspaces = @ \ {team}] = [s EXCEPT !.channelApp = x]
      OBVIOUS
    <3> QED
      BY <1>6, <3>1 DEF C!ForgetWorkspace
  <2> HIDE DEF x, s
  <2> QED
    BY <1>0, <1>2, <2>1, <2>2, Zenon
<1> QED
  BY <1>3, <1>4, <1>5, <1>6

LEMMA WholeRegisters ==
  ASSUME ~Replaces, BaseHeld, WholeHeld,
         C!Register \/ C!CameBack \/ \E accepts \in BOOLEAN : C!Exchanged(accepts)
  PROVE  WholeHeld'
<1>0. registering \in Nat /\ exchanging \in Nat /\ Remembered \in Nat
  BY ConfigurationAssumed DEF BaseHeld, ReturnsHeld
<1>1. CASE C!Register
  <2>1. /\ configured.app.key = 0 /\ registering + exchanging = 0
        /\ registering' \in {registering, registering + 1}
        /\ UNCHANGED <<configured, exchanging, checking>>
    BY <1>1 DEF C!Register
  <2>1a. registering = 0 /\ exchanging = 0
    BY <1>0, <2>1
  <2>1b. registering' \in {0, 1} /\ exchanging' = 0 /\ configured'.app.key = 0
    BY <2>1, <2>1a
  <2>2. /\ registering' + exchanging' <= 1
        /\ registering' + exchanging' > 0 => configured'.app.key = 0
    <3>1. CASE registering' = 0
      BY <2>1b, <3>1
    <3>2. CASE registering' = 1
      BY <2>1b, <3>2
    <3> QED
      BY <2>1b, <3>1, <3>2, Zenon
  <2> QED
    BY <2>1, <2>2 DEF WholeHeld, Alone, Registers
<1>2. CASE C!CameBack
  <2>1. /\ registering' = registering - 1 /\ exchanging' = exchanging + 1
        /\ UNCHANGED <<configured, checking>>
    BY <1>2 DEF C!CameBack
  <2>2. registering' + exchanging' = registering + exchanging
    BY <1>0, <2>1
  <2> QED
    BY <2>1, <2>2 DEF WholeHeld, Alone, Registers
<1>3. ASSUME NEW accepts \in BOOLEAN, C!Exchanged(accepts) PROVE WholeHeld'
  <2>1. /\ exchanging > 0 /\ exchanging' = exchanging - 1
        /\ UNCHANGED <<registering, checking>>
        /\ configured' = IF accepts
                         THEN [configured EXCEPT !.app = [key |-> C!Minted, installations |-> {}]]
                         ELSE configured
    BY <1>3 DEF C!Exchanged
  <2>2. registering' + exchanging' = 0 /\ configured.app.key = 0
    BY <1>0, <2>1 DEF WholeHeld, Alone
  <2>3. CASE configured' = configured
    BY <2>1, <2>2, <2>3 DEF WholeHeld, Alone, Registers
  <2>4. CASE accepts
    <3> DEFINE x == [key |-> C!Minted, installations |-> {}]
    <3>1. x \in Apps /\ x.key # 0
      BY MintedIs DEF BaseHeld, Apps
    <3>2. configured' = [configured EXCEPT !.app = x]
      BY <2>1, <2>4
    <3>3. configured.app.installations \subseteq x.installations
      BY <2>2 DEF WholeHeld, WholeIn
    <3> HIDE DEF x
    <3>4. /\ configured'.purses = configured.purses /\ configured'.projects = configured.projects
          /\ configured'.app = x /\ configured'.channelApp = configured.channelApp
      BY <3>1, <3>2, AppSet DEF BaseHeld, StateHeld
    <3>5. C!Check(configured')
      BY <3>3, <3>4, CheckMore DEF WholeHeld, WholeIn
    <3> QED
      BY <2>1, <2>2, <3>1, <3>4, <3>5 DEF WholeHeld, WholeIn, Alone, Registers
  <2> QED
    BY <2>1, <2>3, <2>4
<1> QED
  BY <1>1, <1>2, <1>3

LEMMA WholeReturns ==
  ASSUME BaseHeld, WholeHeld,
         \/ \E install \in installs, accepts \in BOOLEAN : C!InstalledAnswered(install, accepts)
         \/ \E exchange \in exchanges, accepts \in BOOLEAN : C!WorkspaceExchanged(exchange, accepts)
  PROVE  WholeHeld'
<1>0. StateTyped(configured) /\ configured.app \in Apps /\ configured.channelApp \in ChannelApps
  BY StateParts DEF BaseHeld, StateHeld
<1>1. ASSUME NEW install \in installs, NEW accepts \in BOOLEAN, C!InstalledAnswered(install, accepts)
      PROVE  WholeHeld'
  <2> DEFINE x == [configured.app EXCEPT !.installations =
                     configured.app.installations \union {install.id}]
  <2>1. install.id \in Installations
    BY DEF BaseHeld, ReturnsHeld
  <2>2. /\ x \in Apps /\ x.key = configured.app.key
        /\ configured.app.installations \subseteq x.installations
    BY <1>0, <2>1 DEF Apps
  <2>3. /\ UNCHANGED <<registering, exchanging, checking>>
        /\ \/ UNCHANGED configured
           \/ configured.app.key # 0 /\ configured' = [configured EXCEPT !.app = x]
    BY <1>1, InstalledIs
  <2> HIDE DEF x
  <2>4. CASE UNCHANGED configured
    BY <2>3, <2>4 DEF WholeHeld, Alone, Registers
  <2>5. CASE configured.app.key # 0 /\ configured' = [configured EXCEPT !.app = x]
    <3>1. /\ configured'.purses = configured.purses /\ configured'.projects = configured.projects
          /\ configured'.app = x /\ configured'.channelApp = configured.channelApp
      BY <1>0, <2>2, <2>5, AppSet
    <3>2. C!Check(configured')
      BY <2>2, <3>1, CheckMore DEF WholeHeld, WholeIn
    <3>3. WholeIn(configured')
      BY <2>2, <2>5, <3>1, <3>2 DEF WholeHeld, WholeIn
    <3> QED
      BY <2>2, <2>3, <3>1, <3>3, WholeAlone
  <2> QED
    BY <2>3, <2>4, <2>5
<1>2. ASSUME NEW exchange \in exchanges, NEW accepts \in BOOLEAN, C!WorkspaceExchanged(exchange, accepts)
      PROVE  WholeHeld'
  <2> DEFINE x == [configured.channelApp EXCEPT !.workspaces =
                     configured.channelApp.workspaces \union {exchange.team}]
  <2>1. exchange.team \in Workspaces
    BY DEF BaseHeld, ReturnsHeld
  <2>2. /\ x \in ChannelApps /\ x.client = configured.channelApp.client
        /\ configured.channelApp.workspaces \subseteq x.workspaces
    BY <1>0, <2>1 DEF ChannelApps
  <2>3. /\ UNCHANGED <<registering, exchanging, checking>>
        /\ \/ UNCHANGED configured
           \/ /\ configured.channelApp.client # C!None
              /\ configured' = [configured EXCEPT !.channelApp = x]
    BY <1>2, ExchangedIs
  <2> HIDE DEF x
  <2>4. CASE UNCHANGED configured
    BY <2>3, <2>4 DEF WholeHeld, Alone, Registers
  <2>5. CASE /\ configured.channelApp.client # C!None
             /\ configured' = [configured EXCEPT !.channelApp = x]
    <3>1. /\ configured'.purses = configured.purses /\ configured'.projects = configured.projects
          /\ configured'.app = configured.app /\ configured'.channelApp = x
      BY <1>0, <2>2, <2>5, ChannelAppSet
    <3>2. C!Check(configured')
      BY <2>2, <3>1, CheckMore DEF WholeHeld, WholeIn
    <3>3. WholeIn(configured')
      BY <2>2, <2>5, <3>1, <3>2 DEF WholeHeld, WholeIn
    <3> QED
      BY <2>2, <2>3, <3>1, <3>3, WholeAlone
  <2> QED
    BY <2>3, <2>4, <2>5
<1> QED
  BY <1>1, <1>2

LEMMA WholeTabs ==
  ASSUME WholeHeld,
         \/ C!InstallLink \/ C!WorkspaceLink
         \/ \E tab \in C!Tabs \union {C!Unsaid}, id \in Installations : C!CameBackInstalled(tab, id)
         \/ \E tab \in C!Tabs \union {C!Unsaid}, team \in Workspaces : C!CameBackWorkspace(tab, team)
  PROVE  WholeHeld'
<1>1. UNCHANGED <<configured, checking, registering, exchanging>>
  BY DEF C!InstallLink, C!WorkspaceLink, C!OpenTab, C!pending, C!CameBackInstalled,
         C!CameBackWorkspace, C!ComesBack
<1> QED
  BY <1>1 DEF WholeHeld, Alone, Registers

LEMMA WholeNext ==
  ASSUME ~Replaces, BaseHeld, WholeHeld, C!Next
  PROVE  WholeHeld'
<1>1. CASE C!Asks
  BY <1>1, WholeRequested DEF C!Asks
<1>2. CASE C!Answers
  BY <1>2, WholeChecked, WholeRegisters, WholeReturns DEF C!Answers
<1>3. CASE C!Forgets
  BY <1>3, WholeForgetPurse, WholeForget, WholeForgetApps DEF C!Forgets
<1>4. CASE C!Works
  BY <1>4, WorkIs, WholeWorks DEF C!Works
<1>5. CASE C!Installing
  BY <1>5, WholeRegisters, WholeTabs DEF C!Installing
<1> QED
  BY <1>1, <1>2, <1>3, <1>4, <1>5 DEF C!Next

LEMMA WholeBegins == ASSUME C!Init PROVE WholeHeld
<1>1. \A i \in C!Slots : ~Registers(i)
  BY NotHeldIs DEF C!Init, Registers
<1>2. Alone
  BY <1>1 DEF C!Init, Alone
<1> QED
  BY <1>2, StartIs DEF WholeHeld, WholeIn

----------------------------------------------------------------------------
(* What a project reaches its repository with, read twice or not.             *)

\* What a project reaches was accepted and its token is its owner's, unless it was
\* read again; even so its token was accepted somewhere, and is said to be of someone.
Vouched(x, p, acc, again) ==
  /\ p \notin again =>
       /\ C!Reach(x) \in acc
       /\ x.access.kind = "Token" => x.access.owner = x.access.secret
  /\ x.access.kind = "Token" =>
       /\ x.access.owner # C!None /\ x.access.secret # C!None
       /\ \E a \in acc : a[1] = x.access.secret

ReachedIn(s, acc, again) == \A p \in C!Watched(s) : Vouched(s.projects[p], p, acc, again)

Changing(request) == request.op \in {"Create", "Amend"}

SaysToken(draft) == draft.access.kind = "Token" /\ draft.access.token # C!None

\* What a draft says of an access holds of whatever it is read to come to.
OfItsKind(draft, d) ==
  /\ draft.access.kind = "App" => d.access.kind = "Installation"
  /\ draft.access.kind = "Token" => d.access.kind = "Token" /\ d.access.secret # C!None
  /\ SaysToken(draft) => d.access = C!Token(draft.access.token, C!None)

\* Either it reaches what its project did, and nothing was asked of that; or it was
\* asked, and a platform has yet to answer, has refused, or has accepted it.
AsItWas(h, d, acc, again) ==
  /\ h.request.op = "Amend" /\ ~SaysToken(h.request.draft) /\ h.learned = C!None
  /\ h.outstanding \intersect {"Token", "Owner", "Covered"} = {}
  /\ h.request.project \in again \/ C!Reach(d) \in acc
AsAccepted(h, d, acc) ==
  \/ h.refused
  \/ /\ \/ h.outstanding \intersect {"Token", "Covered"} # {}
        \/ C!Reach(d) \in acc
     /\ d.access.kind = "Token" => "Owner" \in h.outstanding \/ h.learned = d.access.secret

Stands(h, acc, again) ==
  Changing(h.request) =>
    \E d \in Readings :
      /\ h.drafted = {d} /\ OfItsKind(h.request.draft, d)
      /\ AsItWas(h, d, acc, again) \/ AsAccepted(h, d, acc)

ReachHeld ==
  /\ ReachedIn(configured, accepted, reread)
  /\ \A i \in C!Slots : Stands(checking[i], accepted, reread)

\* One state reaches no more than another.
ReachesAs(s, t) ==
  \A p \in C!Watched(t) :
    /\ p \in C!Watched(s) /\ t.projects[p].access = s.projects[p].access
    /\ t.projects[p].repository = s.projects[p].repository

\* What was accepted stays so, as what was read again does.
LEMMA VouchedOn ==
  ASSUME NEW x, NEW y, y.access = x.access, y.repository = x.repository, NEW p,
         NEW acc, NEW again, Vouched(x, p, acc, again),
         NEW bcc, acc \subseteq bcc, NEW more, again \subseteq more
  PROVE  Vouched(y, p, bcc, more)
<1>1. C!Reach(y) = C!Reach(x)
  BY DEF C!Reach
<1> QED
  BY <1>1 DEF Vouched

LEMMA ReachedOn ==
  ASSUME NEW s, NEW t, NEW acc, NEW again, ReachedIn(s, acc, again), ReachesAs(s, t),
         NEW bcc, acc \subseteq bcc, NEW more, again \subseteq more
  PROVE  ReachedIn(t, bcc, more)
<1> SUFFICES ASSUME NEW p \in C!Watched(t) PROVE Vouched(t.projects[p], p, bcc, more)
  BY DEF ReachedIn
<1>1. /\ p \in C!Watched(s) /\ t.projects[p].access = s.projects[p].access
      /\ t.projects[p].repository = s.projects[p].repository
  BY DEF ReachesAs
<1>2. Vouched(s.projects[p], p, acc, again)
  BY <1>1 DEF ReachedIn
<1> QED
  BY <1>1, <1>2, VouchedOn

LEMMA StandsOn ==
  ASSUME NEW h, NEW acc, NEW again, Stands(h, acc, again),
         NEW bcc, acc \subseteq bcc, NEW more, again \subseteq more
  PROVE  Stands(h, bcc, more)
<1> SUFFICES ASSUME Changing(h.request)
             PROVE  \E d \in Readings :
                      /\ h.drafted = {d} /\ OfItsKind(h.request.draft, d)
                      /\ AsItWas(h, d, bcc, more) \/ AsAccepted(h, d, bcc)
  BY DEF Stands
<1>1. PICK d \in Readings : /\ h.drafted = {d} /\ OfItsKind(h.request.draft, d)
                            /\ AsItWas(h, d, acc, again) \/ AsAccepted(h, d, acc)
  BY DEF Stands
<1>2. AsItWas(h, d, acc, again) => AsItWas(h, d, bcc, more)
  BY DEF AsItWas
<1>3. AsAccepted(h, d, acc) => AsAccepted(h, d, bcc)
  BY DEF AsAccepted
<1> QED
  BY <1>1, <1>2, <1>3

LEMMA SameReaches ==
  ASSUME NEW s, NEW t, t.projects = s.projects
  PROVE  ReachesAs(s, t)
BY SameProjects DEF ReachesAs

\* What no request keeps.
LEMMA ReachFrom ==
  ASSUME ReachHeld, UNCHANGED <<checking, accepted, reread>>, ReachesAs(configured, configured')
  PROVE  ReachHeld'
<1>1. ReachedIn(configured', accepted, reread)
  BY ReachedOn DEF ReachHeld
<1> QED
  BY <1>1 DEF ReachHeld

LEMMA ReachKeep ==
  ASSUME ReachHeld, NEW s, C!Keep(s), ReachesAs(configured, s)
  PROVE  ReachHeld'
<1>1. configured' = s /\ UNCHANGED <<checking, accepted, reread>>
  BY DEF C!Keep
<1> QED
  BY <1>1, ReachFrom

LEMMA ReachForgets ==
  ASSUME BaseHeld, ReachHeld, C!Forgets
  PROVE  ReachHeld'
<1>0. StateTyped(configured)
  BY DEF BaseHeld, StateHeld
<1>1. ASSUME NEW p \in Trackable, C!Forget(p) PROVE ReachHeld'
  <2> DEFINE t == Put(configured, p, C!Forgotten)
  <2>1. C!Keep(t)
    BY <1>1 DEF C!Forget, C!WithProject, Put
  <2>2. C!Forgotten \in Standings /\ C!Forgotten \notin Projected
    BY DEF Standings, C!Forgotten, Projected
  <2>3. Placed(configured, p, C!Forgotten)
    BY <1>0, <2>2, ProjectSet
  <2>4. /\ StateTyped(t) /\ t.projects[p] = C!Forgotten
        /\ \A q \in Trackable : q # p => t.projects[q] = configured.projects[q]
    BY <2>3 DEF Placed
  <2> HIDE DEF t
  <2>5. ReachesAs(configured, t)
    BY <1>0, <2>2, <2>4, WatchedIs DEF ReachesAs
  <2> QED
    BY <2>1, <2>5, ReachKeep
<1>2. ASSUME ~\E p \in Trackable : C!Forget(p) PROVE ReachHeld'
  <2>1. PICK s : C!Keep(s) /\ s.projects = configured.projects
    <3>1. /\ \A x : [configured EXCEPT !.purses = x].projects = configured.projects
          /\ \A x : [configured EXCEPT !.app = x].projects = configured.projects
          /\ \A x : [configured EXCEPT !.channelApp = x].projects = configured.projects
      BY <1>0 DEF StateTyped
    <3>2. ASSUME NEW payer \in Payers, C!ForgetPurse(payer)
          PROVE  \E s : C!Keep(s) /\ s.projects = configured.projects
      <4> DEFINE s == [configured EXCEPT !.purses = configured.purses \ {payer}]
      <4>1. C!Keep(s)
        BY <3>2 DEF C!ForgetPurse
      <4>2. s.projects = configured.projects
        BY <3>1
      <4> HIDE DEF s
      <4> QED
        BY <4>1, <4>2
    <3>3. ASSUME C!ForgetApp
          PROVE  \E s : C!Keep(s) /\ s.projects = configured.projects
      BY <3>1, <3>3, Zenon DEF C!ForgetApp
    <3>4. ASSUME NEW id \in Installations, C!ForgetInstallation(id)
          PROVE  \E s : C!Keep(s) /\ s.projects = configured.projects
      <4> DEFINE s == [configured EXCEPT !.app = [configured.app EXCEPT !.installations = configured.app.installations \ {id}]]
      <4>1. C!Keep(s)
        BY <3>4 DEF C!ForgetInstallation
      <4>2. s.projects = configured.projects
        BY <3>1
      <4> HIDE DEF s
      <4> QED
        BY <4>1, <4>2
    <3>5. ASSUME C!ForgetChannelApp
          PROVE  \E s : C!Keep(s) /\ s.projects = configured.projects
      BY <3>1, <3>5, Zenon DEF C!ForgetChannelApp
    <3>6. ASSUME NEW team \in Workspaces, C!ForgetWorkspace(team)
          PROVE  \E s : C!Keep(s) /\ s.projects = configured.projects
      <4> DEFINE s == [configured EXCEPT !.channelApp =
                        [configured.channelApp EXCEPT !.workspaces = configured.channelApp.workspaces \ {team}]]
      <4>1. C!Keep(s)
        BY <3>6 DEF C!ForgetWorkspace
      <4>2. s.projects = configured.projects
        BY <3>1
      <4> HIDE DEF s
      <4> QED
        BY <4>1, <4>2
    <3> QED
      BY <1>2, <3>2, <3>3, <3>4, <3>5, <3>6 DEF C!Forgets
  <2> QED
    BY <2>1, SameReaches, ReachKeep
<1> QED
  BY <1>1, <1>2

LEMMA ReachWorks ==
  ASSUME BaseHeld, ReachHeld, NEW p \in Trackable, NEW job, JobStep(p, job)
  PROVE  ReachHeld'
<1> DEFINE old == configured.projects[p]
           x == [old EXCEPT !.job = job]
           t == Put(configured, p, x)
<1>0. StateTyped(configured) /\ p \in C!Watched(configured) /\ old \in Projected
  BY WatchedIs DEF BaseHeld, StateHeld, JobStep
<1>1. x \in Projected /\ x.access = old.access /\ x.repository = old.repository
  BY <1>0 DEF Projected, JobStep
<1>2. C!Keep(t)
  BY DEF JobStep
<1> HIDE DEF x
<1>3. x \in Standings
  BY <1>1 DEF Standings
<1>4. Placed(configured, p, x)
  BY <1>0, <1>3, ProjectSet
<1>5. /\ StateTyped(t) /\ t.projects[p] = x
      /\ \A q \in Trackable : q # p => t.projects[q] = configured.projects[q]
  BY <1>4 DEF Placed
<1> HIDE DEF t, old
<1>6. \A q \in C!Watched(t) : q \in Trackable /\ q \in C!Watched(configured)
  BY <1>0, <1>5, WatchedIs
<1>7. ReachesAs(configured, t)
  BY <1>1, <1>5, <1>6 DEF ReachesAs, old
<1> QED
  BY <1>2, <1>7, ReachKeep

LEMMA ReachRegisters ==
  ASSUME BaseHeld, ReachHeld,
         C!Register \/ C!CameBack \/ \E accepts \in BOOLEAN : C!Exchanged(accepts)
  PROVE  ReachHeld'
<1>1. UNCHANGED <<checking, accepted, reread>>
  BY DEF C!Register, C!CameBack, C!Exchanged
<1>2. \A x : [configured EXCEPT !.app = x].projects = configured.projects
  BY DEF BaseHeld, StateHeld, StateTyped
<1>3. configured'.projects = configured.projects
  BY <1>2, Zenon DEF C!Register, C!CameBack, C!Exchanged
<1> QED
  BY <1>1, <1>3, SameReaches, ReachFrom

LEMMA ReachTabs ==
  ASSUME ReachHeld,
         \/ C!InstallLink \/ C!WorkspaceLink
         \/ \E tab \in C!Tabs \union {C!Unsaid}, id \in Installations : C!CameBackInstalled(tab, id)
         \/ \E tab \in C!Tabs \union {C!Unsaid}, team \in Workspaces : C!CameBackWorkspace(tab, team)
  PROVE  ReachHeld'
<1>1. UNCHANGED <<configured, checking, accepted, reread>>
  BY DEF C!InstallLink, C!WorkspaceLink, C!OpenTab, C!CameBackInstalled, C!CameBackWorkspace,
         C!ComesBack
<1> QED
  BY <1>1, SameReaches, ReachFrom

LEMMA ReachReturns ==
  ASSUME BaseHeld, ReachHeld,
         \/ \E install \in installs, accepts \in BOOLEAN : C!InstalledAnswered(install, accepts)
         \/ \E exchange \in exchanges, accepts \in BOOLEAN : C!WorkspaceExchanged(exchange, accepts)
  PROVE  ReachHeld'
<1>0. /\ \A x : [configured EXCEPT !.app = x].projects = configured.projects
      /\ \A x : [configured EXCEPT !.channelApp = x].projects = configured.projects
  BY DEF BaseHeld, StateHeld, StateTyped
<1>1. configured'.projects = configured.projects /\ UNCHANGED <<checking, accepted, reread>>
  BY <1>0, InstalledIs, ExchangedIs, Zenon
<1> QED
  BY <1>1, SameReaches, ReachFrom

----------------------------------------------------------------------------
(* A change read, asked about, and read again.                               *)

\* What a draft is read to come to for a project: what it says is so of it, and
\* a token it leaves unsaid is the one the project has.
ReadFor(request, e, p) ==
  /\ e \in Readings
  /\ request.draft.access.kind = "App" => e.access.kind = "Installation"
  /\ SaysToken(request.draft) => e.access = C!Token(request.draft.access.token, C!None)
  /\ request.draft.access.kind = "Token" /\ ~SaysToken(request.draft) =>
       /\ p \in C!Watched(configured) /\ e.access = configured.projects[p].access
       /\ e.access.kind = "Token"

LEMMA ReadIs ==
  ASSUME BaseHeld, NEW request \in C!Requests, Changing(request),
         NEW p, request.op = "Amend" => p = request.project,
         NEW e \in C!Drafted(request.draft, C!HeldBy(request))
  PROVE  ReadFor(request, e, p)
<1> DEFINE held == C!HeldBy(request)
           draft == request.draft
<1>1. draft \in C!Said /\ held \in SUBSET Projected
  BY RequestIs, HeldByProjected DEF Changing, BaseHeld, StateHeld
<1>2. e \in Readings /\ e.access \in C!AccessOf(draft.access, held)
  BY <1>1, DraftedIs DEF BaseHeld
<1>3. ASSUME draft.access.kind = "App" PROVE e.access.kind = "Installation"
  BY <1>2, <1>3 DEF C!AccessOf, C!Installed
<1>4. ASSUME SaysToken(draft) PROVE e.access = C!Token(draft.access.token, C!None)
  BY <1>2, <1>4 DEF C!AccessOf, SaysToken
<1>5. ASSUME draft.access.kind = "Token", ~SaysToken(draft)
      PROVE  /\ p \in C!Watched(configured) /\ e.access = configured.projects[p].access
             /\ e.access.kind = "Token"
  <2>1. PICK x \in held : e.access = x.access /\ x.access.kind = "Token"
    BY <1>2, <1>5 DEF C!AccessOf, SaysToken
  <2>2. p \in C!Watched(configured) /\ x = configured.projects[p]
    BY <2>1, HeldByIs
  <2> QED
    BY <2>1, <2>2
<1> QED
  BY <1>2, <1>3, <1>4, <1>5 DEF ReadFor

\* It is of its draft's kind, as each time it is read.
LEMMA ReadOfItsKind ==
  ASSUME NEW request, Changing(request), NEW p, NEW d, ReadFor(request, d, p),
         NEW acc, NEW again, ReachedIn(configured, acc, again)
  PROVE  OfItsKind(request.draft, d)
<1>1. ASSUME request.draft.access.kind = "Token", SaysToken(request.draft)
      PROVE  d.access.kind = "Token" /\ d.access.secret # C!None
  BY <1>1 DEF ReadFor, C!Token, SaysToken
<1>2. ASSUME request.draft.access.kind = "Token", ~SaysToken(request.draft)
      PROVE  d.access.kind = "Token" /\ d.access.secret # C!None
  <2>1. /\ p \in C!Watched(configured) /\ d.access = configured.projects[p].access
        /\ d.access.kind = "Token"
    BY <1>2 DEF ReadFor
  <2>2. Vouched(configured.projects[p], p, acc, again)
    BY <2>1 DEF ReachedIn
  <2> QED
    BY <2>1, <2>2 DEF Vouched
<1> QED
  BY <1>1, <1>2 DEF ReadFor, OfItsKind

\* What a request has been told by the time it is kept.
Due(request, d, learned, acc, again) ==
  \/ /\ request.op = "Amend" /\ ~SaysToken(request.draft) /\ learned = C!None
     /\ request.project \in again \/ C!Reach(d) \in acc
  \/ C!Reach(d) \in acc /\ (d.access.kind = "Token" => learned = d.access.secret)

\* What was drafted is what was asked about, or what is kept needs no asking.
KeptOn(request, drafted, learned, acc, again) ==
  Changing(request) =>
    \E d \in Readings : /\ drafted = {d} /\ OfItsKind(request.draft, d)
                        /\ Due(request, d, learned, acc, again)

LEMMA StandsDue ==
  ASSUME NEW h, NEW acc, NEW again, Stands(h, acc, again), h.outstanding = {}, ~h.refused
  PROVE  KeptOn(h.request, h.drafted, h.learned, acc, again)
<1> SUFFICES ASSUME Changing(h.request)
             PROVE  \E d \in Readings : /\ h.drafted = {d} /\ OfItsKind(h.request.draft, d)
                                        /\ Due(h.request, d, h.learned, acc, again)
  BY DEF KeptOn
<1>1. PICK d \in Readings : /\ h.drafted = {d} /\ OfItsKind(h.request.draft, d)
                            /\ AsItWas(h, d, acc, again) \/ AsAccepted(h, d, acc)
  BY DEF Stands
<1>2. Due(h.request, d, h.learned, acc, again)
  BY <1>1 DEF AsItWas, AsAccepted, Due
<1> QED
  BY <1>1, <1>2

\* A token learned to be someone's is said to be of someone; one nothing was learned
\* of is said to be of whom it was.
LEMMA ToldIsOf ==
  ASSUME NEW a \in C!Accesses, NEW learned \in Learned
  PROVE  /\ C!ToldOf(a, learned).kind = a.kind
         /\ a.kind = "Token" => C!ToldOf(a, learned).secret = a.secret
         /\ a.kind = "Token" /\ learned # C!None => C!ToldOf(a, learned).owner = learned
         /\ learned = C!None \/ a.kind # "Token" => C!ToldOf(a, learned) = a
BY DEF C!ToldOf, C!Token, C!Accesses

\* What is kept is vouched for, unless it came to something else than was asked.
LEMMA VouchedKept ==
  ASSUME NEW request, Changing(request), NEW acc, NEW again,
         ReachedIn(configured, acc, again),
         NEW d \in Readings, OfItsKind(request.draft, d),
         NEW learned \in Learned, Due(request, d, learned, acc, again),
         request.draft.access.kind \in {"App", "Token"},
         NEW p, request.op = "Amend" => p = request.project,
         NEW e, ReadFor(request, e, p), NEW job \in C!Jobs,
         NEW x, x = C!Project(e, learned, job),
         NEW more, again \subseteq more, C!Reach(d) # C!Reach(x) => p \in more
  PROVE  Vouched(x, p, acc, more)
<1>0. e \in Readings /\ e.access \in C!Accesses
  BY DEF ReadFor, Readings
<1>1. x.repository = e.repository /\ x.access = C!ToldOf(e.access, learned)
  BY <1>0, ProjectIs
<1>2. CASE request.draft.access.kind = "App"
  <2>1. e.access.kind = "Installation" /\ d.access.kind = "Installation"
    BY <1>2 DEF ReadFor, OfItsKind
  <2>2. x.access.kind = "Installation"
    BY <1>0, <1>1, <2>1, ToldIsOf
  <2>3. p \notin more => C!Reach(d) \in acc /\ C!Reach(x) = C!Reach(d)
    BY DEF Due
  <2> QED
    BY <2>2, <2>3 DEF Vouched
<1>3. CASE SaysToken(request.draft)
  <2>1. /\ e.access = C!Token(request.draft.access.token, C!None) /\ d.access = e.access
        /\ d.access.kind = "Token" /\ d.access.secret # C!None
    BY <1>3 DEF ReadFor, OfItsKind, SaysToken
  <2>2. C!Reach(d) \in acc /\ learned = d.access.secret
    BY <1>3, <2>1 DEF Due
  <2>3. x.access.secret = d.access.secret /\ x.access.owner = d.access.secret
    BY <1>0, <1>1, <2>1, <2>2, ToldIsOf
  <2>4. C!Reach(d)[1] = x.access.secret
    BY <2>1, <2>3 DEF C!Reach
  <2>5. p \notin more => C!Reach(x) \in acc
    BY <2>2
  <2>6. \E a \in acc : a[1] = x.access.secret
    BY <2>2, <2>4, Zenon
  <2> QED
    BY <2>1, <2>3, <2>5, <2>6, Zenon DEF Vouched
<1>4. CASE request.draft.access.kind = "Token" /\ ~SaysToken(request.draft)
  <2> DEFINE old == configured.projects[p]
  <2>1. p \in C!Watched(configured) /\ e.access = old.access /\ e.access.kind = "Token"
    BY <1>4 DEF ReadFor
  <2>2. Vouched(old, p, acc, again)
    BY <2>1 DEF ReachedIn
  <2>3. d.access.kind = "Token" /\ d.access.secret # C!None
    BY <1>4 DEF OfItsKind
  <2> HIDE DEF old
  <2>4. x.access.kind = "Token" /\ x.access.secret = old.access.secret
    BY <1>0, <1>1, <2>1, ToldIsOf
  <2>5. \E a \in acc : a[1] = x.access.secret
    BY <2>1, <2>2, <2>4 DEF Vouched
  <2>6. CASE learned = C!None
    <3>1. x.access = old.access
      BY <1>0, <1>1, <2>1, <2>6, ToldIsOf
    <3>2. p \in again \/ C!Reach(d) \in acc
      BY <2>3, <2>6 DEF Due
    <3> QED
      BY <2>1, <2>2, <2>5, <3>1, <3>2 DEF Vouched
  <2>7. CASE learned # C!None
    <3>1. x.access.owner = learned
      BY <1>0, <1>1, <2>1, <2>7, ToldIsOf
    <3>2. C!Reach(d) \in acc /\ learned = d.access.secret
      BY <2>3, <2>7 DEF Due
    <3>3. p \notin more => C!Reach(d) = C!Reach(x)
      OBVIOUS
    <3>4. p \notin more => x.access.secret = d.access.secret
      BY <2>3, <2>4, <3>3 DEF C!Reach
    <3>5. x.access.secret # C!None
      BY <2>1, <2>2, <2>4 DEF Vouched
    <3> QED
      BY <2>3, <2>5, <2>7, <3>1, <3>2, <3>3, <3>4, <3>5 DEF Vouched
  <2> QED
    BY <2>6, <2>7
<1> QED
  BY <1>2, <1>3, <1>4

\* What a request kept makes of a project.
LEMMA KeptProject ==
  ASSUME BaseHeld, NEW request \in C!Requests, Changing(request), NEW learned \in Learned,
         NEW s \in C!Candidates(request, learned)
  PROVE  \E p \in Trackable, e \in C!Drafted(request.draft, C!HeldBy(request)), job \in C!Jobs :
           /\ request.op = "Amend" => p = request.project
           /\ s = Put(configured, p, C!Project(e, learned, job))
<1>0. KeptAs(request, learned, s) /\ StateTyped(configured)
  BY CandidateIs DEF BaseHeld, StateHeld
<1>1. CASE request.op = "Create"
  BY <1>0, <1>1, HeldByIs, NoJobIs, Zenon DEF KeptAs
<1>2. CASE request.op = "Amend"
  <2>1. /\ request.project \in Trackable /\ request.project \in C!Watched(configured)
        /\ configured.projects[request.project].job \in C!Jobs
    BY <1>0, <1>2, WatchedIs DEF KeptAs, Projected
  <2> QED
    BY <1>0, <1>2, <2>1, HeldByIs DEF KeptAs
<1> QED
  BY <1>1, <1>2 DEF Changing

\* And of the projects when it is about none.
LEMMA KeptApart ==
  ASSUME BaseHeld, NEW request \in C!Requests, ~Changing(request), NEW learned \in Learned,
         NEW s \in C!Candidates(request, learned)
  PROVE  s.projects = configured.projects
<1>0. KeptAs(request, learned, s) /\ StateTyped(configured)
  BY CandidateIs DEF BaseHeld, StateHeld
<1>1. CASE request.op = "HoldPurse"
  <2>1. configured.purses \union {request.purse} \in SUBSET Payers
    BY <1>0, <1>1, RequestIs, StateParts
  <2> QED
    BY <1>0, <1>1, <2>1, PursesSet DEF KeptAs
<1>2. CASE request.op = "RegisterChannelApp"
  <2> DEFINE y == [client |-> request.client, ear |-> request.ear,
                   workspaces |-> IF configured.channelApp.client = request.client
                                  THEN configured.channelApp.workspaces ELSE {}]
  <2>1. s = [configured EXCEPT !.channelApp = y]
    BY <1>0, <1>2 DEF KeptAs, C!ChannelAppRegistered
  <2>2. y \in ChannelApps
    BY <1>0, <1>2, RequestIs, StateParts DEF ChannelApps
  <2> HIDE DEF y
  <2> QED
    BY <1>0, <2>1, <2>2, ChannelAppSet
<1> QED
  BY <1>1, <1>2, RequestIs DEF Changing

LEMMA ReachCandidate ==
  ASSUME BaseHeld, NEW acc, NEW again, ReachedIn(configured, acc, again),
         NEW request \in C!Requests, NEW learned \in Learned,
         NEW s \in C!Candidates(request, learned),
         NEW drafted, KeptOn(request, drafted, learned, acc, again)
  PROVE  ReachedIn(s, acc, again \union C!Otherwise(s, drafted))
<1> DEFINE more == again \union C!Otherwise(s, drafted)
<1>0. StateTyped(configured) /\ again \subseteq more
  BY DEF BaseHeld, StateHeld
<1>1. CASE ~Changing(request)
  <2>1. ReachesAs(configured, s)
    BY <1>1, KeptApart, SameReaches
  <2> HIDE DEF more
  <2> QED
    BY <1>0, <2>1, ReachedOn
<1>2. CASE Changing(request)
  <2>1. PICK d \in Readings : /\ drafted = {d} /\ OfItsKind(request.draft, d)
                              /\ Due(request, d, learned, acc, again)
    BY <1>2 DEF KeptOn
  <2>2. PICK p \in Trackable, e \in C!Drafted(request.draft, C!HeldBy(request)), job \in C!Jobs :
          /\ request.op = "Amend" => p = request.project
          /\ s = Put(configured, p, C!Project(e, learned, job))
    BY <1>2, KeptProject
  <2> DEFINE x == C!Project(e, learned, job)
  <2>3. ReadFor(request, e, p)
    BY <1>2, <2>2, ReadIs
  <2>4. e \in Readings /\ x \in Projected
    BY <2>3, ProjectIs DEF ReadFor
  <2>5. s = Put(configured, p, x)
    BY <2>2
  <2>6. request.draft.access.kind \in {"App", "Token"}
    BY <1>2, RequestIs DEF Changing, C!Said
  <2>7. x = C!Project(e, learned, job)
    OBVIOUS
  <2> HIDE DEF x
  <2>8. Placed(configured, p, x)
    BY <1>0, <2>4, ProjectSet DEF Standings
  <2>9. /\ StateTyped(s) /\ s.projects[p] = x
        /\ \A q \in Trackable : q # p => s.projects[q] = configured.projects[q]
    BY <2>5, <2>8 DEF Placed
  <2>10. /\ p \in C!Watched(s)
         /\ \A q \in C!Watched(s) : q \in Trackable /\ (q # p => q \in C!Watched(configured))
    BY <1>0, <2>4, <2>9, WatchedIs
  <2>11. Vouched(x, p, acc, more)
    <3>1. CASE x = configured.projects[p]
      <4>1. p \in C!Watched(configured)
        BY <1>0, <2>4, <3>1, WatchedIs
      <4>2. Vouched(x, p, acc, again)
        BY <3>1, <4>1 DEF ReachedIn
      <4> HIDE DEF more
      <4> QED
        BY <1>0, <4>2, VouchedOn
    <3>2. CASE x # configured.projects[p]
      <4>1. C!Reach(d) # C!Reach(x) => p \in more
        BY <2>1, <2>9, <2>10, <3>2 DEF C!Otherwise
      <4> HIDE DEF more
      <4> QED
        BY <1>0, <1>2, <2>1, <2>2, <2>3, <2>6, <2>7, <4>1, VouchedKept
    <3> QED
      BY <3>1, <3>2
  <2> HIDE DEF more
  <2>12. ASSUME NEW q \in C!Watched(s), q # p PROVE Vouched(s.projects[q], q, acc, more)
    <3>1. q \in C!Watched(configured) /\ s.projects[q] = configured.projects[q]
      BY <2>9, <2>10, <2>12
    <3>2. Vouched(configured.projects[q], q, acc, again)
      BY <3>1 DEF ReachedIn
    <3> QED
      BY <1>0, <3>1, <3>2, VouchedOn
  <2>13. ReachedIn(s, acc, more)
    BY <2>9, <2>11, <2>12 DEF ReachedIn
  <2> QED
    BY <2>13 DEF more
<1> QED
  BY <1>1, <1>2

LEMMA ReachRespond ==
  ASSUME BaseHeld, NEW acc, ReachedIn(configured, acc, reread), NEW request \in C!Requests,
         NEW drafted, NEW learned \in Learned, C!Respond(request, drafted, learned),
         KeptOn(request, drafted, learned, acc, reread)
  PROVE  ReachedIn(configured', acc, reread') /\ reread \subseteq reread'
<1>1. CASE UNCHANGED <<configured, reread>>
  BY <1>1
<1>2. ASSUME NEW s \in C!Candidates(request, learned), configured' = s,
             reread' = reread \union C!Otherwise(s, drafted)
      PROVE  ReachedIn(configured', acc, reread') /\ reread \subseteq reread'
  BY <1>2, ReachCandidate
<1> QED
  BY <1>1, <1>2 DEF C!Respond

LEMMA HeldStands ==
  ASSUME BaseHeld, ReachHeld, NEW request \in C!Requests, NEW h, OfHeld(h), HeldForAs(request, h)
  PROVE  Stands(h, accepted, reread)
<1> SUFFICES ASSUME Changing(request)
             PROVE  \E d \in Readings :
                      /\ h.drafted = {d} /\ OfItsKind(request.draft, d)
                      /\ AsItWas(h, d, accepted, reread) \/ AsAccepted(h, d, accepted)
  BY DEF HeldForAs, Stands
<1> DEFINE held == C!HeldBy(request)
<1>1. PICK d \in C!Drafted(request.draft, held) : h.drafted = {d} /\ h.outstanding = C!ChecksOf(d, held)
  BY DEF HeldForAs, Changing
<1>2. PICK p : request.op = "Amend" => p = request.project
  OBVIOUS
<1>3. ReadFor(request, d, p)
  BY <1>2, ReadIs
<1>4. d \in Readings /\ OfItsKind(request.draft, d)
  BY <1>3, ReadOfItsKind DEF ReadFor, ReachHeld
<1>5. CASE C!ReachChanged(d, held)
  <2>1. AsAccepted(h, d, accepted)
    BY <1>1, <1>5 DEF C!ChecksOf, AsAccepted
  <2> QED
    BY <1>1, <1>4, <2>1
<1>6. CASE ~C!ReachChanged(d, held)
  <2>1. PICK x \in held : x.access = d.access /\ x.repository = d.repository
    BY <1>6 DEF C!ReachChanged
  <2>2. /\ request.op = "Amend" /\ request.project \in C!Watched(configured)
        /\ x = configured.projects[request.project]
    BY <2>1, HeldByIs
  <2>3. Vouched(x, request.project, accepted, reread)
    BY <2>2 DEF ReachHeld, ReachedIn
  <2>4. C!Reach(x) = C!Reach(d)
    BY <2>1 DEF C!Reach
  <2>5. ~SaysToken(request.draft)
    <3> SUFFICES ASSUME SaysToken(request.draft) PROVE FALSE
      OBVIOUS
    <3>1. d.access.kind = "Token" /\ d.access.owner = C!None
      BY <1>3 DEF ReadFor, C!Token
    <3> QED
      BY <2>1, <2>3, <3>1 DEF Vouched
  <2>6. h.outstanding \subseteq {"Speaking", "Listening"} /\ h.learned = C!None /\ h.request = request
    BY <1>1, <1>6 DEF C!ChecksOf, HeldForAs
  <2>7. AsItWas(h, d, accepted, reread)
    BY <2>2, <2>3, <2>4, <2>5, <2>6 DEF AsItWas, Vouched
  <2> QED
    BY <1>1, <1>4, <2>7
<1> QED
  BY <1>5, <1>6

LEMMA ToldStands ==
  ASSUME NEW h, OfHeld(h), NEW check \in h.outstanding, NEW accepts \in BOOLEAN,
         NEW acc, NEW again, Stands(h, acc, again),
         NEW bcc, bcc = IF check \in {"Token", "Covered"} /\ accepts
                        THEN acc \union {C!Reach(d) : d \in h.drafted} ELSE acc
  PROVE  Stands(Told(h, check, accepts), bcc, again)
<1> DEFINE now == Told(h, check, accepts)
<1>1. /\ now.request = h.request /\ now.drafted = h.drafted
      /\ now.outstanding = h.outstanding \ {check} /\ now.refused = (h.refused \/ ~accepts)
      /\ ~(check = "Owner" /\ accepts) => now.learned = h.learned
      /\ check = "Owner" /\ accepts =>
           \E d \in Readings : h.drafted = {d} /\ now.learned = d.access.secret
  BY ToldIs
<1> HIDE DEF now
<1> SUFFICES ASSUME Changing(h.request)
             PROVE  \E d \in Readings :
                      /\ now.drafted = {d} /\ OfItsKind(now.request.draft, d)
                      /\ AsItWas(now, d, bcc, again) \/ AsAccepted(now, d, bcc)
  BY <1>1 DEF Stands, now
<1>2. PICK d \in Readings : /\ h.drafted = {d} /\ OfItsKind(h.request.draft, d)
                            /\ AsItWas(h, d, acc, again) \/ AsAccepted(h, d, acc)
  BY DEF Stands
<1>3. acc \subseteq bcc /\ (check \in {"Token", "Covered"} /\ accepts => C!Reach(d) \in bcc)
  BY <1>2
<1>4. AsItWas(h, d, acc, again) => AsItWas(now, d, bcc, again)
  BY <1>1, <1>3 DEF AsItWas
<1>5. AsAccepted(h, d, acc) => AsAccepted(now, d, bcc)
  <2>1. check = "Owner" /\ accepts => now.learned = d.access.secret
    BY <1>1, <1>2
  <2> QED
    BY <1>1, <1>3, <2>1, Zenon DEF AsAccepted
<1> QED
  BY <1>1, <1>2, <1>4, <1>5

LEMMA ReachRequested ==
  ASSUME BaseHeld, ReachHeld, NEW request \in C!Requests, C!Requested(request)
  PROVE  ReachHeld'
<1>0. UNCHANGED accepted
  BY RequestedIs
<1>1. PICK h : /\ HeldForAs(request, h) /\ OfHeld(h)
               /\ \/ /\ h.outstanding = {} /\ C!Respond(request, h.drafted, C!None) /\ UNCHANGED checking
                  \/ /\ h.outstanding # {}
                     /\ \E i \in C!Slots \ C!HeldSlots : checking' = [checking EXCEPT ![i] = h]
                     /\ UNCHANGED <<configured, begun, wbegun, spent, reread>>
  BY RequestedIs
<1>2. Stands(h, accepted, reread)
  BY <1>1, HeldStands
<1>3. CASE h.outstanding = {} /\ C!Respond(request, h.drafted, C!None) /\ UNCHANGED checking
  <2>1. /\ C!None \in Learned /\ h.request = request /\ h.learned = C!None /\ ~h.refused
    BY <1>1 DEF HeldForAs, Learned
  <2>2. KeptOn(request, h.drafted, C!None, accepted, reread)
    BY <1>2, <1>3, <2>1, StandsDue
  <2>3. ReachedIn(configured', accepted, reread') /\ reread \subseteq reread'
    BY <1>3, <2>1, <2>2, ReachRespond DEF ReachHeld
  <2>4. \A j \in C!Slots : Stands(checking[j], accepted, reread')
    BY <2>3, StandsOn DEF ReachHeld
  <2> QED
    BY <1>0, <1>3, <2>3, <2>4 DEF ReachHeld
<1>4. ASSUME NEW i \in C!Slots, checking' = [checking EXCEPT ![i] = h],
             UNCHANGED <<configured, reread>>
      PROVE  ReachHeld'
  <2>1. checking'[i] = h /\ \A j \in C!Slots : j # i => checking'[j] = checking[j]
    BY <1>1, <1>4, SlotSet, Zenon DEF BaseHeld
  <2>2. \A j \in C!Slots : Stands(checking'[j], accepted, reread)
    BY <1>2, <2>1 DEF ReachHeld
  <2> QED
    BY <1>0, <1>4, <2>2 DEF ReachHeld
<1> QED
  BY <1>1, <1>3, <1>4

LEMMA ReachChecked ==
  ASSUME BaseHeld, ReachHeld, NEW i \in C!Slots, NEW accepts \in BOOLEAN,
         NEW check \in checking[i].outstanding, C!Checked(i, check, accepts)
  PROVE  ReachHeld'
<1> DEFINE now == Told(checking[i], check, accepts)
           drafted == checking[i].drafted
<1>0. /\ OfHeld(now) /\ now.request \in C!Requests /\ now.learned \in Learned
      /\ now.drafted = drafted
  BY ToldIs DEF BaseHeld, SlotsHeld
<1>1. /\ accepted' = IF check \in {"Token", "Covered"} /\ accepts
                     THEN accepted \union {C!Reach(d) : d \in drafted} ELSE accepted
      /\ \/ /\ checking' = [checking EXCEPT ![i] = now]
            /\ UNCHANGED <<configured, begun, wbegun, spent, reread>>
         \/ /\ now.outstanding = {} /\ checking' = [checking EXCEPT ![i] = C!NotHeld]
            /\ \/ UNCHANGED <<configured, begun, wbegun, spent, reread>>
               \/ ~now.refused /\ C!Respond(now.request, drafted, now.learned)
  BY CheckedIs
<1>2. Stands(now, accepted', reread)
  <2>1. Stands(checking[i], accepted, reread) /\ OfHeld(checking[i])
    BY DEF ReachHeld, BaseHeld, SlotsHeld
  <2> QED
    BY <1>1, <2>1, ToldStands
<1>3. accepted \subseteq accepted'
  BY <1>1
<1> HIDE DEF now, drafted
<1>4. ReachedIn(configured, accepted', reread)
  <2>1. ReachesAs(configured, configured)
    BY SameReaches
  <2> QED
    BY <1>3, <2>1, ReachedOn DEF ReachHeld
<1>5. /\ \A j \in C!Slots : j # i => checking'[j] = checking[j]
      /\ checking'[i] \in {now, C!NotHeld}
  BY <1>0, <1>1, SlotSet, NotHeldIs DEF BaseHeld
<1>6. ReachedIn(configured', accepted', reread') /\ reread \subseteq reread'
  <2>1. CASE UNCHANGED <<configured, reread>>
    BY <1>4, <2>1
  <2>2. CASE now.outstanding = {} /\ ~now.refused /\ C!Respond(now.request, drafted, now.learned)
    <3>1. KeptOn(now.request, drafted, now.learned, accepted', reread)
      BY <1>0, <1>2, <2>2, StandsDue
    <3> QED
      BY <1>0, <1>4, <2>2, <3>1, ReachRespond
  <2> QED
    BY <1>1, <2>1, <2>2
<1>7. Stands(C!NotHeld, accepted', reread')
  BY NotHeldIs DEF Stands, Changing
<1>8. Stands(now, accepted', reread')
  BY <1>2, <1>6, StandsOn
<1>9. ASSUME NEW j \in C!Slots PROVE Stands(checking'[j], accepted', reread')
  <2>1. CASE j = i
    BY <1>5, <1>7, <1>8, <2>1
  <2>2. CASE j # i
    <3>1. Stands(checking[j], accepted, reread) /\ checking'[j] = checking[j]
      BY <1>5, <2>2 DEF ReachHeld
    <3> QED
      BY <1>3, <1>6, <3>1, StandsOn
  <2> QED
    BY <2>1, <2>2
<1> QED
  BY <1>6, <1>9 DEF ReachHeld

LEMMA ReachNext ==
  ASSUME BaseHeld, ReachHeld, C!Next
  PROVE  ReachHeld'
<1>1. CASE C!Asks
  BY <1>1, ReachRequested DEF C!Asks
<1>2. CASE C!Answers
  BY <1>2, ReachChecked, ReachRegisters, ReachReturns DEF C!Answers
<1>3. CASE C!Forgets
  BY <1>3, ReachForgets
<1>4. CASE C!Works
  BY <1>4, WorkIs, ReachWorks DEF C!Works
<1>5. CASE C!Installing
  BY <1>5, ReachRegisters, ReachTabs DEF C!Installing
<1> QED
  BY <1>1, <1>2, <1>3, <1>4, <1>5 DEF C!Next

LEMMA ReachBegins == ASSUME C!Init PROVE ReachHeld
<1>1. \A p \in C!Watched(configured) :
        configured.projects[p].access.kind = "Token" =>
          /\ configured.projects[p].access.owner = configured.projects[p].access.secret
          /\ configured.projects[p].access.owner # C!None
  BY HoldingsAssumption DEF C!Init, C!StartsAssumption
<1>2. ASSUME NEW p \in C!Watched(configured)
      PROVE  Vouched(configured.projects[p], p, accepted, reread)
  <2>1. C!Reach(configured.projects[p]) \in accepted
    BY DEF C!Init
  <2>2. configured.projects[p].access.kind = "Token" =>
          C!Reach(configured.projects[p])[1] = configured.projects[p].access.secret
    BY DEF C!Reach
  <2> QED
    BY <1>1, <2>1, <2>2 DEF Vouched
<1>3. \A i \in C!Slots : checking[i].request.op = "None"
  BY NotHeldIs DEF C!Init
<1> QED
  BY <1>2, <1>3 DEF ReachHeld, ReachedIn, Stands, Changing

\* What is so of a tab is that it is spent once, and of a project what is promised.
LEMMA ReachSays ==
  /\ ReachHeld => C!ReachWasChecked
  /\ BaseHeld => C!ArrivalsSpentOnce
<1>1. ReachHeld => C!ReachWasChecked
  BY DEF ReachHeld, ReachedIn, Vouched, C!ReachWasChecked
<1>2. BaseHeld => C!ArrivalsSpentOnce
  BY DEF BaseHeld, TabsHeld, C!ArrivalsSpentOnce
<1> QED
  BY <1>1, <1>2

----------------------------------------------------------------------------
(* Record. What an instance holds, and what of it the file says.             *)

Tables(A, B) == UNION {[X -> B] : X \in SUBSET A}

LEMMA TableIs ==
  ASSUME NEW A, NEW B, NEW f
  PROVE  f \in Tables(A, B) <=>
           DOMAIN f \subseteq A /\ f = [i \in DOMAIN f |-> f[i]] /\ \A i \in DOMAIN f : f[i] \in B
<1>1. ASSUME f \in Tables(A, B)
      PROVE  DOMAIN f \subseteq A /\ f = [i \in DOMAIN f |-> f[i]] /\ \A i \in DOMAIN f : f[i] \in B
  <2>1. PICK X \in SUBSET A : f \in [X -> B]
    BY <1>1 DEF Tables
  <2> QED
    BY <2>1
<1>2. ASSUME DOMAIN f \subseteq A, f = [i \in DOMAIN f |-> f[i]], \A i \in DOMAIN f : f[i] \in B
      PROVE  f \in Tables(A, B)
  <2>1. f \in [DOMAIN f -> B] /\ DOMAIN f \in SUBSET A
    BY <1>2
  <2> QED
    BY <2>1 DEF Tables
<1> QED
  BY <1>1, <1>2

\* What is said of a table with one more entry, named for the proofs that say it
\* of one.
Entered(A, B, f, k, x) ==
  /\ R!With(f, k, x) \in Tables(A, B)
  /\ DOMAIN R!With(f, k, x) = DOMAIN f \union {k}
  /\ R!With(f, k, x)[k] = x
  /\ \A i \in DOMAIN f : i # k => R!With(f, k, x)[i] = f[i]

LEMMA WithIs ==
  ASSUME NEW A, NEW B, NEW f, NEW k \in A, NEW x \in B, f \in Tables(A, B)
  PROVE  Entered(A, B, f, k, x)
<1> DEFINE g == [i \in DOMAIN f \union {k} |-> IF i = k THEN x ELSE f[i]]
<1>1. /\ DOMAIN g = DOMAIN f \union {k} /\ g[k] = x
      /\ \A i \in DOMAIN f : i # k => g[i] = f[i]
      /\ g = [i \in DOMAIN g |-> g[i]]
  OBVIOUS
<1>2. DOMAIN f \subseteq A /\ \A i \in DOMAIN f : f[i] \in B
  BY TableIs
<1>3. R!With(f, k, x) = g
  BY DEF R!With
<1> HIDE DEF g
<1>4. DOMAIN g \subseteq A /\ \A i \in DOMAIN g : g[i] \in B
  BY <1>1, <1>2
<1>5. g \in Tables(A, B)
  BY <1>1, <1>4, TableIs
<1> QED
  BY <1>1, <1>3, <1>5 DEF Entered

\* A purse is charged by its name; the last release's kits charged none.
Charged == R!PurseNames
Sent == Variables \union {"GH_TOKEN"}
Tasking(P) == [kit : P, over : BOOLEAN, warrant : Tasked \union {R!None}, told : SUBSET Sent]
Tracked(P) ==
  [here : BOOLEAN, foreman : P, kits : SUBSET P,
   access : {"token", "installation", R!None}, binding : {"own", "workspace", R!None},
   variables : SUBSET Sent, jobs : Tables(Tasked, Tasking(P))]

Stated(s) ==
  /\ s \in [purses : Tables(Charged, R!Credentials), project : Tracked(Charged),
            installed : BOOLEAN, joined : BOOLEAN, password : BOOLEAN]
  /\ R!HasProject(s) \/ s.project = R!NoProject

Filed(f) ==
  f \in [under : Keys, spoilt : BOOLEAN, agent : R!Credentials \union {R!None},
         purses : SUBSET (Charged \X R!Credentials), repeated : BOOLEAN,
         project : Tracked(Charged \union {R!None}), listens : BOOLEAN,
         installed : BOOLEAN, joined : BOOLEAN, password : BOOLEAN]

LEMMA ChargedIs ==
  /\ Charged = {"key", "subscription"} /\ R!None \notin Charged
  /\ \A c : R!ShapedLike(c) \in Charged
  /\ \A p \in Charged : R!PurseVariable(p) = IF p = "key" THEN "API_KEY" ELSE "OAUTH_TOKEN"
  /\ R!PurseVariables = {"API_KEY", "OAUTH_TOKEN"}
  /\ R!reserved = {"API_KEY", "OAUTH_TOKEN", "GH_TOKEN", "WARRANT"}
<1>1. Charged = {"key", "subscription"}
  BY DEF Charged, R!PurseNames
<1>2. R!PurseVariables = {R!PurseVariable("key"), R!PurseVariable("subscription")}
  BY <1>1 DEF R!PurseVariables, Charged
<1>3. R!PurseVariable("key") = "API_KEY" /\ R!PurseVariable("subscription") = "OAUTH_TOKEN"
  BY DEF R!PurseVariable
<1>4. R!PurseVariables = {"API_KEY", "OAUTH_TOKEN"}
  BY <1>2, <1>3
<1>5. R!reserved = {"API_KEY", "OAUTH_TOKEN", "GH_TOKEN", "WARRANT"}
  BY <1>4 DEF R!reserved
<1>6. R!None \notin Charged /\ \A c : R!ShapedLike(c) \in Charged
  BY <1>1 DEF R!None, R!ShapedLike
<1> QED
  BY <1>1, <1>4, <1>5, <1>6 DEF R!PurseVariable

LEMMA NothingIs ==
  /\ \A A, B : R!NoJobs \in Tables(A, B) /\ R!NoPurses \in Tables(A, B)
  /\ DOMAIN R!NoJobs = {} /\ DOMAIN R!NoPurses = {}
<1>1. DOMAIN R!NoJobs = {} /\ R!NoJobs = [i \in {} |-> R!NoJobs[i]]
  BY DEF R!NoJobs
<1>2. DOMAIN R!NoPurses = {} /\ R!NoPurses = [i \in {} |-> R!NoPurses[i]]
  BY DEF R!NoPurses
<1> QED
  BY <1>1, <1>2, TableIs, Zenon

LEMMA JoblessIs ==
  /\ R!Jobless \in Tracked(Charged) /\ R!Jobless.here
  /\ R!NoProject \in Tracked(Charged) /\ ~R!NoProject.here
  /\ Stated(R!Empty)
<1>1. R!Jobless \in Tracked(Charged) /\ R!Jobless.here
  BY ChargedIs, NothingIs DEF R!Jobless, Tracked
<1>2. R!NoProject \in Tracked(Charged) /\ ~R!NoProject.here
  BY <1>1, Zenon DEF R!NoProject, Tracked
<1>3. Stated(R!Empty)
  BY <1>2, NothingIs DEF R!Empty, Stated
<1> QED
  BY <1>1, <1>2, <1>3

\* What the last release knew is known of more.
LEMMA TrackedMore ==
  ASSUME NEW x \in Tracked(Charged)
  PROVE  x \in Tracked(Charged \union {R!None})
<1> DEFINE js == x.jobs
<1>1. js \in Tables(Tasked, Tasking(Charged \union {R!None}))
  <2>1. js \in Tables(Tasked, Tasking(Charged))
    BY DEF Tracked
  <2> HIDE DEF js
  <2>2. /\ DOMAIN js \subseteq Tasked /\ js = [i \in DOMAIN js |-> js[i]]
        /\ \A i \in DOMAIN js : js[i] \in Tasking(Charged)
    BY <2>1, TableIs
  <2>3. \A i \in DOMAIN js : js[i] \in Tasking(Charged \union {R!None})
    BY <2>2 DEF Tasking
  <2> QED
    BY <2>2, <2>3, TableIs, Zenon
<1> QED
  BY <1>1 DEF Tracked

----------------------------------------------------------------------------
(* That what is written is read back.                                        *)

LEMMA PursesRead ==
  ASSUME NEW s, Stated(s), NEW f, f.agent = R!None,
         f.purses = {<<p, s.purses[p]>> : p \in DOMAIN s.purses}
  PROVE  R!OpenedPurses(f) = s.purses
<1> DEFINE g == s.purses
           names == {q[1] : q \in f.purses}
           held == [p \in names |-> (CHOOSE q \in f.purses : q[1] = p)[2]]
<1>1. g \in Tables(Charged, R!Credentials)
  BY DEF Stated
<1>2. g = [p \in DOMAIN g |-> g[p]]
  BY <1>1, TableIs
<1>3. names = DOMAIN g
  <2>1. \A p \in DOMAIN g : <<p, g[p]>> \in f.purses /\ <<p, g[p]>>[1] = p
    OBVIOUS
  <2>2. \A q \in f.purses : q[1] \in DOMAIN g
    OBVIOUS
  <2>3. names \subseteq DOMAIN g
    BY <2>2
  <2>4. ASSUME NEW p \in DOMAIN g PROVE p \in names
    <3>1. PICK q \in f.purses : q[1] = p
      BY <2>1, Zenon
    <3> QED
      BY <3>1
  <2> HIDE DEF g, names
  <2> QED
    BY <2>3, <2>4
<1>4. \A p \in DOMAIN g : (CHOOSE q \in f.purses : q[1] = p) = <<p, g[p]>>
  <2> SUFFICES ASSUME NEW p \in DOMAIN g
               PROVE  (CHOOSE q \in f.purses : q[1] = p) = <<p, g[p]>>
    OBVIOUS
  <2>1. <<p, g[p]>> \in f.purses /\ <<p, g[p]>>[1] = p
    OBVIOUS
  <2>2. \A q \in f.purses : q[1] = p => q = <<p, g[p]>>
    OBVIOUS
  <2> QED
    BY <2>1, <2>2
<1>5. held = [p \in DOMAIN g |-> g[p]]
  BY <1>3, <1>4
<1>6. R!Bridged(f) = R!None
  BY DEF R!Bridged
<1>7. R!OpenedPurses(f) = held
  BY <1>6 DEF R!OpenedPurses
<1> QED
  BY <1>2, <1>5, <1>7

LEMMA ProjectRead ==
  ASSUME NEW f, f.agent = R!None, f.listens = TRUE, f.project \in Tracked(Charged),
         f.project.here \/ f.project = R!NoProject
  PROVE  R!OpenedProject(f) = f.project
<1> DEFINE x == f.project
<1>1. R!Bridged(f) = R!None
  BY DEF R!Bridged
<1>2. CASE ~x.here
  BY <1>2 DEF R!OpenedProject, R!HasProject
<1>3. CASE x.here
  <2> DEFINE js == [j \in DOMAIN x.jobs |-> R!OpenedJob(x.jobs[j], R!Bridged(f))]
             ks == {R!ReadKit(k, R!Bridged(f)) : k \in x.kits}
  <2>1. \A k : R!ReadKit(k, R!Bridged(f)) = k
    BY <1>1 DEF R!ReadKit
  <2>2. ks = x.kits
    BY <2>1
  <2>3. x.jobs \in Tables(Tasked, Tasking(Charged))
    BY DEF Tracked
  <2>4. x.jobs = [j \in DOMAIN x.jobs |-> x.jobs[j]] /\ \A j \in DOMAIN x.jobs : x.jobs[j] \in Tasking(Charged)
    BY <2>3, TableIs
  <2>5. \A j \in DOMAIN x.jobs : R!OpenedJob(x.jobs[j], R!Bridged(f)) = x.jobs[j]
    <3> SUFFICES ASSUME NEW j \in DOMAIN x.jobs
                 PROVE  R!OpenedJob(x.jobs[j], R!Bridged(f)) = x.jobs[j]
      OBVIOUS
    <3> DEFINE y == x.jobs[j]
    <3>1. R!OpenedJob(y, R!Bridged(f)) = [y EXCEPT !.kit = y.kit]
      BY <2>1 DEF R!OpenedJob
    <3>2. y \in Tasking(Charged)
      BY <2>4
    <3> HIDE DEF y
    <3>3. [y EXCEPT !.kit = y.kit] = y
      BY <3>2 DEF Tasking
    <3> QED
      BY <3>1, <3>3 DEF y
  <2>6. js = x.jobs
    BY <2>4, <2>5
  <2>7. R!OpenedProject(f) =
          [x EXCEPT !.foreman = R!ReadKit(x.foreman, R!Bridged(f)), !.kits = ks,
                    !.binding = IF x.binding = "own" /\ ~f.listens THEN R!None ELSE x.binding,
                    !.jobs = js]
    BY <1>3 DEF R!OpenedProject, R!HasProject
  <2>8. R!OpenedProject(f) = [x EXCEPT !.foreman = x.foreman, !.kits = x.kits,
                                       !.binding = x.binding, !.jobs = x.jobs]
    BY <2>1, <2>2, <2>6, <2>7, Zenon
  <2>9. x \in Tracked(Charged)
    OBVIOUS
  <2> HIDE DEF x, js, ks
  <2>10. [x EXCEPT !.foreman = x.foreman, !.kits = x.kits, !.binding = x.binding, !.jobs = x.jobs] = x
    BY <2>9, Zenon DEF Tracked
  <2> QED
    BY <2>8, <2>10 DEF x
<1> QED
  BY <1>2, <1>3

LEMMA KitsWrittenAre ==
  ASSUME NEW f, f.project \in Tracked(Charged)
  PROVE  R!None \notin R!KitsWritten(f)
<1>1. f.project.foreman \in Charged /\ f.project.kits \subseteq Charged
      /\ \A j \in DOMAIN f.project.jobs : f.project.jobs[j].kit \in Charged
  <2>1. f.project.jobs \in Tables(Tasked, Tasking(Charged))
    BY DEF Tracked
  <2>2. \A j \in DOMAIN f.project.jobs : f.project.jobs[j] \in Tasking(Charged)
    BY <2>1, TableIs
  <2> QED
    BY <2>2 DEF Tracked, Tasking
<1> QED
  BY <1>1, ChargedIs DEF R!KitsWritten

\* What is written of a state that may be, is read back, and is refused for
\* nothing but another key.
LEMMA ReadBack ==
  ASSUME NEW s, Stated(s), NEW k
  PROVE  /\ R!StateOf(R!Written(s, k)) = s
         /\ R!OpenErrors(R!Written(s, k), k) = R!Inconsistent(s)
<1> DEFINE f == R!Written(s, k)
<1>1. /\ f.under = k /\ f.spoilt = FALSE /\ f.agent = R!None /\ f.repeated = FALSE
      /\ f.project = s.project /\ f.listens = TRUE /\ f.installed = s.installed
      /\ f.joined = s.joined /\ f.password = s.password
      /\ f.purses = {<<p, s.purses[p]>> : p \in DOMAIN s.purses}
  BY DEF R!Written
<1> HIDE DEF f
<1>2. s.project \in Tracked(Charged) /\ (s.project.here \/ s.project = R!NoProject)
  BY DEF Stated, R!HasProject
<1>3. R!OpenedPurses(f) = s.purses
  BY <1>1, PursesRead
<1>4. R!OpenedProject(f) = s.project
  BY <1>1, <1>2, ProjectRead, Zenon
<1>5. R!StateOf(f) = s
  BY <1>1, <1>3, <1>4 DEF R!StateOf, Stated
<1>6. R!None \notin R!KitsWritten(f)
  BY <1>1, <1>2, KitsWrittenAre
<1>7. R!OpenErrors(f, k) = R!Inconsistent(s)
  BY <1>1, <1>5, <1>6 DEF R!OpenErrors
<1> QED
  BY <1>5, <1>7 DEF f

----------------------------------------------------------------------------
(* What the instance, its file and its containers have of each other.        *)

\* What the last release wrote charges no purse, and holds one credential.
Older(f) ==
  f.agent # R!None =>
    /\ f.purses = {} /\ f.project.here /\ f.project.foreman = R!None
    /\ \A j \in DOMAIN f.project.jobs : f.project.jobs[j].kit = R!None

\* One project's jobs are another's, with what they answer to, and it may have more.
Follows(x, y) ==
  x.here => /\ y.here
            /\ \A j \in DOMAIN x.jobs : j \in DOMAIN y.jobs /\ y.jobs[j].warrant = x.jobs[j].warrant

ReadableIs == \A s \in written : Stated(s) /\ R!Inconsistent(s) = {} /\ file = R!Written(s, file.under)

WarrantIs(j) ==
  "WARRANT" \in DOMAIN containers[j] =>
    /\ file.project.here /\ j \in DOMAIN file.project.jobs
    /\ containers[j]["WARRANT"] = file.project.jobs[j].warrant
    /\ DOMAIN containers[j] \intersect R!reserved = {"WARRANT"}

WarrantsHeld == \A j \in DOMAIN containers \intersect Tasked : WarrantIs(j)

RecordHeld ==
  /\ Stated(state) /\ Filed(file) /\ Older(file) /\ ReadableIs
  /\ up => Follows(file.project, state.project)
  /\ WarrantsHeld /\ R!PaidByItsPurse

LEMMA RecordAssumed == Keys # {} /\ (CHOOSE k \in Keys : TRUE) \in Keys
BY HoldingsAssumption DEF R!RecordAssumption

LEMMA OlderRead ==
  ASSUME NEW f, Filed(f), Older(f), f.agent # R!None
  PROVE  \A who \in {"foreman"} \union DOMAIN R!StateOf(f).project.jobs :
           /\ R!KitOf(R!StateOf(f), who) = R!ShapedLike(f.agent)
           /\ R!StateOf(f).purses[R!KitOf(R!StateOf(f), who)] = f.agent
<1> DEFINE b == R!ShapedLike(f.agent)
           s == R!StateOf(f)
           js == [j \in DOMAIN f.project.jobs |-> R!OpenedJob(f.project.jobs[j], b)]
           ks == {R!ReadKit(k, b) : k \in f.project.kits}
<1>1. f.purses = {} /\ f.project.here /\ R!Bridged(f) = b /\ b # R!None
  BY ChargedIs DEF Older, R!Bridged
<1>2. s.purses = R!OpenedPurses(f) /\ s.project = R!OpenedProject(f)
  BY DEF R!StateOf
<1>3. s.purses[b] = f.agent
  BY <1>1, <1>2 DEF R!OpenedPurses, R!With
<1>4. s.project =
        [f.project EXCEPT !.foreman = R!ReadKit(f.project.foreman, b), !.kits = ks,
                          !.binding = IF f.project.binding = "own" /\ ~f.listens THEN R!None
                                      ELSE f.project.binding,
                          !.jobs = js]
  BY <1>1, <1>2 DEF R!OpenedProject, R!HasProject
<1>5. f.project \in Tracked(Charged \union {R!None})
  BY DEF Filed
<1> HIDE DEF js, ks, s, b
<1>6. s.project.foreman = R!ReadKit(f.project.foreman, b) /\ s.project.jobs = js
  BY <1>4, <1>5 DEF Tracked
<1>7. s.project.foreman = b
  BY <1>6 DEF Older, R!ReadKit
<1>8. \A j \in DOMAIN js : js[j].kit = b
  <2> SUFFICES ASSUME NEW j \in DOMAIN js PROVE js[j].kit = b
    OBVIOUS
  <2>1. j \in DOMAIN f.project.jobs /\ js[j] = R!OpenedJob(f.project.jobs[j], b)
    BY DEF js
  <2>2. f.project.jobs \in Tables(Tasked, Tasking(Charged \union {R!None}))
    BY <1>5 DEF Tracked
  <2>3. f.project.jobs[j] \in Tasking(Charged \union {R!None})
    BY <2>1, <2>2, TableIs
  <2>4. f.project.jobs[j].kit = R!None
    BY <2>1 DEF Older
  <2> QED
    BY <2>1, <2>3, <2>4 DEF R!OpenedJob, R!ReadKit, Tasking
<1>9. \A who \in {"foreman"} \union DOMAIN s.project.jobs : R!KitOf(s, who) = b
  BY <1>6, <1>7, <1>8 DEF R!KitOf
<1> QED
  BY <1>3, <1>9 DEF s, b

LEMMA RecordSays ==
  ASSUME RecordHeld
  PROVE  R!ReadsBackAsWritten /\ R!PaidByItsPurse /\ R!FetchesItsOwn
<1>1. \A s \in written : R!OpenErrors(file, file.under) = {} /\ R!StateOf(file) = s
  BY ReadBack DEF RecordHeld, ReadableIs
<1>2. R!Holds(file) => \A k \in Keys : k # file.under \/ file.spoilt => R!OpenErrors(file, k) # {}
  BY DEF R!OpenErrors
<1>3. R!ReadsBackAsWritten
  BY <1>1, <1>2, OlderRead DEF RecordHeld, R!ReadsBackAsWritten
<1>4. R!FetchesItsOwn
  BY DEF RecordHeld, WarrantsHeld, WarrantIs, Follows, R!FetchesItsOwn, R!HasProject
<1> QED
  BY <1>3, <1>4 DEF RecordHeld

LEMMA WrittenFiled ==
  ASSUME NEW s, Stated(s), NEW k \in Keys
  PROVE  Filed(R!Written(s, k)) /\ Older(R!Written(s, k))
<1>1. s.project \in Tracked(Charged \union {R!None})
  BY TrackedMore DEF Stated
<1>2. {<<p, s.purses[p]>> : p \in DOMAIN s.purses} \in SUBSET (Charged \X R!Credentials)
  <2>1. s.purses \in Tables(Charged, R!Credentials)
    BY DEF Stated
  <2> QED
    BY <2>1, TableIs
<1> QED
  BY <1>1, <1>2 DEF Filed, Older, R!Written, Stated

LEMMA RecordBegins == ASSUME R!Init PROVE RecordHeld
<1> DEFINE k0 == CHOOSE k \in Keys : TRUE
<1>0. k0 \in Keys
  BY RecordAssumed
<1> HIDE DEF k0
<1>1. Stated(state) /\ ReadableIs /\ R!PaidByItsPurse /\ up = FALSE
  BY JoblessIs DEF R!Init, ReadableIs, R!PaidByItsPurse
<1>2. \A s : Stated(s) => Filed(R!Written(s, k0)) /\ Older(R!Written(s, k0))
  BY <1>0, WrittenFiled
<1>3. CASE /\ file = R!Written(R!Empty, CHOOSE k \in Keys : TRUE)
           /\ containers = [w \in {} |-> R!None]
  <2>1. Filed(file) /\ Older(file)
    BY <1>2, <1>3, JoblessIs DEF k0
  <2>2. WarrantsHeld
    BY <1>3 DEF WarrantsHeld
  <2> QED
    BY <1>1, <2>1, <2>2 DEF RecordHeld
<1>4. ASSUME NEW c \in R!Credentials, file = R!Written(R!InUse(c), CHOOSE k \in Keys : TRUE),
             containers = [w \in {"foreman"} |-> R!Rendered(R!InUse(c), w)]
      PROVE  RecordHeld
  <2> DEFINE b == R!ShapedLike(c)
  <2>1. Stated(R!InUse(c))
    <3>1. b \in Charged
      BY ChargedIs
    <3>2. R!With(R!NoPurses, b, c) \in Tables(Charged, R!Credentials)
      <4>1. Entered(Charged, R!Credentials, R!NoPurses, b, c)
        BY <3>1, NothingIs, WithIs, Zenon
      <4> QED
        BY <4>1 DEF Entered
    <3>3. [R!Jobless EXCEPT !.foreman = b, !.kits = {b}] \in Tracked(Charged)
      BY <3>1, JoblessIs, Zenon DEF Tracked
    <3>4. [R!Jobless EXCEPT !.foreman = b, !.kits = {b}].here
      BY JoblessIs DEF Tracked
    <3>5. R!InUse(c) = [R!Empty EXCEPT !.purses = R!With(R!NoPurses, b, c),
                          !.project = [R!Jobless EXCEPT !.foreman = b, !.kits = {b}]]
      BY DEF R!InUse, R!Empty
    <3> HIDE DEF b
    <3> QED
      BY <3>2, <3>3, <3>4, <3>5, JoblessIs, Zenon DEF Stated, R!HasProject
  <2>2. Filed(file) /\ Older(file)
    BY <1>2, <1>4, <2>1 DEF k0
  <2>3. WarrantsHeld
    BY <1>4 DEF WarrantsHeld, WarrantIs, R!Rendered
  <2> QED
    BY <1>1, <2>2, <2>3 DEF RecordHeld
<1>5. ASSUME NEW c \in R!Credentials, NEW listens \in BOOLEAN, NEW job \in Tasked \union {R!None},
             file = R!Older(c, listens, job),
             containers = [w \in {"foreman", job} \ {R!None} |-> R!OlderContainer(c)]
      PROVE  RecordHeld
  <2> DEFINE js == IF job = R!None THEN R!NoJobs
                   ELSE R!With(R!NoJobs, job, [kit |-> R!None, over |-> FALSE,
                                               warrant |-> R!None, told |-> {}])
             x == [R!Jobless EXCEPT !.foreman = R!None, !.kits = {R!None},
                                    !.variables = Variables \ R!reserved, !.jobs = js]
             more == Tasking(Charged \union {R!None})
  <2>1. js \in Tables(Tasked, more) /\ \A j \in DOMAIN js : js[j].kit = R!None
    <3>1. [kit |-> R!None, over |-> FALSE, warrant |-> R!None, told |-> {}] \in more
      BY DEF Tasking
    <3>2. CASE job = R!None
      BY <3>2, NothingIs
    <3>3. CASE job # R!None
      <4> DEFINE y == [kit |-> R!None, over |-> FALSE, warrant |-> R!None, told |-> {}]
      <4>1. y \in more /\ y.kit = R!None
        BY <3>1
      <4>2. R!NoJobs \in Tables(Tasked, more) /\ DOMAIN R!NoJobs = {}
        BY NothingIs
      <4>3. js = R!With(R!NoJobs, job, y) /\ job \in Tasked
        BY <3>3
      <4>3a. job \in Tasked
        BY <3>3
      <4> HIDE DEF y, js, more
      <4>3b. Entered(Tasked, more, R!NoJobs, job, y)
        BY <4>1, <4>2, <4>3a, WithIs
      <4>4. /\ js \in Tables(Tasked, more) /\ DOMAIN js = DOMAIN R!NoJobs \union {job}
            /\ js[job] = y
        BY <4>3, <4>3b DEF Entered
      <4> QED
        BY <4>1, <4>2, <4>4
    <3> QED
      BY <3>2, <3>3, Zenon
  <2>2. file = [under |-> k0, spoilt |-> FALSE, agent |-> c, purses |-> {}, repeated |-> FALSE,
                project |-> x, listens |-> listens, installed |-> FALSE, joined |-> FALSE,
                password |-> FALSE]
    BY <1>5 DEF R!Older, k0
  <2> HIDE DEF js
  <2>3. /\ x \in Tracked(Charged \union {R!None}) /\ x.here /\ x.foreman = R!None /\ x.jobs = js
    BY <2>1, JoblessIs, Zenon DEF Tracked, Sent
  <2> HIDE DEF x
  <2>4. Filed(file) /\ Older(file)
    BY <1>0, <2>1, <2>2, <2>3 DEF Filed, Older
  <2>5. WarrantsHeld
    <3>1. \A w \in DOMAIN containers : DOMAIN containers[w] = {"GH_TOKEN", R!PurseVariable(R!ShapedLike(c))}
      BY <1>5 DEF R!OlderContainer
    <3>2. R!PurseVariable(R!ShapedLike(c)) # "WARRANT"
      BY DEF R!PurseVariable
    <3> QED
      BY <3>1, <3>2 DEF WarrantsHeld, WarrantIs
  <2> QED
    BY <1>1, <2>4, <2>5 DEF RecordHeld
<1> QED
  BY <1>3, <1>4, <1>5, Zenon DEF R!Init

\* A change leaves the jobs there are what they answer to.
LEMMA RecordChanged ==
  ASSUME RecordHeld, NEW s, R!Changed(s), Stated(s), Follows(state.project, s.project)
  PROVE  RecordHeld'
<1>1. up /\ state' = s /\ UNCHANGED <<up, file, written, containers, running>>
  BY DEF R!Changed
<1>2. Follows(file.project, s.project)
  BY <1>1 DEF RecordHeld, Follows
<1> QED
  BY <1>1, <1>2 DEF RecordHeld, ReadableIs, WarrantsHeld, WarrantIs, R!PaidByItsPurse

\* What is not of the project may change under it.
LEMMA RecordOutside ==
  ASSUME RecordHeld, NEW s, R!Changed(s), Stated(s), s.project = state.project
  PROVE  RecordHeld'
<1>1. Follows(state.project, s.project)
  BY DEF Follows
<1> QED
  BY <1>1, RecordChanged

LEMMA RecordProject ==
  ASSUME RecordHeld, NEW x \in Tracked(Charged), x.here, Follows(state.project, x),
         NEW s, s = [state EXCEPT !.project = x], R!Changed(s)
  PROVE  RecordHeld'
<1>1. Stated(s) /\ s.project = x
  BY DEF RecordHeld, Stated, R!HasProject
<1> QED
  BY <1>1, RecordChanged, Zenon

LEMMA ProjectParts ==
  ASSUME NEW x \in Tracked(Charged)
  PROVE  /\ x.foreman \in Charged /\ x.kits \subseteq Charged /\ x.variables \subseteq Sent
         /\ x.jobs \in Tables(Tasked, Tasking(Charged))
         /\ \A j \in DOMAIN x.jobs : j \in Tasked /\ x.jobs[j] \in Tasking(Charged)
<1>1. x.jobs \in Tables(Tasked, Tasking(Charged))
  BY DEF Tracked
<1> QED
  BY <1>1, TableIs DEF Tracked

LEMMA RecordPurses ==
  ASSUME RecordHeld, NEW p \in R!PurseNames,
         R!ForgetPurse(p) \/ \E c \in R!Credentials : R!HoldPurse(p, c)
  PROVE  RecordHeld'
<1>1. state.purses \in Tables(Charged, R!Credentials) /\ p \in Charged
  BY DEF RecordHeld, Stated, Charged
<1>2. ASSUME NEW g \in Tables(Charged, R!Credentials), R!Changed([state EXCEPT !.purses = g])
      PROVE  RecordHeld'
  <2> DEFINE s == [state EXCEPT !.purses = g]
  <2>1. Stated(s) /\ s.project = state.project
    BY DEF RecordHeld, Stated, R!HasProject
  <2>2. R!Changed(s)
    BY <1>2
  <2> HIDE DEF s
  <2> QED
    BY <2>1, <2>2, RecordOutside
<1>3. CASE R!ForgetPurse(p)
  <2> DEFINE g == [q \in DOMAIN state.purses \ {p} |-> state.purses[q]]
  <2>1. DOMAIN g \subseteq Charged /\ \A q \in DOMAIN g : g[q] \in R!Credentials
    BY <1>1, TableIs
  <2>2. g = [q \in DOMAIN g |-> g[q]]
    OBVIOUS
  <2>3. R!Changed([state EXCEPT !.purses = g])
    BY <1>3 DEF R!ForgetPurse
  <2> HIDE DEF g
  <2>4. g \in Tables(Charged, R!Credentials)
    BY <2>1, <2>2, TableIs
  <2> QED
    BY <1>2, <2>3, <2>4
<1>4. ASSUME NEW c \in R!Credentials, R!HoldPurse(p, c) PROVE RecordHeld'
  <2>1. Entered(Charged, R!Credentials, state.purses, p, c)
    BY <1>1, WithIs
  <2>2. R!With(state.purses, p, c) \in Tables(Charged, R!Credentials)
    BY <2>1 DEF Entered
  <2>3. R!Changed([state EXCEPT !.purses = R!With(state.purses, p, c)])
    BY <1>4 DEF R!HoldPurse
  <2> QED
    BY <1>2, <2>2, <2>3
<1> QED
  BY <1>3, <1>4

LEMMA RecordDrafts ==
  ASSUME RecordHeld, NEW f \in R!PurseNames, NEW a \in {"token", "installation"},
         \/ \E b \in {"own", "workspace"} : R!Create(f, a, b)
         \/ \E kits \in SUBSET R!PurseNames \ {{}} : R!Amend(f, kits, a)
  PROVE  RecordHeld'
<1>0. state.project \in Tracked(Charged) /\ f \in Charged
  BY DEF RecordHeld, Stated, Charged
<1>1. ASSUME NEW b \in {"own", "workspace"}, R!Create(f, a, b) PROVE RecordHeld'
  <2> DEFINE x == [R!Jobless EXCEPT !.foreman = f, !.kits = {f}, !.access = a, !.binding = b]
  <2>1. x \in Tracked(Charged) /\ x.here
    BY <1>0, JoblessIs, Zenon DEF Tracked
  <2>2. Follows(state.project, x)
    BY <1>1 DEF R!Create, R!HasProject, Follows
  <2>3. R!Changed([state EXCEPT !.project = x])
    BY <1>1 DEF R!Create, R!Kept
  <2> HIDE DEF x
  <2> QED
    BY <2>1, <2>2, <2>3, RecordProject
<1>2. ASSUME NEW kits \in SUBSET R!PurseNames, R!Amend(f, kits, a) PROVE RecordHeld'
  <2> DEFINE x == [state.project EXCEPT !.foreman = f, !.kits = kits, !.access = a]
  <2>1. /\ x \in Tracked(Charged) /\ x.here /\ x.jobs = state.project.jobs
    BY <1>0, <1>2, Zenon DEF Tracked, R!Amend, R!HasProject, Charged
  <2>2. R!Changed([state EXCEPT !.project = x])
    <3>1. [state EXCEPT !.project.foreman = f, !.project.kits = kits, !.project.access = a] =
            [state EXCEPT !.project = x]
      BY Zenon
    <3> QED
      BY <1>2, <3>1, Zenon DEF R!Amend, R!Kept
  <2> HIDE DEF x
  <2>3. Follows(state.project, x)
    BY <2>1 DEF Follows
  <2> QED
    BY <2>1, <2>2, <2>3, RecordProject
<1> QED
  BY <1>1, <1>2

LEMMA RecordVariables ==
  ASSUME RecordHeld, NEW v \in Variables, R!SetVariable(v) \/ R!DropVariable(v)
  PROVE  RecordHeld'
<1>0. state.project \in Tracked(Charged) /\ state.project.here
  BY DEF RecordHeld, Stated, R!SetVariable, R!DropVariable, R!HasProject
<1>1. ASSUME NEW vs \in SUBSET Sent,
             R!Changed([state EXCEPT !.project = [state.project EXCEPT !.variables = vs]])
      PROVE  RecordHeld'
  <2> DEFINE x == [state.project EXCEPT !.variables = vs]
  <2>1. x \in Tracked(Charged) /\ x.here /\ x.jobs = state.project.jobs
    BY <1>0 DEF Tracked
  <2>2. R!Changed([state EXCEPT !.project = x])
    BY <1>1
  <2> HIDE DEF x
  <2>3. Follows(state.project, x)
    BY <2>1 DEF Follows
  <2> QED
    BY <2>1, <2>2, <2>3, RecordProject
<1>2. state.project.variables \subseteq Sent
  BY <1>0, ProjectParts
<1>3. CASE R!SetVariable(v)
  <2>1. state.project.variables \union {v} \in SUBSET Sent
    BY <1>2 DEF Sent
  <2>2. [state EXCEPT !.project.variables = @ \union {v}] =
          [state EXCEPT !.project = [state.project EXCEPT !.variables = state.project.variables \union {v}]]
    OBVIOUS
  <2> QED
    BY <1>1, <1>3, <2>1, <2>2 DEF R!SetVariable
<1>4. CASE R!DropVariable(v)
  <2>1. state.project.variables \ {v} \in SUBSET Sent
    BY <1>2
  <2>2. [state EXCEPT !.project.variables = @ \ {v}] =
          [state EXCEPT !.project = [state.project EXCEPT !.variables = state.project.variables \ {v}]]
    OBVIOUS
  <2> QED
    BY <1>1, <1>4, <2>1, <2>2 DEF R!DropVariable
<1> QED
  BY <1>3, <1>4

LEMMA RecordFlags ==
  ASSUME RecordHeld, R!Arrives \/ R!SetPassword
  PROVE  RecordHeld'
<1>1. PICK s \in {[state EXCEPT !.installed = TRUE], [state EXCEPT !.joined = TRUE],
                  [state EXCEPT !.password = TRUE]} : R!Changed(s)
  BY DEF R!Arrives, R!SetPassword
<1>2. Stated(s) /\ s.project = state.project
  BY Zenon DEF RecordHeld, Stated, R!HasProject
<1> QED
  BY <1>1, <1>2, RecordOutside

LEMMA RecordJobs ==
  ASSUME RecordHeld, NEW j \in Tasked, R!Retire(j) \/ \E k \in R!PurseNames : R!Begin(j, k)
  PROVE  RecordHeld'
<1> DEFINE jobs == state.project.jobs
           Job == Tasking(Charged)
<1>0. state.project \in Tracked(Charged) /\ state.project.here
  BY Zenon DEF RecordHeld, Stated, R!Retire, R!Begin, R!HasProject
<1>1. jobs \in Tables(Tasked, Job)
  BY <1>0 DEF Tracked
<1>2. ASSUME NEW js \in Tables(Tasked, Job),
             R!Changed([state EXCEPT !.project = [state.project EXCEPT !.jobs = js]]),
             \A i \in DOMAIN jobs : i \in DOMAIN js /\ js[i].warrant = jobs[i].warrant
      PROVE  RecordHeld'
  <2> DEFINE x == [state.project EXCEPT !.jobs = js]
  <2>1. x \in Tracked(Charged) /\ x.here /\ x.jobs = js
    BY <1>0 DEF Tracked
  <2>2. R!Changed([state EXCEPT !.project = x])
    BY <1>2
  <2> HIDE DEF x
  <2>3. Follows(state.project, x)
    BY <1>2, <2>1 DEF Follows
  <2> QED
    BY <2>1, <2>2, <2>3, RecordProject
<1>3. CASE R!Retire(j)
  <2> DEFINE y == [jobs[j] EXCEPT !.over = TRUE]
             js == [jobs EXCEPT ![j] = y]
  <2>1. j \in DOMAIN jobs /\ jobs[j] \in Job
    BY <1>1, <1>3, TableIs DEF R!Retire
  <2>2. y \in Job /\ y.warrant = jobs[j].warrant
    BY <2>1, Zenon DEF Tasking
  <2>3. R!Changed([state EXCEPT !.project = [state.project EXCEPT !.jobs = js]])
    <3>1. [state EXCEPT !.project.jobs[j].over = TRUE] =
            [state EXCEPT !.project = [state.project EXCEPT !.jobs = js]]
      OBVIOUS
    <3> QED
      BY <1>3, <3>1 DEF R!Retire
  <2> HIDE DEF y, jobs, Job
  <2>4. /\ DOMAIN jobs \subseteq Tasked /\ \A i \in DOMAIN jobs : jobs[i] \in Job
    BY <1>1, TableIs
  <2>5. /\ DOMAIN js = DOMAIN jobs /\ js[j] = y /\ js = [i \in DOMAIN js |-> js[i]]
        /\ \A i \in DOMAIN jobs : i # j => js[i] = jobs[i]
    BY <2>1
  <2> HIDE DEF js
  <2>6. \A i \in DOMAIN js : js[i] \in Job
    BY <2>2, <2>4, <2>5
  <2>7. js \in Tables(Tasked, Job)
    BY <2>4, <2>5, <2>6, TableIs
  <2>8. \A i \in DOMAIN jobs : i \in DOMAIN js /\ js[i].warrant = jobs[i].warrant
    BY <2>2, <2>5
  <2> QED
    BY <1>2, <2>3, <2>7, <2>8
<1>4. ASSUME NEW k \in R!PurseNames, R!Begin(j, k) PROVE RecordHeld'
  <2> DEFINE y == [kit |-> k, over |-> FALSE, warrant |-> R!Warrant(j), told |-> state.project.variables]
             js == R!With(jobs, j, y)
  <2>1. y \in Job /\ j \notin DOMAIN jobs
    BY <1>0, <1>4, ProjectParts DEF Tasking, R!Warrant, Charged, R!Begin
  <2>2. R!Changed([state EXCEPT !.project = [state.project EXCEPT !.jobs = js]])
    <3>1. [state EXCEPT !.project.jobs = R!With(@, j, y)] =
            [state EXCEPT !.project = [state.project EXCEPT !.jobs = js]]
      OBVIOUS
    <3> QED
      BY <1>4, <3>1 DEF R!Begin
  <2> HIDE DEF y, jobs, Job
  <2>3. Entered(Tasked, Job, jobs, j, y)
    BY <1>1, <2>1, WithIs
  <2>4. /\ js \in Tables(Tasked, Job)
        /\ \A i \in DOMAIN jobs : i \in DOMAIN js /\ js[i].warrant = jobs[i].warrant
    BY <2>1, <2>3 DEF Entered
  <2> HIDE DEF js
  <2> QED
    BY <1>2, <2>2, <2>4
<1> QED
  BY <1>3, <1>4

LEMMA RecordWrites == ASSUME RecordHeld, R!Write PROVE RecordHeld'
<1>1. /\ up /\ R!Inconsistent(state) = {} /\ file' = R!Written(state, file.under)
      /\ written' = {state} /\ UNCHANGED <<up, state, containers, running>>
  BY DEF R!Write
<1>2. /\ file'.under = file.under /\ file'.project = state.project /\ file'.agent = R!None
  BY <1>1 DEF R!Written
<1>3. Filed(file')
  <2>1. file.under \in Keys
    BY DEF RecordHeld, Filed
  <2> QED
    BY <1>1, <2>1, WrittenFiled DEF RecordHeld
<1>4. Older(file') /\ ReadableIs'
  BY <1>1, <1>2 DEF Older, ReadableIs, RecordHeld
<1>5. Follows(file'.project, state'.project)
  BY <1>1, <1>2 DEF Follows
<1>6. WarrantsHeld'
  BY <1>1, <1>2 DEF RecordHeld, WarrantsHeld, WarrantIs, Follows
<1> QED
  BY <1>1, <1>3, <1>4, <1>5, <1>6 DEF RecordHeld, R!PaidByItsPurse

\* Only what is made, run, ended or taken away differs.
LEMMA RecordRuntime ==
  ASSUME RecordHeld, UNCHANGED <<up, state, file, written>>, WarrantsHeld', R!PaidByItsPurse'
  PROVE  RecordHeld'
BY DEF RecordHeld, ReadableIs

LEMMA RecordMakes ==
  ASSUME RecordHeld, NEW who \in R!Speakers, R!Make(who)
  PROVE  RecordHeld'
<1>1. /\ containers' = R!With(containers, who, R!Rendered(state, who))
      /\ UNCHANGED <<up, state, file, written, running>> /\ up /\ state.project.here
      /\ ~R!RenderFails(state, who) /\ R!OnDisk(who)
  BY DEF R!Make, R!MayBeMade, R!HasProject
<1>2. /\ DOMAIN containers' = DOMAIN containers \union {who}
      /\ containers'[who] = R!Rendered(state, who)
      /\ \A w \in DOMAIN containers : w # who => containers'[w] = containers[w]
  BY <1>1 DEF R!With
<1>3. ASSUME who \in Tasked, "WARRANT" \in DOMAIN R!Rendered(state, who) PROVE WarrantIs(who)'
  <2>1. who # "foreman"
    BY <1>3 DEF R!Rendered
  <2>2. /\ R!Rendered(state, who)["WARRANT"] = state.project.jobs[who].warrant
        /\ DOMAIN R!Rendered(state, who) = {"WARRANT"} \union state.project.variables
    BY <2>1 DEF R!Rendered
  <2>3. state.project.variables \intersect R!reserved = {} /\ "WARRANT" \in R!reserved
    BY <1>1, <2>1 DEF R!RenderFails, R!reserved
  <2>4. DOMAIN R!Rendered(state, who) \intersect R!reserved = {"WARRANT"}
    BY <2>2, <2>3
  <2>5. file.project.here /\ who \in DOMAIN file.project.jobs
    BY <1>1, <2>1 DEF R!OnDisk, R!HasProject
  <2>6. state.project.jobs[who].warrant = file.project.jobs[who].warrant
    BY <1>1, <2>5 DEF RecordHeld, Follows
  <2> QED
    BY <1>1, <1>2, <2>2, <2>4, <2>5, <2>6 DEF WarrantIs
<1>4. WarrantsHeld'
  <2> SUFFICES ASSUME NEW w \in DOMAIN containers' \intersect Tasked PROVE WarrantIs(w)'
    BY DEF WarrantsHeld
  <2>1. CASE w = who
    BY <1>2, <1>3, <2>1 DEF WarrantIs
  <2>2. CASE w # who
    BY <1>1, <1>2, <2>2 DEF RecordHeld, WarrantsHeld, WarrantIs
  <2> QED
    BY <2>1, <2>2
<1> QED
  BY <1>1, <1>4, RecordRuntime DEF RecordHeld, R!PaidByItsPurse

\* What an agent sees of its purses is the one it is run with.
LEMMA RunPays ==
  ASSUME NEW s, NEW who, R!KitOf(s, who) \in Charged
  PROVE  LET r == R!AgentRun(s, who) IN
         /\ R!AuthenticatesWith(r.sees) = r.held
         /\ DOMAIN r.sees \intersect R!PurseVariables = {R!PurseVariable(r.paying)}
<1> DEFINE p == R!KitOf(s, who)
           v == R!PurseVariable(p)
           seen == R!With(containers[who], v, s.purses[p])
           sees == [i \in DOMAIN seen \ R!Cleared(p) |-> seen[i]]
           r == R!AgentRun(s, who)
<1>1. r.paying = p /\ r.held = s.purses[p] /\ r.sees = sees
  BY DEF R!AgentRun
<1>2. v \in DOMAIN seen /\ seen[v] = s.purses[p]
  BY DEF R!With
<1>3. /\ v \in {"API_KEY", "OAUTH_TOKEN"} /\ R!PurseVariables = {"API_KEY", "OAUTH_TOKEN"}
      /\ R!Cleared(p) = {"API_KEY", "OAUTH_TOKEN"} \ {v}
  BY ChargedIs DEF R!Cleared
<1> HIDE DEF p, v, seen
<1>4. v \in DOMAIN sees /\ sees[v] = s.purses[p] /\ \A i \in DOMAIN sees : i \notin R!Cleared(p)
  BY <1>2, <1>3
<1>5. DOMAIN sees \intersect R!PurseVariables = {v}
  BY <1>3, <1>4
<1> HIDE DEF sees
<1>6. R!AuthenticatesWith(sees) = s.purses[p]
  BY <1>3, <1>4 DEF R!AuthenticatesWith
<1> QED
  BY <1>1, <1>5, <1>6 DEF v, p

LEMMA RecordRuns ==
  ASSUME RecordHeld, NEW who \in R!Speakers, R!Run(who) \/ R!Ends(who)
  PROVE  RecordHeld'
<1>1. UNCHANGED <<up, state, file, written, containers>>
  BY DEF R!Run, R!Ends
<1>2. WarrantsHeld'
  BY <1>1 DEF RecordHeld, WarrantsHeld, WarrantIs
<1>3. CASE R!Run(who)
  <2>1. /\ running' = R!With(running, who, R!AgentRun(state, who))
        /\ R!KitOf(state, who) \in DOMAIN state.purses
    BY <1>3 DEF R!Run
  <2>2. state.purses \in Tables(Charged, R!Credentials)
    BY DEF RecordHeld, Stated
  <2>3. R!KitOf(state, who) \in Charged
    BY <2>1, <2>2, TableIs
  <2>4. /\ R!AuthenticatesWith(R!AgentRun(state, who).sees) = R!AgentRun(state, who).held
        /\ DOMAIN R!AgentRun(state, who).sees \intersect R!PurseVariables =
             {R!PurseVariable(R!AgentRun(state, who).paying)}
    BY <2>3, RunPays
  <2>5. /\ DOMAIN running' = DOMAIN running \union {who}
        /\ running'[who] = R!AgentRun(state, who)
        /\ \A w \in DOMAIN running : w # who => running'[w] = running[w]
    BY <2>1 DEF R!With
  <2>6. R!PaidByItsPurse'
    BY <2>4, <2>5 DEF RecordHeld, R!PaidByItsPurse
  <2> QED
    BY <1>1, <1>2, <2>6, RecordRuntime
<1>4. CASE R!Ends(who)
  <2>1. DOMAIN running' \subseteq DOMAIN running /\ \A w \in DOMAIN running' : running'[w] = running[w]
    BY <1>4 DEF R!Ends
  <2>2. R!PaidByItsPurse'
    BY <2>1 DEF RecordHeld, R!PaidByItsPurse
  <2> QED
    BY <1>1, <1>2, <2>2, RecordRuntime
<1> QED
  BY <1>3, <1>4

LEMMA RecordDiscards == ASSUME RecordHeld, NEW j \in Tasked, R!Discard(j) PROVE RecordHeld'
<1>1. /\ UNCHANGED <<up, state, file, written, running>>
      /\ containers' = [w \in DOMAIN containers \ {j} |-> containers[w]]
  BY DEF R!Discard
<1>2. DOMAIN containers' \subseteq DOMAIN containers
      /\ \A w \in DOMAIN containers' : containers'[w] = containers[w]
  BY <1>1
<1>3. WarrantsHeld'
  BY <1>1, <1>2 DEF RecordHeld, WarrantsHeld, WarrantIs
<1> QED
  BY <1>1, <1>3, RecordRuntime DEF RecordHeld, R!PaidByItsPurse

LEMMA RecordDies == ASSUME RecordHeld, R!Die PROVE RecordHeld'
<1>1. /\ up' = FALSE /\ running' = [w \in {} |-> R!None]
      /\ UNCHANGED <<state, file, written, containers>>
  BY DEF R!Die
<1> QED
  BY <1>1 DEF RecordHeld, ReadableIs, WarrantsHeld, WarrantIs, R!PaidByItsPurse

----------------------------------------------------------------------------
(* Starting from the file.                                                   *)

LEMMA PursesOpened ==
  ASSUME NEW f, Filed(f)
  PROVE  R!OpenedPurses(f) \in Tables(Charged, R!Credentials)
<1> DEFINE names == {q[1] : q \in f.purses}
           g == [p \in names |-> (CHOOSE q \in f.purses : q[1] = p)[2]]
           b == R!Bridged(f)
<1>1. \A q \in f.purses : q[1] \in Charged /\ q[2] \in R!Credentials
  BY DEF Filed
<1>2. ASSUME NEW p \in names PROVE (CHOOSE q \in f.purses : q[1] = p)[2] \in R!Credentials
  <2>1. \E q \in f.purses : q[1] = p
    OBVIOUS
  <2>2. (CHOOSE q \in f.purses : q[1] = p) \in f.purses
    BY <2>1
  <2> QED
    BY <1>1, <2>2
<1>3. names \subseteq Charged
  BY <1>1
<1> HIDE DEF names
<1>4. DOMAIN g = names /\ g = [i \in DOMAIN g |-> g[i]] /\ \A i \in DOMAIN g : g[i] \in R!Credentials
  BY <1>2
<1>5. R!OpenedPurses(f) = IF b = R!None THEN g ELSE R!With(g, b, f.agent)
  BY DEF R!OpenedPurses, names
<1> HIDE DEF g
<1>6. g \in Tables(Charged, R!Credentials)
  BY <1>3, <1>4, TableIs
<1>7. CASE b = R!None
  BY <1>5, <1>6, <1>7
<1>8. CASE b # R!None
  <2>1. b \in Charged /\ f.agent \in R!Credentials
    BY <1>8, ChargedIs DEF R!Bridged, Filed
  <2> HIDE DEF b
  <2>2. Entered(Charged, R!Credentials, g, b, f.agent)
    BY <1>6, <2>1, WithIs
  <2> QED
    BY <1>5, <1>8, <2>2 DEF Entered
<1> QED
  BY <1>7, <1>8

LEMMA ProjectOpened ==
  ASSUME NEW f, Filed(f), f.project.here,
         R!None \notin R!KitsWritten(f) \/ R!Bridged(f) # R!None
  PROVE  R!OpenedProject(f) \in Tracked(Charged) /\ Follows(f.project, R!OpenedProject(f))
<1> DEFINE x == f.project
           b == R!Bridged(f)
           jobs == x.jobs
           js == [j \in DOMAIN jobs |-> R!OpenedJob(jobs[j], b)]
           ks == {R!ReadKit(k, b) : k \in x.kits}
           home == IF x.binding = "own" /\ ~f.listens THEN R!None ELSE x.binding
           more == Charged \union {R!None}
<1>0. x \in Tracked(more)
  BY DEF Filed
<1>1. jobs \in Tables(Tasked, Tasking(more))
  BY <1>0 DEF Tracked
<1>2. DOMAIN jobs \subseteq Tasked /\ \A j \in DOMAIN jobs : jobs[j] \in Tasking(more)
  BY <1>1, TableIs
<1>3. /\ x.foreman \in R!KitsWritten(f) /\ x.kits \subseteq R!KitsWritten(f)
      /\ \A j \in DOMAIN jobs : jobs[j].kit \in R!KitsWritten(f)
  BY DEF R!KitsWritten, R!HasProject
<1>4. b # R!None => b \in Charged
  BY ChargedIs DEF R!Bridged
<1>5. \A k \in R!KitsWritten(f) : k \in more => R!ReadKit(k, b) \in Charged
  BY <1>4 DEF R!ReadKit
<1>6. R!ReadKit(x.foreman, b) \in Charged /\ ks \subseteq Charged
  <2>1. x.foreman \in more /\ x.kits \subseteq more
    BY <1>0 DEF Tracked
  <2> HIDE DEF b
  <2> QED
    BY <1>3, <1>5, <2>1
<1>7. ASSUME NEW j \in DOMAIN jobs
      PROVE  /\ R!OpenedJob(jobs[j], b) \in Tasking(Charged)
             /\ R!OpenedJob(jobs[j], b).warrant = jobs[j].warrant
  <2> DEFINE y == jobs[j]
  <2>1. y \in Tasking(more) /\ y.kit \in R!KitsWritten(f)
    BY <1>2, <1>3, Zenon
  <2>2. y.kit \in more
    BY <2>1 DEF Tasking
  <2>3. R!ReadKit(y.kit, b) \in Charged
    BY <1>5, <2>1, <2>2
  <2>4. R!OpenedJob(y, b) = [y EXCEPT !.kit = R!ReadKit(y.kit, b)]
    BY DEF R!OpenedJob
  <2> HIDE DEF y, b
  <2>5. R!OpenedJob(y, b) \in Tasking(Charged) /\ R!OpenedJob(y, b).warrant = y.warrant
    BY <2>1, <2>3, <2>4 DEF Tasking
  <2> QED
    BY <2>5 DEF y
<1>8. /\ DOMAIN js = DOMAIN jobs /\ js = [j \in DOMAIN js |-> js[j]]
      /\ \A j \in DOMAIN js : js[j] \in Tasking(Charged) /\ js[j].warrant = jobs[j].warrant
  <2> HIDE DEF b, jobs
  <2> QED
    BY <1>7
<1>9. R!OpenedProject(f) = [x EXCEPT !.foreman = R!ReadKit(x.foreman, b), !.kits = ks,
                                     !.binding = home, !.jobs = js]
  BY DEF R!OpenedProject, R!HasProject
<1>10. home \in {"own", "workspace", R!None}
  BY <1>0 DEF Tracked
<1> HIDE DEF js, ks, home, b, jobs
<1>11. js \in Tables(Tasked, Tasking(Charged))
  BY <1>2, <1>8, TableIs
<1> DEFINE z == R!OpenedProject(f)
<1>12. z \in Tracked(Charged) /\ z.jobs = js /\ z.here = x.here
  <2> HIDE DEF x, z
  <2>1. z = [x EXCEPT !.foreman = R!ReadKit(x.foreman, b), !.kits = ks,
                      !.binding = home, !.jobs = js]
    BY <1>9 DEF z
  <2> QED
    BY <1>0, <1>6, <1>10, <1>11, <2>1, Zenon DEF Tracked
<1>13. Follows(x, z)
  BY <1>8, <1>12 DEF Follows, jobs
<1> QED
  BY <1>12, <1>13

LEMMA RecordStarts ==
  ASSUME RecordHeld, NEW k \in Keys, R!Start(k)
  PROVE  RecordHeld'
<1>0. Filed(file) /\ UNCHANGED <<written, containers, running>>
  BY DEF RecordHeld, R!Start
<1>1. CASE UNCHANGED <<up, state, file>>
  BY <1>0, <1>1 DEF RecordHeld, ReadableIs, WarrantsHeld, WarrantIs, R!PaidByItsPurse
<1>2. CASE /\ R!OpenErrors(file, k) = {} /\ state' = R!StateOf(file)
           /\ file' = [file EXCEPT !.under = k]
  <2>1. R!None \notin R!KitsWritten(file) \/ R!Bridged(file) # R!None
    BY <1>2 DEF R!OpenErrors
  <2>2. R!OpenedPurses(file) \in Tables(Charged, R!Credentials)
    BY <1>0, PursesOpened
  <2>3. /\ R!OpenedProject(file) \in Tracked(Charged)
        /\ R!OpenedProject(file).here \/ R!OpenedProject(file) = R!NoProject
        /\ Follows(file.project, R!OpenedProject(file))
    <3>1. CASE file.project.here
      BY <1>0, <2>1, <3>1, ProjectOpened DEF Follows
    <3>2. CASE ~file.project.here
      BY <3>2, JoblessIs DEF R!OpenedProject, R!HasProject, Follows
    <3> QED
      BY <3>1, <3>2
  <2>4. state'.project = R!OpenedProject(file) /\ Stated(state')
    BY <1>0, <1>2, <2>2, <2>3 DEF R!StateOf, Stated, R!HasProject, Filed
  <2>5. /\ Filed(file') /\ file'.project = file.project /\ file'.agent = file.agent
        /\ file'.purses = file.purses /\ file'.under = k
    BY <1>0, <1>2 DEF Filed
  <2>6. Older(file')
    BY <2>5 DEF RecordHeld, Older
  <2>7. ASSUME NEW s \in written
        PROVE  Stated(s) /\ R!Inconsistent(s) = {} /\ file' = R!Written(s, k)
    <3>1. Stated(s) /\ R!Inconsistent(s) = {} /\ file = R!Written(s, file.under)
      BY DEF RecordHeld, ReadableIs
    <3>0. file.under \in Keys
      BY <1>0 DEF Filed
    <3> DEFINE w == R!Written(s, file.under)
               z == R!Written(s, k)
               v == [w EXCEPT !.under = k]
    <3>1a. Filed(w) /\ Filed(z)
      BY <3>1, <3>0, WrittenFiled
    <3>1b. /\ z.under = k /\ w.spoilt = z.spoilt /\ w.agent = z.agent
           /\ w.purses = z.purses /\ w.repeated = z.repeated /\ w.project = z.project
           /\ w.listens = z.listens /\ w.installed = z.installed /\ w.joined = z.joined
           /\ w.password = z.password
      BY DEF R!Written
    <3> HIDE DEF w, z
    <3>1c. Filed(v)
      BY <3>1a DEF Filed
    <3>1d. /\ v.under = z.under /\ v.spoilt = z.spoilt /\ v.agent = z.agent
           /\ v.purses = z.purses /\ v.repeated = z.repeated /\ v.project = z.project
           /\ v.listens = z.listens /\ v.installed = z.installed /\ v.joined = z.joined
           /\ v.password = z.password
      BY <3>1a, <3>1b DEF Filed
    <3> HIDE DEF v
    <3>1e. v = z
      BY <3>1a, <3>1c, <3>1d DEF Filed
    <3>2. [R!Written(s, file.under) EXCEPT !.under = k] = R!Written(s, k)
      BY <3>1e DEF v, w, z
    <3> QED
      BY <1>2, <3>1, <3>2
  <2>8. ReadableIs'
    BY <1>0, <2>5, <2>7 DEF ReadableIs
  <2>9. WarrantsHeld'
    BY <1>0, <2>5 DEF RecordHeld, WarrantsHeld, WarrantIs
  <2> QED
    BY <1>0, <2>3, <2>4, <2>5, <2>6, <2>8, <2>9 DEF RecordHeld, R!PaidByItsPurse
<1> QED
  BY <1>1, <1>2 DEF R!Start

LEMMA RecordAltered == ASSUME RecordHeld, R!AlterByHand PROVE RecordHeld'
<1>0. /\ ~up /\ written' = {} /\ UNCHANGED <<up, state, containers, running>>
      /\ Filed(file) /\ Older(file)
  BY DEF R!AlterByHand, RecordHeld
<1>1. ASSUME Filed(file'), file'.project.jobs = file.project.jobs,
             file'.project.here = file.project.here, Older(file')
      PROVE  RecordHeld'
  BY <1>0, <1>1 DEF RecordHeld, ReadableIs, WarrantsHeld, WarrantIs, R!PaidByItsPurse
<1>2. CASE \/ file' = [file EXCEPT !.spoilt = TRUE]
           \/ file' = [file EXCEPT !.repeated = TRUE]
  <2>1. /\ Filed(file') /\ file'.project = file.project /\ file'.agent = file.agent
        /\ file'.purses = file.purses
    BY <1>0, <1>2, Zenon DEF Filed
  <2> QED
    BY <1>0, <1>1, <2>1 DEF Older
<1>3. CASE /\ written # {}
           /\ \/ file' = [file EXCEPT !.project.kits = {}]
              \/ file' = [file EXCEPT !.purses = {}]
              \/ file' = [file EXCEPT !.project.variables = @ \union {"GH_TOKEN"}]
  <2>1. file.agent = R!None
    BY <1>3 DEF RecordHeld, ReadableIs, R!Written
  <2>2. file.project \in Tracked(Charged \union {R!None})
    BY <1>0 DEF Filed
  <2>3. ASSUME NEW x \in Tracked(Charged \union {R!None}), x.jobs = file.project.jobs,
               x.here = file.project.here, file' = [file EXCEPT !.project = x]
        PROVE  RecordHeld'
    <3>1. Filed(file') /\ file'.project = x /\ file'.agent = file.agent
      BY <1>0, <2>3 DEF Filed
    <3> QED
      BY <1>1, <2>1, <2>3, <3>1 DEF Older
  <2>4. CASE file' = [file EXCEPT !.project.kits = {}]
    <3> DEFINE x == [file.project EXCEPT !.kits = {}]
    <3>1. /\ x \in Tracked(Charged \union {R!None}) /\ x.jobs = file.project.jobs
          /\ x.here = file.project.here
      BY <2>2 DEF Tracked
    <3>2. file' = [file EXCEPT !.project = x]
      BY <2>4
    <3> HIDE DEF x
    <3> QED
      BY <2>3, <3>1, <3>2
  <2>5. CASE file' = [file EXCEPT !.purses = {}]
    <3>1. Filed(file') /\ file'.project = file.project /\ file'.agent = file.agent
      BY <1>0, <2>5 DEF Filed
    <3> QED
      BY <1>1, <2>1, <3>1 DEF Older
  <2>6. CASE file' = [file EXCEPT !.project.variables = @ \union {"GH_TOKEN"}]
    <3> DEFINE x == [file.project EXCEPT !.variables = file.project.variables \union {"GH_TOKEN"}]
    <3>1. /\ x \in Tracked(Charged \union {R!None}) /\ x.jobs = file.project.jobs
          /\ x.here = file.project.here
      BY <2>2 DEF Tracked, Sent
    <3>2. file' = [file EXCEPT !.project = x]
      BY <2>6
    <3> HIDE DEF x
    <3> QED
      BY <2>3, <3>1, <3>2
  <2> QED
    BY <1>3, <2>4, <2>5, <2>6
<1> QED
  BY <1>2, <1>3 DEF R!AlterByHand

LEMMA RecordNext == ASSUME RecordHeld, R!Next PROVE RecordHeld'
<1>1. CASE \E p \in R!PurseNames : R!ForgetPurse(p) \/ \E c \in R!Credentials : R!HoldPurse(p, c)
  BY <1>1, RecordPurses
<1>2. CASE \E f \in R!PurseNames, a \in {"token", "installation"} :
             \/ \E b \in {"own", "workspace"} : R!Create(f, a, b)
             \/ \E kits \in SUBSET R!PurseNames \ {{}} : R!Amend(f, kits, a)
  BY <1>2, RecordDrafts, Zenon
<1>3. CASE \E v \in Variables : R!SetVariable(v) \/ R!DropVariable(v)
  BY <1>3, RecordVariables
<1>4. CASE R!Arrives \/ R!SetPassword \/ R!Write
  BY <1>4, RecordFlags, RecordWrites
<1>5. CASE \E j \in Tasked : R!Retire(j) \/ R!Discard(j) \/ \E k \in R!PurseNames : R!Begin(j, k)
  BY <1>5, RecordJobs, RecordDiscards
<1>6. CASE \E who \in R!Speakers : R!Make(who) \/ R!Run(who) \/ R!Ends(who)
  BY <1>6, RecordMakes, RecordRuns
<1>7. CASE R!Die \/ \E k \in Keys : R!Start(k)
  BY <1>7, RecordDies, RecordStarts
<1>8. CASE R!AlterByHand
  BY <1>8, RecordAltered
<1> QED
  BY <1>1, <1>2, <1>3, <1>4, <1>5, <1>6, <1>7, <1>8, Zenon DEF R!Next

----------------------------------------------------------------------------
(* All parts.                                                               *)

LEMMA ImagesStill ==
  ASSUME ImagesHeld, UNCHANGED imaging
  PROVE  ImagesHeld'
<1>1. UNCHANGED <<release, builds, runtime, replies, images, copies>>
  BY DEF imaging
<1>2. WaitsAsUsed(builds)'
  BY <1>1 DEF ImagesHeld, WaitsAsUsed
<1> QED
  BY <1>1, <1>2 DEF ImagesHeld

LEMMA ConfigurationStill ==
  ASSUME UNCHANGED configuring
  PROVE  (BaseHeld => BaseHeld') /\ (WholeHeld => WholeHeld') /\ (ReachHeld => ReachHeld')
<1>1. UNCHANGED <<configured, begun, wbegun, registering, exchanging, installs, exchanges,
                  checking, accepted, spent, reread, tabbed, apps>>
  BY DEF configuring
<1>2. (BaseHeld => BaseHeld') /\ (WholeHeld => WholeHeld')
  BY <1>1 DEF BaseHeld, SlotsHeld, ReturnsHeld, WholeHeld, Alone, Registers
<1>3. ReachHeld => ReachHeld'
  BY <1>1 DEF ReachHeld
<1> QED
  BY <1>2, <1>3

LEMMA RecordStill ==
  ASSUME RecordHeld, UNCHANGED recording
  PROVE  RecordHeld'
<1>1. UNCHANGED <<up, state, file, written, containers, running>>
  BY DEF recording
<1> QED
  BY <1>1 DEF RecordHeld, ReadableIs, WarrantsHeld, WarrantIs, R!PaidByItsPurse

\* What each part keeps, whichever part a behaviour is of.
LEMMA ImagesThroughout ==
  ASSUME OneHost, part = "Images" => ImagesHeld, [Next]_vars
  PROVE  (part = "Images" => ImagesHeld)'
<1>1. CASE OfImages /\ I!Next
  BY <1>1, ImagesNext DEF OfImages
<1>2. CASE UNCHANGED vars
  BY <1>2, ImagesStill DEF vars
<1>3. CASE \/ OfConfiguration /\ C!Next
           \/ OfRecord /\ R!Next
           \/ OfForm /\ F!Next
           \/ OfHearing /\ H!Next
           \/ OfDashboard /\ D!Next
           \/ OfWording /\ W!Next
  BY <1>3 DEF OfConfiguration, OfRecord, OfForm, OfHearing, OfDashboard, OfWording
<1> QED
  BY <1>1, <1>2, <1>3 DEF Next

LEMMA ConfigurationThroughout ==
  ASSUME part = "Configuration" => BaseHeld, [Next]_vars
  PROVE  /\ (part = "Configuration" => BaseHeld)'
         /\ ~Replaces /\ (part = "Configuration" => WholeHeld)
              => (part = "Configuration" => WholeHeld)'
         /\ (part = "Configuration" => ReachHeld) => (part = "Configuration" => ReachHeld)'
<1>1. CASE OfConfiguration /\ C!Next
  BY <1>1, BaseNext, WholeNext, ReachNext DEF OfConfiguration
<1>2. CASE UNCHANGED vars
  BY <1>2, ConfigurationStill DEF vars
<1>3. CASE \/ OfRecord /\ R!Next
           \/ OfForm /\ F!Next
           \/ OfHearing /\ H!Next
           \/ OfImages /\ I!Next
           \/ OfDashboard /\ D!Next
           \/ OfWording /\ W!Next
  BY <1>3 DEF OfRecord, OfForm, OfHearing, OfImages, OfDashboard, OfWording
<1> QED
  BY <1>1, <1>2, <1>3 DEF Next

LEMMA RecordThroughout ==
  ASSUME part = "Record" => RecordHeld, [Next]_vars
  PROVE  (part = "Record" => RecordHeld)'
<1>1. CASE OfRecord /\ R!Next
  BY <1>1, RecordNext DEF OfRecord
<1>2. CASE UNCHANGED vars
  BY <1>2, RecordStill DEF vars
<1>3. CASE \/ OfConfiguration /\ C!Next
           \/ OfForm /\ F!Next
           \/ OfHearing /\ H!Next
           \/ OfImages /\ I!Next
           \/ OfDashboard /\ D!Next
           \/ OfWording /\ W!Next
  BY <1>3 DEF OfConfiguration, OfForm, OfHearing, OfImages, OfDashboard, OfWording
<1> QED
  BY <1>1, <1>2, <1>3 DEF Next

\* A container is asked for from an image that is there when the runtime gets to it,
\* of an instance alone on its runtime: though a look is read after what it saw was
\* undone, and a build lands after who asked for it stopped, no sweep removes what the
\* release uses (turns.rs, looked and build; agent/src/lib.rs, keeping).
THEOREM AskedFromWhatIsThere ==
  OneHost => (Spec => [](part = "Images" => I!ThereWhenMade))
<1> SUFFICES ASSUME OneHost PROVE Spec => [](part = "Images" => I!ThereWhenMade)
  OBVIOUS
<1>1. Init => (part = "Images" => ImagesHeld)
  BY ImagesBegin DEF Init
<1>2. (part = "Images" => ImagesHeld) /\ [Next]_vars => (part = "Images" => ImagesHeld)'
  BY ImagesThroughout
<1>3. (part = "Images" => ImagesHeld) => (part = "Images" => I!ThereWhenMade)
  BY DEF ImagesHeld, IsToldAsUsed, I!ThereWhenMade
<1> QED
  BY <1>1, <1>2, <1>3, PTL DEF Spec

\* The purse of a job that is not over is held, whatever its project offers by
\* now and whoever changed what while changes were held (forget_purse,
\* State::charged_by); and an agent authenticates with the purse its kit charges,
\* as it was held when the agent was run, with no other beside it.
THEOREM WorkIsAlwaysPaidFor == Spec => []WorkIsPaidFor
<1> DEFINE Inv == /\ part = "Configuration" => BaseHeld
                  /\ part = "Record" => RecordHeld
<1>1. Init => Inv
  BY BaseBegins, RecordBegins DEF Init
<1>2. Inv /\ [Next]_vars => Inv'
  BY ConfigurationThroughout, RecordThroughout
<1>3. Inv => WorkIsPaidFor
  <2>1. BaseHeld => C!WorkIsPaidFor
    BY DEF BaseHeld, StateHeld, PaidIn, C!WorkIsPaidFor
  <2> QED
    BY <2>1, RecordSays DEF WorkIsPaidFor
<1> QED
  BY <1>1, <1>2, <1>3, PTL DEF Spec

\* Every purse, installation and workspace a project names is held after every
\* step (State::check), where nobody registers an app over one in use; and a file
\* opens to what was sealed in it, in this release's words and in the last one's,
\* with the key it was sealed under and with no other.
THEOREM AlwaysConsistent == ~Replaces => (Spec => []Consistent)
<1> SUFFICES ASSUME ~Replaces PROVE Spec => []Consistent
  OBVIOUS
<1> DEFINE Inv == /\ part = "Configuration" => BaseHeld
                  /\ part = "Configuration" => WholeHeld
                  /\ part = "Record" => RecordHeld
<1>1. Init => Inv
  BY BaseBegins, WholeBegins, RecordBegins DEF Init
<1>2. Inv /\ [Next]_vars => Inv'
  BY ConfigurationThroughout, RecordThroughout
<1>3. Inv => Consistent
  <2>1. WholeHeld => C!Consistent
    BY DEF WholeHeld, WholeIn, C!Consistent
  <2> QED
    BY <2>1, RecordSays DEF Consistent
<1> QED
  BY <1>1, <1>2, <1>3, PTL DEF Spec

\* What a project reaches its repository with a platform accepted for that
\* repository, and a token is its owner's, whoever changed what while a change was
\* held, unless it came to something else when it was read again to be kept; and even
\* so its token is one a platform accepted (checks.rs, checked; requests.rs, amend).
\* What a tab came back with goes to one project, and the warrant a job's container
\* holds, to fetch credentials with, is the one its own job is known by.
THEOREM ReachIsAlwaysItsOwn == Spec => []ReachIsItsOwn
<1> DEFINE Inv == /\ part = "Configuration" => BaseHeld
                  /\ part = "Configuration" => ReachHeld
                  /\ part = "Record" => RecordHeld
<1>1. Init => Inv
  BY BaseBegins, ReachBegins, RecordBegins DEF Init
<1>2. Inv /\ [Next]_vars => Inv'
  BY ConfigurationThroughout, RecordThroughout
<1>3. Inv => ReachIsItsOwn
  BY ReachSays, RecordSays DEF ReachIsItsOwn
<1> QED
  BY <1>1, <1>2, <1>3, PTL DEF Spec
=============================================================================
