-------------------------- MODULE Services_proofs --------------------------
(***************************************************************************)
(* Whoever waits is known to what will answer, nothing is kept that no     *)
(* longer holds, what is on the disk is only written over by what was read *)
(* of it, and there is one of what there must be one of: for every value   *)
(* of the constants, of each part of Services but Page, of which nothing   *)
(* of the kind is said.                                                    *)
(*                                                                         *)
(* Each part has an inductive invariant of its own, shown below to hold at *)
(* first and to be kept by its steps; a step of one part is none of        *)
(* another's.                                                              *)
(***************************************************************************)
EXTENDS Services, SequenceTheorems, WellFoundedInduction, TLAPS

----------------------------------------------------------------------------
(* Booting. *)

Files == [sealed : Nat, secrets : BOOLEAN, password : BOOLEAN, id : Nat, holds : Nat]
Facts == [runtime : Nat, key : Nat, opened : BOOLEAN, file : Files,
          password : {"None", "Kept", "Environment"}]

\* The phases in which the instance's file has been read.
Opened == {"Password", "Listing", "Labels", "Ready", "Awake"}

\* What is known of the instance is what its file holds, and was opened with
\* the key its credentials are sealed with.
IsRead(known, what) ==
  known.file.holds = what.holds /\ (what.secrets => what.sealed = known.key)

BootTyped ==
  /\ facts \in Facts /\ runs \in Nat
  /\ disk \in [key : [B!Places -> Nat], file : [B!Places -> Files]]

BootHeld ==
  /\ BootTyped
  /\ phase \in Opened => IsRead(facts, disk.file[B!FilePlace])

LEMMA BootAssumed == Candidates \in Nat /\ MaxRuns \in Nat
BY ServicesAssumption DEF B!BootAssumption

LEMMA BootBegins == ASSUME B!Init PROVE BootHeld
<1>1. facts \in Facts /\ B!NoFile \in Files
  BY DEF B!Init, B!NoFacts, B!NoFile, B!None, Facts, Files
<1> QED
  BY <1>1 DEF B!Init, BootHeld, BootTyped, Opened

LEMMA BootParts ==
  ASSUME BootHeld
  PROVE  /\ facts \in Facts /\ facts.file \in Files /\ facts.key \in Nat /\ runs \in Nat
         /\ disk.file \in [B!Places -> Files] /\ disk.key \in [B!Places -> Nat]
         /\ disk \in [key : [B!Places -> Nat], file : [B!Places -> Files]]
         /\ B!FilePlace \in B!Places /\ B!KeyPlace \in B!Places
         /\ disk.file[B!FilePlace] \in Files /\ disk.key[B!KeyPlace] \in Nat
<1>1. B!FilePlace \in B!Places /\ B!KeyPlace \in B!Places
  BY DEF B!FilePlace, B!KeyPlace, B!DataPlace, B!ConfigurationPlace, B!Places
<1>2. disk \in [key : [B!Places -> Nat], file : [B!Places -> Files]] /\ facts \in Facts /\ runs \in Nat
  BY DEF BootHeld, BootTyped
<1>3. disk.file \in [B!Places -> Files] /\ disk.key \in [B!Places -> Nat]
  BY <1>2
<1>4. facts.file \in Files /\ facts.key \in Nat
  BY <1>2 DEF Facts
<1> QED
  BY <1>1, <1>2, <1>3, <1>4

\* A question is answered, or what it asked is given up: the file is not
\* touched, and whatever it goes on with was read.
LEMMA GoesOn ==
  ASSUME BootHeld, UNCHANGED <<environment, disk, runs>>, facts' \in Facts,
         phase' \in Opened => IsRead(facts', disk.file[B!FilePlace])
  PROVE  BootHeld' /\ B!ReadBeforeWritten
<1>1. BootHeld'
  BY DEF BootHeld, BootTyped, B!FilePlace
<1> QED
  BY <1>1 DEF B!ReadBeforeWritten

\* Ready, it is awake once the rest is in.
LEMMA OnlyAwakes ==
  ASSUME NEW got, NEW bound, NEW presents
  PROVE  /\ B!MaybeAwake(got, bound, presents) \in {got, "Awake"}
         /\ B!MaybeAwake(got, bound, presents) \in Opened => got \in Opened
BY DEF B!MaybeAwake, Opened

LEMMA RuntimeGoes ==
  ASSUME BootHeld, NEW c \in 1..Candidates, B!RuntimeAnswered(c)
  PROVE  BootHeld' /\ B!ReadBeforeWritten
<1>1. UNCHANGED <<environment, disk, runs>>
  BY DEF B!RuntimeAnswered, B!Rests, B!world
<1> DEFINE known == [facts EXCEPT !.runtime = c]
<1>2. known \in Facts
  BY BootParts, BootAssumed DEF Facts
<1>3. [known EXCEPT !.key = B!Person] \in Facts
  <2>1. B!Person \in Nat
    BY BootAssumed DEF B!Person
  <2> QED
    BY <1>2, <2>1 DEF Facts
<1> HIDE DEF known
<1>4. CASE B!AskKey(known)
  <2>1. facts' \in {known, [known EXCEPT !.key = B!Person], facts} /\ phase' \in {"File", "Key", "Refused"}
    BY <1>4 DEF B!AskKey, B!AskFile, B!Refuse, B!In
  <2> QED
    BY <1>1, <1>2, <1>3, <2>1, BootParts, GoesOn DEF Opened
<1>5. CASE B!Refuse \/ B!TryCandidate(c + 1)
  <2>1. UNCHANGED facts /\ phase' \in {"Runtime", "Refused"}
    BY <1>5 DEF B!Refuse, B!TryCandidate, B!In
  <2> QED
    BY <1>1, <2>1, BootParts, GoesOn DEF Opened
<1> QED
  BY <1>4, <1>5 DEF B!RuntimeAnswered, known

LEMMA KeyIsRead ==
  ASSUME BootHeld, B!KeyRead
  PROVE  BootHeld' /\ B!ReadBeforeWritten
<1>1. UNCHANGED <<environment, disk, runs>>
  BY DEF B!KeyRead, B!Rests, B!world
<1>2. \E key \in Nat : facts' \in {facts, [facts EXCEPT !.key = key]}
  BY BootParts DEF B!KeyRead, B!Refuse, B!AskFile, B!MakeKey
<1>3. phase' \in {"Refused", "File", "KeyWritten"}
  BY DEF B!KeyRead, B!Refuse, B!AskFile, B!MakeKey, B!In
<1>4. facts' \in Facts
  BY <1>2, BootParts DEF Facts
<1> QED
  BY <1>1, <1>3, <1>4, GoesOn DEF Opened

\* A key on its way to the disk is there, or is not: no instance is touched.
LEMMA KeyIsWritten ==
  ASSUME BootHeld, phase' \notin Opened, UNCHANGED <<facts, runs>>,
         UNCHANGED disk \/ disk' = [disk EXCEPT !.key[B!KeyPlace] = facts.key]
  PROVE  BootHeld' /\ B!ReadBeforeWritten
<1>1. disk'.file = disk.file /\ disk' \in [key : [B!Places -> Nat], file : [B!Places -> Files]]
  <2>1. [disk.key EXCEPT ![B!KeyPlace] = facts.key] \in [B!Places -> Nat]
    BY BootParts
  <2>2. UNCHANGED disk \/ disk' = [disk EXCEPT !.key = [disk.key EXCEPT ![B!KeyPlace] = facts.key]]
    OBVIOUS
  <2> QED
    BY <2>1, <2>2, BootParts
<1> QED
  BY <1>1, BootParts DEF BootHeld, BootTyped, B!ReadBeforeWritten

LEMMA FileIsRead ==
  ASSUME BootHeld, B!FileRead
  PROVE  BootHeld' /\ B!ReadBeforeWritten
<1>1. UNCHANGED <<environment, disk, runs>>
  BY DEF B!FileRead, B!Rests, B!world
<1>2. CASE B!Refuse
  BY <1>1, <1>2, BootParts, GoesOn DEF B!Refuse, B!In, Opened
<1>3. ASSUME B!Opens(disk.file[B!FilePlace], facts.key),
             B!AskPasswordOrListing([facts EXCEPT !.opened = TRUE, !.file = disk.file[B!FilePlace]])
      PROVE  BootHeld' /\ B!ReadBeforeWritten
  <2> DEFINE what  == disk.file[B!FilePlace]
             known == [facts EXCEPT !.opened = TRUE, !.file = what]
  <2>1. known \in Facts /\ IsRead(known, what)
    <3>1. known \in Facts /\ known.file = what /\ known.key = facts.key
      BY BootParts DEF Facts
    <3>2. what.secrets => what.sealed = facts.key
      BY <1>3 DEF B!Opens, B!NoFile
    <3> QED
      BY <3>1, <3>2 DEF IsRead
  <2>2. \A p \in {"None", "Kept"} :
          [known EXCEPT !.password = p] \in Facts /\ IsRead([known EXCEPT !.password = p], what)
    BY <2>1 DEF Facts, IsRead
  <2>3. B!AskPasswordOrListing(known)
    BY <1>3
  <2> HIDE DEF known
  <2>4. facts' = known \/ \E p \in {"None", "Kept"} : facts' = [known EXCEPT !.password = p]
    BY <2>3 DEF B!AskPasswordOrListing, B!AskListing, B!None
  <2> QED
    BY <1>1, <2>1, <2>2, <2>4, GoesOn
<1> QED
  BY <1>2, <1>3 DEF B!FileRead

LEMMA Derives ==
  ASSUME BootHeld, B!Derived
  PROVE  BootHeld' /\ B!ReadBeforeWritten
<1>1. UNCHANGED <<environment, disk, runs>> /\ phase = "Password"
  BY DEF B!Derived, B!Rests, B!world
<1>2. CASE B!Refuse
  BY <1>1, <1>2, BootParts, GoesOn DEF B!Refuse, B!In, Opened
<1>3. CASE B!AskListing([facts EXCEPT !.file.password = TRUE, !.password = "Environment"])
  <2>1. facts' = [facts EXCEPT !.file.password = TRUE, !.password = "Environment"]
    BY <1>3 DEF B!AskListing
  <2> DEFINE what == [facts.file EXCEPT !.password = TRUE]
  <2>2. what \in Files /\ what.holds = facts.file.holds
    BY BootParts DEF Files
  <2>3. facts' = [facts EXCEPT !.file = what, !.password = "Environment"]
    BY <2>1
  <2> HIDE DEF what
  <2>4. facts' \in Facts /\ facts'.file = what /\ facts'.key = facts.key
    BY <2>2, <2>3, BootParts DEF Facts
  <2>5. IsRead(facts', disk.file[B!FilePlace])
    BY <1>1, <2>2, <2>4 DEF BootHeld, Opened, IsRead
  <2> QED
    BY <1>1, <2>4, <2>5, GoesOn
<1> QED
  BY <1>2, <1>3 DEF B!Derived

\* The rest of what it waits for: nothing more is read.
LEMMA Gathers ==
  ASSUME BootHeld,
         \/ \E which \in {"All", "Up"} : B!Listed(which)
         \/ \E asked \in Names \X B!Labels : B!Labelled(asked)
         \/ \E which \in {"Dashboard", "Tools"} : B!Bound(which)
         \/ B!Presenting
  PROVE  BootHeld' /\ B!ReadBeforeWritten
<1>1. UNCHANGED <<environment, disk, runs, facts>>
  BY DEF B!Listed, B!Labelled, B!Bound, B!Presenting, B!Rests, B!world, B!Refuse
<1>2. phase' \in Opened => phase \in Opened
  <2>1. ASSUME NEW which \in {"All", "Up"}, B!Listed(which) PROVE phase \in Opened
    BY <2>1 DEF B!Listed, Opened
  <2>2. ASSUME NEW asked \in Names \X B!Labels, B!Labelled(asked) PROVE phase \in Opened
    BY <2>2 DEF B!Labelled, Opened
  <2>3. ASSUME NEW which \in {"Dashboard", "Tools"}, B!Bound(which), phase' \in Opened
        PROVE  phase \in Opened
    <3>1. phase' = "Refused" \/ phase' = B!MaybeAwake(phase, addresses', presenting)
      BY <2>3 DEF B!Bound, B!Refuse, B!In
    <3> QED
      BY <2>3, <3>1, OnlyAwakes DEF Opened
  <2>4. ASSUME B!Presenting, phase' \in Opened PROVE phase \in Opened
    BY <2>4, OnlyAwakes DEF B!Presenting
  <2> QED
    BY <2>1, <2>2, <2>3, <2>4
<1> QED
  BY <1>1, <1>2, BootParts, GoesOn DEF BootHeld

\* A change is written over what was read, with the key it was read with.
LEMMA WritesOver ==
  ASSUME BootHeld, B!Writes
  PROVE  BootHeld' /\ B!ReadBeforeWritten
<1>1. UNCHANGED <<environment, runs, phase>> /\ phase = "Awake"
  BY DEF B!Writes
<1>2. IsRead(facts, disk.file[B!FilePlace])
  BY <1>1 DEF BootHeld, Opened
<1>3. B!Id \in Nat
  BY BootParts DEF B!Id, Files
<1> DEFINE With(secrets) == [facts.file EXCEPT !.sealed = facts.key, !.secrets = secrets,
                                               !.id = B!Id, !.holds = facts.file.holds + 1]
<1>4. PICK secrets \in BOOLEAN : facts' = [facts EXCEPT !.file = With(secrets)]
  <2>1. PICK secrets \in BOOLEAN :
          facts' = [facts EXCEPT !.file.sealed = facts.key, !.file.secrets = secrets,
                                 !.file.id = B!Id, !.file.holds = @ + 1]
    BY DEF B!Writes
  <2>2. facts \in Facts /\ facts.file \in Files
    BY BootParts
  <2>3. facts' = [facts EXCEPT !.file = With(secrets)]
    BY <2>1, <2>2 DEF Facts, Files
  <2> QED
    BY <2>3
<1> DEFINE what == With(secrets)
<1>5. what \in Files /\ what.sealed = facts.key /\ what.holds = facts.file.holds + 1
  <2>1. facts.file \in Files /\ facts.key \in Nat
    BY BootParts
  <2>2. facts.file.holds + 1 \in Nat
    BY <2>1 DEF Files
  <2> QED
    BY <1>3, <2>1, <2>2 DEF Files
<1>6. facts' = [facts EXCEPT !.file = what]
  BY <1>4
<1> HIDE DEF With, what
<1>7. facts' \in Facts /\ facts'.file = what /\ facts'.key = facts.key
  BY <1>5, <1>6, BootParts DEF Facts
<1>8. disk' = [disk EXCEPT !.file = [disk.file EXCEPT ![B!FilePlace] = what]]
  BY <1>7 DEF B!Writes
<1>9. [disk.file EXCEPT ![B!FilePlace] = what] \in [B!Places -> Files]
  BY <1>5, BootParts
<1>10. /\ disk' \in [key : [B!Places -> Nat], file : [B!Places -> Files]]
       /\ disk'.file = [disk.file EXCEPT ![B!FilePlace] = what]
  BY <1>8, <1>9, BootParts
<1>11. \A p \in B!Places : disk'.file[p] = IF p = B!FilePlace THEN what ELSE disk.file[p]
  BY <1>10, BootParts
<1>12. BootHeld'
  <2>1. B!FilePlace' = B!FilePlace
    BY <1>1 DEF B!FilePlace
  <2>2. IsRead(facts', disk'.file[B!FilePlace])
    BY <1>5, <1>7, <1>11, BootParts DEF IsRead
  <2> QED
    BY <1>1, <1>7, <1>10, <2>1, <2>2, BootParts DEF BootHeld, BootTyped
<1>13. B!ReadBeforeWritten
  BY <1>2, <1>5, <1>11 DEF B!ReadBeforeWritten, IsRead
<1> QED
  BY <1>12, <1>13

LEMMA BootKept == ASSUME BootHeld, B!Next PROVE BootHeld' /\ B!ReadBeforeWritten
<1>1. ASSUME NEW name \in Names, B!Provisions(name) PROVE BootHeld' /\ B!ReadBeforeWritten
  BY <1>1, BootParts, GoesOn DEF B!Provisions, B!state, BootHeld
<1>2. CASE B!Start
  <2>1. /\ facts' = B!NoFacts /\ runs' = runs + 1 /\ UNCHANGED disk
        /\ phase' \in {"Refused", "Runtime"}
    BY <1>2 DEF B!Start, B!In, B!world
  <2>2. B!NoFacts \in Facts
    BY DEF B!NoFacts, B!NoFile, B!None, Facts, Files
  <2>3. BootHeld'
    BY <2>1, <2>2, BootParts DEF BootHeld, BootTyped, Opened
  <2> QED
    BY <2>1, <2>3 DEF B!ReadBeforeWritten
<1>3. CASE B!Killed
  <2>1. phase' = "Off" /\ UNCHANGED <<facts, runs>>
        /\ (UNCHANGED disk \/ disk' = [disk EXCEPT !.key[B!KeyPlace] = facts.key])
    BY <1>3 DEF B!Killed, B!In
  <2> QED
    BY <2>1, KeyIsWritten DEF Opened
<1>4. CASE B!KeyWritten
  <2>1. phase' \in {"Refused", "File"} /\ UNCHANGED <<facts, runs>>
        /\ (UNCHANGED disk \/ disk' = [disk EXCEPT !.key[B!KeyPlace] = facts.key])
    BY <1>4 DEF B!KeyWritten, B!Refuse, B!AskFile, B!In
  <2> QED
    BY <2>1, KeyIsWritten DEF Opened
<1> QED
  BY <1>1, <1>2, <1>3, <1>4, RuntimeGoes, KeyIsRead, FileIsRead, Derives, Gathers, WritesOver
     DEF B!Next, B!Answers

LEMMA BootStutters ==
  ASSUME BootHeld, UNCHANGED boot
  PROVE  BootHeld' /\ B!ReadBeforeWritten
BY BootParts, GoesOn DEF boot, BootHeld

----------------------------------------------------------------------------
(* Sessions and turns. *)

\* The link is gone once there is a password: a change leaves the one, or sets
\* the other with it.
LEMMA SessionsKept ==
  ASSUME S!LinkIsForTheFirst, S!Next
  PROVE  S!LinkIsForTheFirst'
<1>1. ASSUME NEW v \in Visitors, S!Asks(v) \/ S!Follows(v) \/ S!SetupVisited(v) \/ S!SignedOut(v)
      PROVE  UNCHANGED <<setup, password>>
  BY <1>1 DEF S!Asks, S!Follows, S!Gated, S!EntryGranted, S!GateTunnel, S!SetupVisited,
              S!SignedOut, S!held
<1>2. ASSUME NEW v \in Visitors, S!Derived(v)
      PROVE  UNCHANGED <<setup, password>> \/ setup' = FALSE
  BY <1>2 DEF S!Derived, S!LoginDerived, S!PasswordDerived, S!LinkGoes
<1>3. ASSUME NEW v, NEW x, NEW y, S!LoginRead(v, x) \/ S!SetPassword(v, x, y)
      PROVE  UNCHANGED <<setup, password>>
  BY <1>3 DEF S!LoginRead, S!SetPassword
<1>4. ASSUME S!Lapses \/ \E j \in Rooms : S!Retires(j) PROVE UNCHANGED <<setup, password>>
  BY <1>4 DEF S!Lapses, S!Retires
<1>5. UNCHANGED <<setup, password>> \/ setup' = FALSE
  BY <1>1, <1>2, <1>3, <1>4 DEF S!Next
<1> QED
  BY <1>5 DEF S!LinkIsForTheFirst

LEMMA SessionsBegin == ASSUME S!Init PROVE S!LinkIsForTheFirst
BY DEF S!Init, S!LinkIsForTheFirst

\* Each waits on the build it is said to, and has claimed what it has since the
\* last message landed.
TurnsHeld ==
  /\ stage = [s \in T!Speakers |-> stage[s]]
  /\ building \in [T!Images -> SUBSET T!Speakers]
  /\ lands = [s \in T!Speakers |-> lands[s]] /\ claimed = [s \in T!Speakers |-> claimed[s]]
  /\ T!WaitsOnABuild /\ T!ClaimIsCurrent

LEMMA TurnsBegin == ASSUME T!Init PROVE TurnsHeld
<1>1. stage = [s \in T!Speakers |-> stage[s]]
  BY DEF T!Init
<1>2. building \in [T!Images -> SUBSET T!Speakers]
  BY DEF T!Init
<1>3. lands = [s \in T!Speakers |-> lands[s]] /\ claimed = [s \in T!Speakers |-> claimed[s]]
  BY DEF T!Init
<1>4. T!WaitsOnABuild /\ T!ClaimIsCurrent
  BY DEF T!Init, T!WaitsOnABuild, T!ClaimIsCurrent, T!Speakers
<1> QED
  BY <1>1, <1>2, <1>3, <1>4 DEF TurnsHeld

\* A turn goes on, or ends, without a build being waited on before or after.
LEMMA StageMoves ==
  ASSUME TurnsHeld, UNCHANGED <<building, lands, claimed>>, NEW s \in T!Speakers, NEW then,
         stage' = [stage EXCEPT ![s] = then], stage[s] # "Building", then # "Building"
  PROVE  TurnsHeld'
<1>1. stage' = [t \in T!Speakers |-> stage'[t]]
  BY DEF TurnsHeld
<1>2. \A t \in T!Speakers : stage'[t] = IF t = s THEN then ELSE stage[t]
  BY DEF TurnsHeld
<1>3. T!WaitsOnABuild'
  BY <1>2 DEF TurnsHeld, T!WaitsOnABuild
<1>4. T!ClaimIsCurrent'
  BY DEF TurnsHeld, T!ClaimIsCurrent
<1> QED
  BY <1>1, <1>3, <1>4 DEF TurnsHeld

LEMMA StageStays ==
  ASSUME TurnsHeld, UNCHANGED <<stage, building>>,
         lands' = [s \in T!Speakers |-> lands'[s]],
         claimed' = [s \in T!Speakers |-> claimed'[s]],
         T!ClaimIsCurrent'
  PROVE  TurnsHeld'
BY DEF TurnsHeld, T!WaitsOnABuild

LEMMA TurnKeeps ==
  ASSUME TurnsHeld, NEW s \in T!Speakers, T!Turn(s)
  PROVE  TurnsHeld'
<1>1. /\ lands' = [lands EXCEPT ![s] = 0] /\ claimed' = [claimed EXCEPT ![s] = T!Unsaid]
      /\ stage[s] = "Working" /\ UNCHANGED building
      /\ stage' = [stage EXCEPT ![s] = IF s \in made THEN "Starting" ELSE "Looking"]
  BY DEF T!Turn, T!To, T!images
<1>2. lands' = [t \in T!Speakers |-> lands'[t]] /\ claimed' = [t \in T!Speakers |-> claimed'[t]]
  BY <1>1 DEF TurnsHeld
<1>3. /\ stage' = [t \in T!Speakers |-> stage'[t]]
      /\ \A t \in T!Speakers : stage'[t] = "Building" <=> stage[t] = "Building"
  BY <1>1 DEF TurnsHeld
<1>4. T!WaitsOnABuild'
  BY <1>1, <1>3 DEF TurnsHeld, T!WaitsOnABuild
<1>5. T!ClaimIsCurrent'
  BY <1>1 DEF TurnsHeld, T!ClaimIsCurrent, T!Speakers
<1> QED
  BY <1>1, <1>2, <1>3, <1>4, <1>5 DEF TurnsHeld

LEMMA LookedKeeps ==
  ASSUME TurnsHeld, NEW s \in T!Speakers, T!Looked(s)
  PROVE  TurnsHeld'
<1>1. UNCHANGED <<lands, claimed>> /\ stage[s] = "Looking"
  BY DEF T!Looked, T!Silent, T!talk
<1>2. CASE UNCHANGED building /\ \E then \in {"None", "Creating"} : stage' = [stage EXCEPT ![s] = then]
  BY <1>1, <1>2, StageMoves
<1>3. CASE T!Build(s)
  <2>1. Image[s] \in T!Images
    BY DEF T!Images
  <2>2. /\ stage' = [t \in T!Speakers |-> stage'[t]]
        /\ \A t \in T!Speakers : stage'[t] = IF t = s THEN "Building" ELSE stage[t]
    BY <1>3 DEF TurnsHeld, T!Build, T!To
  <2>3. /\ building' \in [T!Images -> SUBSET T!Speakers]
        /\ \A i \in T!Images : building'[i] = IF i = Image[s] THEN building[i] \union {s} ELSE building[i]
    BY <1>3, <2>1 DEF TurnsHeld, T!Build
  <2>4. T!WaitsOnABuild'
    <3> SUFFICES ASSUME NEW t \in T!Speakers, NEW i \in T!Images
                 PROVE  t \in building'[i] <=> stage'[t] = "Building" /\ Image[t] = i
      BY DEF T!WaitsOnABuild
    <3>1. t \in building[i] <=> stage[t] = "Building" /\ Image[t] = i
      BY DEF TurnsHeld, T!WaitsOnABuild
    <3>2. CASE t = s
      BY <1>1, <2>2, <2>3, <3>1, <3>2
    <3>3. CASE t # s
      BY <2>2, <2>3, <3>1, <3>3
    <3> QED
      BY <3>2, <3>3
  <2> QED
    BY <1>1, <2>2, <2>3, <2>4 DEF TurnsHeld, T!ClaimIsCurrent
<1> QED
  BY <1>2, <1>3 DEF T!Looked, T!Ended, T!To

LEMMA BuiltKeeps ==
  ASSUME TurnsHeld, NEW i \in T!Images, NEW ok \in BOOLEAN, T!Built(i, ok)
  PROVE  TurnsHeld'
<1>1. UNCHANGED <<lands, claimed>> /\ building' = [building EXCEPT ![i] = {}]
  BY DEF T!Built, T!Silent, T!talk
<1>2. /\ stage' = [t \in T!Speakers |-> stage'[t]]
      /\ \A t \in T!Speakers : IF t \in building[i] THEN stage'[t] # "Building"
                                                   ELSE stage'[t] = stage[t]
  BY DEF T!Built
<1>3. T!WaitsOnABuild'
  <2> SUFFICES ASSUME NEW t \in T!Speakers, NEW j \in T!Images
               PROVE  t \in building'[j] <=> stage'[t] = "Building" /\ Image[t] = j
    BY DEF T!WaitsOnABuild
  <2>1. /\ t \in building[i] <=> stage[t] = "Building" /\ Image[t] = i
        /\ t \in building[j] <=> stage[t] = "Building" /\ Image[t] = j
    BY DEF TurnsHeld, T!WaitsOnABuild
  <2>2. building'[j] = IF j = i THEN {} ELSE building[j]
    BY <1>1 DEF TurnsHeld
  <2> QED
    BY <1>2, <2>1, <2>2
<1>4. building' \in [T!Images -> SUBSET T!Speakers]
  BY <1>1 DEF TurnsHeld
<1> QED
  BY <1>1, <1>2, <1>3, <1>4 DEF TurnsHeld, T!ClaimIsCurrent

LEMMA AnsweredKeeps ==
  ASSUME TurnsHeld, NEW s \in T!Speakers, NEW ok \in BOOLEAN,
         T!Made(s, ok) \/ T!Held(s, ok) \/ T!Wrapped(s, ok) \/ T!CheckedOut(s, ok)
  PROVE  TurnsHeld'
<1>1. UNCHANGED <<building, lands, claimed>>
  BY DEF T!Made, T!Held, T!Wrapped, T!CheckedOut, T!Silent, T!talk, T!images
<1>2. /\ stage[s] \in {"Creating", "Starting", "Wrapping", "CheckingOut"}
      /\ \E then \in {"None", "Starting", "Wrapping", "CheckingOut", "Talking"} :
           stage' = [stage EXCEPT ![s] = then]
  BY DEF T!Made, T!Held, T!Wrapped, T!CheckedOut, T!Answered, T!Ended, T!To
<1> QED
  BY <1>1, <1>2, StageMoves

LEMMA ClaimKeeps ==
  ASSUME TurnsHeld, NEW s \in T!Speakers,
         T!StoppingBecause(s) \/ T!Steered(s) \/ T!Prompts(s) \/ T!Deliver(s) \/ T!StopTurn(s)
  PROVE  TurnsHeld'
<1>1. UNCHANGED <<stage, building>>
  BY DEF T!StoppingBecause, T!Steered, T!Prompts, T!Deliver, T!StopTurn, T!Rests, T!images
<1>2. /\ \/ UNCHANGED <<lands, claimed>>
         \/ lands' = lands /\ claimed' = [claimed EXCEPT ![s] = lands[s]]
         \/ lands' = [lands EXCEPT ![s] = @ + 1] /\ claimed' = [claimed EXCEPT ![s] = T!Unsaid]
  BY DEF T!StoppingBecause, T!Steered, T!Withdrawn, T!Prompts, T!Deliver, T!StopTurn, T!talk
<1>3. lands' = [t \in T!Speakers |-> lands'[t]] /\ claimed' = [t \in T!Speakers |-> claimed'[t]]
  BY <1>2 DEF TurnsHeld
<1>4. T!ClaimIsCurrent'
  BY <1>2 DEF TurnsHeld, T!ClaimIsCurrent, T!Speakers
<1> QED
  BY <1>1, <1>3, <1>4, StageStays

LEMMA TurnsKept ==
  ASSUME TurnsHeld, T!Next
  PROVE  TurnsHeld'
<1>1. ASSUME NEW s \in T!Speakers, T!Start(s) \/ T!Over(s) \/ T!ProcessEnds(s)
      PROVE  TurnsHeld'
  <2>1. UNCHANGED <<building, lands, claimed>>
    BY <1>1 DEF T!Start, T!Over, T!ProcessEnds, T!Rests, T!images, T!talk
  <2>2. /\ stage[s] \in {"None", "Talking", "Closing"}
        /\ \E then \in {"Working", "Closing", "None"} : stage' = [stage EXCEPT ![s] = then]
    BY <1>1 DEF T!Start, T!Over, T!ProcessEnds, T!Ended, T!To
  <2> QED
    BY <2>1, <2>2, StageMoves
<1>2. ASSUME T!GoesOff PROVE TurnsHeld'
  BY <1>2, StageStays DEF T!GoesOff, T!CancelOverdue, T!images, T!talk, TurnsHeld, T!ClaimIsCurrent
<1> QED
  BY <1>1, <1>2, TurnKeeps, LookedKeeps, BuiltKeeps, AnsweredKeeps, ClaimKeeps
     DEF T!Next, T!RuntimeAnswers, T!BuildAnswers, T!AgentTalks

----------------------------------------------------------------------------
(* Credentials. *)

Reach == [inst : Installations \union {K!None}, repo : Repositories \union {K!None}, setUp : Nat]
Token == [for : Reach, good : BOOLEAN]
Told  == {K!Waiting, K!Refused, K!Idle} \union [told : {"Handed"}, token : Reach]
Asked == [form : Forms, stage : {"Readable", "Owner", "Listing", "Minting"},
          inst : Installations \union {K!None}]

\* The types of what is held of tokens.
TokensTyped ==
  /\ installed \in [Installations -> Nat]
  /\ access \in [Projects -> Installations \union {"Token", K!None}]
  /\ repository \in [Projects -> Repositories]
  /\ minted \in [Projects -> Token] /\ minting \in [Projects -> Reach]
  /\ awaiting \in [Projects -> SUBSET Wrappers] /\ told \in [Wrappers -> Told]
  /\ reaches \subseteq Asked
  /\ reaching \in [Forms -> {K!Unasked, K!Answered, "Reaching"}]

\* What waits, waits in the one place it is answered from.
InOnePlace ==
  /\ \A w \in Wrappers : told[w] = K!Waiting => w \in awaiting[JobOf[w]]
  /\ \A p \in Projects : \A w \in awaiting[p] :
       p = JobOf[w] /\ told[w] = K!Waiting /\ minting[p] # K!Nothing
  /\ \A f \in Forms : reaching[f] = "Reaching" <=> \E q \in reaches : q.form = f

\* What is kept or being minted for a project is for what it reaches.
ForItsReach ==
  \A p \in Projects :
    /\ minted[p] # K!NoToken => minted[p].for = K!Reached(p) /\ K!OnInstallation(p)
    /\ minting[p] # K!Nothing => minting[p] = K!Reached(p) /\ K!OnInstallation(p)

CredentialsHeld == TokensTyped /\ InOnePlace /\ (~MidMint => ForItsReach)

LEMMA CredentialsAssumed ==
  /\ JobOf \in [Wrappers -> Projects]
  /\ K!None \notin Installations /\ K!None \notin Repositories
BY ServicesAssumption DEF K!CredentialsAssumption

LEMMA NothingTyped == K!Nothing \in Reach /\ K!NoToken \in Token
BY DEF K!Nothing, K!NoToken, Reach, Token

LEMMA ToldApart ==
  /\ K!Waiting \in Told /\ K!Refused \in Told /\ K!Idle \in Told
  /\ K!Refused # K!Waiting /\ K!Idle # K!Waiting
  /\ \A t \in Reach : K!Handed(t) \in Told /\ K!Handed(t) # K!Waiting
  /\ \A a \in Told : a # K!Waiting => a.told # "Waiting"
BY DEF Told, K!Waiting, K!Refused, K!Idle, K!Handed

LEMMA ReachedTyped ==
  ASSUME TokensTyped, NEW p \in Projects, K!OnInstallation(p)
  PROVE  K!Reached(p) \in Reach /\ K!Reached(p) # K!Nothing
BY CredentialsAssumed DEF TokensTyped, K!OnInstallation, K!Reached, K!For, K!Nothing, Reach

LEMMA CredentialsBegin == ASSUME K!Init PROVE CredentialsHeld
<1> USE DEF K!Init
<1>1. TokensTyped
  BY NothingTyped, ToldApart DEF TokensTyped
<1>2. InOnePlace
  BY ToldApart DEF InOnePlace, K!Unasked
<1>3. ForItsReach
  BY DEF ForItsReach
<1> QED
  BY <1>1, <1>2, <1>3 DEF CredentialsHeld

\* Everyone who waits on a project's minting is told, and waits no more.
LEMMA EveryoneTold ==
  ASSUME TokensTyped, InOnePlace, NEW p \in Projects,
         NEW ws \in SUBSET Wrappers, awaiting[p] \subseteq ws,
         \A w \in ws : JobOf[w] = p,
         NEW answer \in Told, answer # K!Waiting,
         K!TokenWaitingAnswered(p, ws, answer),
         \A q \in Projects : q # p => minting'[q] = minting[q],
         minting' \in [Projects -> Reach], UNCHANGED <<reaches, reaching>>
  PROVE  /\ awaiting' \in [Projects -> SUBSET Wrappers] /\ told' \in [Wrappers -> Told]
         /\ InOnePlace'
<1>1. awaiting' \in [Projects -> SUBSET Wrappers] /\ told' \in [Wrappers -> Told]
  BY DEF TokensTyped, K!TokenWaitingAnswered
<1>2. \A w \in Wrappers : told'[w] = K!Waiting => w \notin ws /\ told[w] = K!Waiting
  BY DEF K!TokenWaitingAnswered
<1>3. \A q \in Projects : awaiting'[q] = IF q = p THEN {} ELSE awaiting[q]
  BY DEF TokensTyped, K!TokenWaitingAnswered
<1>4. ASSUME NEW w \in Wrappers, told'[w] = K!Waiting PROVE w \in awaiting'[JobOf[w]]
  <2>1. w \in awaiting[JobOf[w]] /\ w \notin ws
    BY <1>2, <1>4 DEF InOnePlace
  <2> QED
    BY <2>1, <1>3, CredentialsAssumed
<1>5. ASSUME NEW q \in Projects, NEW w \in awaiting'[q]
      PROVE  q = JobOf[w] /\ told'[w] = K!Waiting /\ minting'[q] # K!Nothing
  <2>1. q # p /\ w \in awaiting[q]
    BY <1>3, <1>5
  <2>2. q = JobOf[w] /\ told[w] = K!Waiting /\ minting[q] # K!Nothing /\ w \in Wrappers
    BY <2>1 DEF InOnePlace, TokensTyped
  <2> QED
    BY <2>1, <2>2 DEF K!TokenWaitingAnswered
<1>6. \A f \in Forms : reaching'[f] = "Reaching" <=> \E q \in reaches' : q.form = f
  BY DEF InOnePlace
<1> QED
  BY <1>1, <1>4, <1>5, <1>6 DEF InOnePlace

\* One wrapper more waits on a minting.
LEMMA OneMoreWaits ==
  ASSUME TokensTyped, InOnePlace, NEW w \in Wrappers, NEW p, p = JobOf[w],
         awaiting' = [awaiting EXCEPT ![p] = @ \union {w}],
         told' = [told EXCEPT ![w] = K!Waiting],
         minting' \in [Projects -> Reach], minting'[p] # K!Nothing,
         \A q \in Projects : q # p => minting'[q] = minting[q],
         UNCHANGED <<reaches, reaching>>
  PROVE  /\ awaiting' \in [Projects -> SUBSET Wrappers] /\ told' \in [Wrappers -> Told]
         /\ InOnePlace'
<1>0. p \in Projects
  BY CredentialsAssumed
<1>1. awaiting' \in [Projects -> SUBSET Wrappers] /\ told' \in [Wrappers -> Told]
  BY <1>0, ToldApart DEF TokensTyped
<1>2. \A q \in Projects : awaiting'[q] = IF q = p THEN awaiting[q] \union {w} ELSE awaiting[q]
  BY <1>0 DEF TokensTyped
<1>3. \A v \in Wrappers : told'[v] = IF v = w THEN K!Waiting ELSE told[v]
  BY DEF TokensTyped
<1>4. ASSUME NEW v \in Wrappers, told'[v] = K!Waiting PROVE v \in awaiting'[JobOf[v]]
  <2>1. JobOf[v] \in Projects
    BY CredentialsAssumed
  <2>2. CASE v = w
    BY <1>0, <1>2, <2>2
  <2>3. CASE v # w
    <3>1. v \in awaiting[JobOf[v]]
      BY <1>3, <1>4, <2>3 DEF InOnePlace
    <3> QED
      BY <1>2, <2>1, <3>1
  <2> QED
    BY <2>2, <2>3
<1>5. ASSUME NEW q \in Projects, NEW v \in awaiting'[q]
      PROVE  q = JobOf[v] /\ told'[v] = K!Waiting /\ minting'[q] # K!Nothing
  <2>1. CASE v \in awaiting[q]
    <3>1. q = JobOf[v] /\ told[v] = K!Waiting /\ minting[q] # K!Nothing /\ v \in Wrappers
      BY <2>1 DEF InOnePlace, TokensTyped
    <3> QED
      BY <3>1, <1>3
  <2>2. CASE v = w /\ q = p
    BY <2>2, <1>3
  <2> QED
    BY <2>1, <2>2, <1>2
<1>6. \A f \in Forms : reaching'[f] = "Reaching" <=> \E q \in reaches' : q.form = f
  BY DEF InOnePlace
<1> QED
  BY <1>1, <1>4, <1>5, <1>6 DEF InOnePlace

LEMMA CredentialAskedKeeps ==
  ASSUME CredentialsHeld, NEW w \in Wrappers, K!CredentialAsked(w)
  PROVE  CredentialsHeld'
<1> DEFINE p == JobOf[w]
<1>1. p \in Projects
  BY CredentialsAssumed
<1>2. TokensTyped /\ InOnePlace /\ (~MidMint => ForItsReach)
  BY DEF CredentialsHeld
<1>3. /\ UNCHANGED <<installed, access, repository, minted, reaches, reaching>>
      /\ told[w].told # "Waiting"
  BY DEF K!CredentialAsked, K!ours, K!lists
<1>4. told[w] # K!Waiting
  BY <1>3 DEF K!Waiting
<1>5. ASSUME NEW answer \in Told, answer # K!Waiting,
             told' = [told EXCEPT ![w] = answer], UNCHANGED <<awaiting, minting>>
      PROVE  CredentialsHeld'
  <2>1. TokensTyped'
    BY <1>2, <1>3, <1>5 DEF TokensTyped
  <2>2. \A v \in Wrappers : told'[v] = IF v = w THEN answer ELSE told[v]
    BY <1>2, <1>5 DEF TokensTyped
  <2>3. \A q \in Projects : \A v \in awaiting[q] : v # w /\ v \in Wrappers
    BY <1>2, <1>4 DEF TokensTyped, InOnePlace
  <2>4. InOnePlace'
    BY <1>2, <1>3, <1>5, <2>2, <2>3 DEF InOnePlace
  <2>5. ForItsReach => ForItsReach'
    BY <1>3, <1>5 DEF ForItsReach, K!Reached, K!For, K!OnInstallation
  <2> QED
    BY <1>2, <2>1, <2>4, <2>5 DEF CredentialsHeld
<1>6. CASE access[p] = "Token"
  <2>1. K!Own \in Told /\ K!Own # K!Waiting
    BY NothingTyped DEF K!Own, K!Waiting, Told
  <2> QED
    BY <2>1, <1>5, <1>6 DEF K!CredentialAsked, K!None
<1>7. CASE access[p] # "Token" /\ access[p] = K!None
  BY <1>5, <1>7, ToldApart DEF K!CredentialAsked
<1>8. CASE access[p] # "Token" /\ access[p] # K!None
  <2>1. K!CredentialFromInstallation(w, p)
    BY <1>8 DEF K!CredentialAsked
  <2>2. K!OnInstallation(p)
    BY <1>1, <1>2, <1>8 DEF TokensTyped, K!OnInstallation
  <2>3. minted[p] \in Token /\ minted[p].for \in Reach
    BY <1>1, <1>2 DEF TokensTyped, Token
  <2>4. CASE minted[p].good
    <3>1. told' = [told EXCEPT ![w] = K!Handed(minted[p].for)] /\ UNCHANGED <<awaiting, minting>>
      BY <2>1, <2>4 DEF K!CredentialFromInstallation
    <3> QED
      BY <3>1, <2>3, <1>5, ToldApart
  <2>5. CASE /\ awaiting' = [awaiting EXCEPT ![p] = @ \union {w}]
             /\ told' = [told EXCEPT ![w] = K!Waiting]
             /\ \/ minting[p] # K!Nothing /\ UNCHANGED minting
                \/ minting' = [minting EXCEPT ![p] = K!Reached(p)]
    <3>1. K!Reached(p) \in Reach /\ K!Reached(p) # K!Nothing
      BY <1>1, <1>2, <2>2, ReachedTyped
    <3>2. /\ minting' \in [Projects -> Reach] /\ minting'[p] # K!Nothing
          /\ \A q \in Projects : q # p => minting'[q] = minting[q]
      BY <1>1, <1>2, <2>5, <3>1 DEF TokensTyped
    <3>3. /\ awaiting' \in [Projects -> SUBSET Wrappers] /\ told' \in [Wrappers -> Told]
          /\ InOnePlace'
      BY <1>2, <1>3, <2>5, <3>2, OneMoreWaits
    <3>4. TokensTyped'
      BY <1>2, <1>3, <3>2, <3>3 DEF TokensTyped
    <3>5. ForItsReach => ForItsReach'
      <4> SUFFICES ASSUME ForItsReach, NEW q \in Projects
                   PROVE  /\ minted'[q] # K!NoToken => minted'[q].for = K!Reached(q)' /\ K!OnInstallation(q)'
                          /\ minting'[q] # K!Nothing => minting'[q] = K!Reached(q)' /\ K!OnInstallation(q)'
        BY DEF ForItsReach
      <4>1. K!Reached(q)' = K!Reached(q) /\ (K!OnInstallation(q)' <=> K!OnInstallation(q))
        BY <1>3 DEF K!Reached, K!For, K!OnInstallation
      <4>2. minting'[q] = minting[q] \/ (q = p /\ minting'[q] = K!Reached(q))
        BY <1>1, <1>2, <2>5 DEF TokensTyped
      <4> QED
        BY <1>3, <2>2, <4>1, <4>2 DEF ForItsReach
    <3> QED
      BY <1>2, <3>3, <3>4, <3>5 DEF CredentialsHeld
  <2>6. CASE K!TokenWaitingAnswered(p, awaiting[p] \union {w}, K!Refused) /\ UNCHANGED minting
    <3>1. awaiting[p] \union {w} \in SUBSET Wrappers
      BY <1>1, <1>2 DEF TokensTyped
    <3>2. \A v \in awaiting[p] \union {w} : JobOf[v] = p
      BY <1>1, <1>2 DEF InOnePlace
    <3>3. /\ awaiting' \in [Projects -> SUBSET Wrappers] /\ told' \in [Wrappers -> Told]
          /\ InOnePlace'
      <4> HIDE DEF p
      <4>1. minting' \in [Projects -> Reach] /\ \A q \in Projects : minting'[q] = minting[q]
        BY <1>2, <2>6 DEF TokensTyped
      <4> QED
        BY <1>1, <1>2, <1>3, <2>6, <3>1, <3>2, <4>1, ToldApart, EveryoneTold
    <3>4. TokensTyped'
      BY <1>2, <1>3, <2>6, <3>3 DEF TokensTyped
    <3>5. ForItsReach => ForItsReach'
      BY <1>3, <2>6 DEF ForItsReach, K!Reached, K!For, K!OnInstallation
    <3> QED
      BY <1>2, <3>3, <3>4, <3>5 DEF CredentialsHeld
  <2> QED
    BY <2>1, <2>4, <2>5, <2>6 DEF K!CredentialFromInstallation
<1> QED
  BY <1>6, <1>7, <1>8

LEMMA MintedKeeps ==
  ASSUME CredentialsHeld, NEW p \in Projects, NEW answered \in BOOLEAN,
         K!MintedAnswered(p, answered)
  PROVE  CredentialsHeld'
<1>1. TokensTyped /\ InOnePlace /\ (~MidMint => ForItsReach)
  BY DEF CredentialsHeld
<1>2. /\ UNCHANGED <<installed, access, repository, reaches, reaching>>
      /\ minting[p] # K!Nothing /\ minting' = [minting EXCEPT ![p] = K!Nothing]
  BY DEF K!MintedAnswered, K!ours, K!lists
<1>3. /\ minting' \in [Projects -> Reach] /\ minting'[p] = K!Nothing
      /\ \A q \in Projects : q # p => minting'[q] = minting[q]
  BY <1>1, <1>2, NothingTyped DEF TokensTyped
<1>4. minting[p] \in Reach
  BY <1>1 DEF TokensTyped
<1>5. PICK answer \in Told : answer # K!Waiting /\ K!TokenWaitingAnswered(p, awaiting[p], answer)
  BY <1>4, ToldApart DEF K!MintedAnswered
<1>6. /\ awaiting' \in [Projects -> SUBSET Wrappers] /\ told' \in [Wrappers -> Told]
      /\ InOnePlace'
  <2>1. awaiting[p] \in SUBSET Wrappers /\ \A w \in awaiting[p] : JobOf[w] = p
    BY <1>1 DEF TokensTyped, InOnePlace
  <2> QED
    BY <1>1, <1>2, <1>3, <1>5, <2>1, EveryoneTold
<1>7. /\ minted' \in [Projects -> Token]
      /\ \A q \in Projects : \/ minted'[q] = minted[q]
                             \/ q = p /\ minted'[q] = [for |-> minting[p], good |-> TRUE]
  <2>1. [for |-> minting[p], good |-> TRUE] \in Token
    BY <1>4 DEF Token
  <2>2. minted' = minted \/ minted' = [minted EXCEPT ![p] = [for |-> minting[p], good |-> TRUE]]
    BY DEF K!MintedAnswered
  <2> QED
    BY <1>1, <2>1, <2>2 DEF TokensTyped
<1>8. TokensTyped'
  BY <1>1, <1>2, <1>3, <1>6, <1>7 DEF TokensTyped
<1>9. ForItsReach => ForItsReach'
  <2> SUFFICES ASSUME ForItsReach, NEW q \in Projects
               PROVE  /\ minted'[q] # K!NoToken => minted'[q].for = K!Reached(q)' /\ K!OnInstallation(q)'
                      /\ minting'[q] # K!Nothing => minting'[q] = K!Reached(q)' /\ K!OnInstallation(q)'
    BY DEF ForItsReach
  <2>1. K!Reached(q)' = K!Reached(q) /\ (K!OnInstallation(q)' <=> K!OnInstallation(q))
    BY <1>2 DEF K!Reached, K!For, K!OnInstallation
  <2>2. minted'[q] = minted[q] \/ (minted'[q].for = minting[q] /\ q = p)
    BY <1>7
  <2> QED
    BY <1>2, <1>3, <2>1, <2>2 DEF ForItsReach
<1> QED
  BY <1>1, <1>6, <1>8, <1>9 DEF CredentialsHeld

LEMMA FormAsks ==
  ASSUME CredentialsHeld, NEW f \in Forms, NEW qs, qs \subseteq Asked,
         \A q \in qs : q.form = f, K!Asks(f, qs)
  PROVE  CredentialsHeld'
<1>1. TokensTyped /\ InOnePlace /\ (~MidMint => ForItsReach)
  BY DEF CredentialsHeld
<1>2. UNCHANGED <<installed, access, repository, minted, minting, awaiting, told>>
  BY DEF K!Asks, K!ours, K!jobs
<1>3. TokensTyped'
  BY <1>1, <1>2 DEF TokensTyped, K!Asks
<1>4. ASSUME NEW g \in Forms
      PROVE  reaching'[g] = "Reaching" <=> \E q \in reaches' : q.form = g
  <2>1. CASE g # f
    BY <1>1, <2>1 DEF K!Asks, InOnePlace, TokensTyped
  <2>2. CASE g = f
    <3>1. ~\E q \in reaches : q.form = f
      BY <1>1 DEF K!Asks, InOnePlace, K!Unasked
    <3>2. reaching'[f] = IF qs = {} THEN K!Answered ELSE "Reaching"
      BY <1>1 DEF K!Asks, TokensTyped
    <3> QED
      BY <2>2, <3>1, <3>2 DEF K!Asks, K!Answered
  <2> QED
    BY <2>1, <2>2
<1>5. InOnePlace'
  BY <1>1, <1>2, <1>4 DEF InOnePlace
<1>6. ForItsReach => ForItsReach'
  BY <1>2 DEF ForItsReach, K!Reached, K!For, K!OnInstallation
<1> QED
  BY <1>1, <1>3, <1>5, <1>6 DEF CredentialsHeld

LEMMA ReachesKeeps ==
  ASSUME CredentialsHeld, NEW f \in Forms, K!Reaches(f)
  PROVE  CredentialsHeld'
<1> DEFINE Fits(qs) == qs \subseteq Asked /\ \A q \in qs : q.form = f
<1>1. Fits(K!ReachToken(f)) /\ Fits({})
  BY DEF K!ReachToken, K!Question, Asked
<1>2. \A i \in Installations : Fits(K!ReachInstallation(f, i))
  BY DEF K!ReachInstallation, K!Question, Asked
<1>3. \E qs : Fits(qs) /\ K!Asks(f, qs)
  <2> HIDE DEF Fits
  <2>1. CASE \E p \in Projects :
               K!Asks(f, CASE access[p] = "Token" -> K!ReachToken(f)
                           [] access[p] = K!None -> {}
                           [] OTHER -> K!ReachInstallation(f, access[p]))
    <3>1. PICK p \in Projects :
               K!Asks(f, CASE access[p] = "Token" -> K!ReachToken(f)
                           [] access[p] = K!None -> {}
                           [] OTHER -> K!ReachInstallation(f, access[p]))
      BY <2>1
    <3>2. access[p] \in Installations \union {"Token", K!None}
      BY DEF CredentialsHeld, TokensTyped
    <3>3. "Token" # K!None
      BY DEF K!None
    <3>4. CASE access[p] = "Token"
      BY <1>1, <3>1, <3>3, <3>4
    <3>5. CASE access[p] = K!None
      BY <1>1, <3>1, <3>3, <3>5
    <3>6. CASE access[p] # "Token" /\ access[p] # K!None
      BY <1>2, <3>1, <3>2, <3>6
    <3> QED
      BY <3>4, <3>5, <3>6
  <2> QED
    BY <1>1, <1>2, <2>1 DEF K!Reaches
<1> QED
  BY <1>3, FormAsks

LEMMA ReachedKeeps ==
  ASSUME CredentialsHeld, NEW q \in reaches, NEW answered \in BOOLEAN,
         K!ReachedAnswered(q, answered)
  PROVE  CredentialsHeld'
<1>1. TokensTyped /\ InOnePlace /\ (~MidMint => ForItsReach)
  BY DEF CredentialsHeld
<1>2. UNCHANGED <<installed, access, repository, minted, minting, awaiting, told>>
  BY DEF K!ReachedAnswered, K!ours, K!jobs
<1>3. q \in Asked /\ q.form \in Forms
  BY <1>1 DEF TokensTyped, Asked
<1>4. PICK asked \in SUBSET Asked :
        /\ \A r \in asked : r.form = q.form
        /\ reaches' = (reaches \ {q}) \union asked
        /\ reaching' = IF \E r \in (reaches \ {q}) \union asked : r.form = q.form THEN reaching
                       ELSE [reaching EXCEPT ![q.form] = K!Answered]
  <2> DEFINE asked == IF answered /\ q.stage = "Minting"
                      THEN {K!Question(q.form, "Listing", q.inst)} ELSE {}
  <2>1. asked \in SUBSET Asked /\ \A r \in asked : r.form = q.form
    BY <1>3 DEF K!Question, Asked
  <2> QED
    BY <2>1 DEF K!ReachedAnswered
<1>5. TokensTyped'
  BY <1>1, <1>2, <1>4 DEF TokensTyped
<1>6. ASSUME NEW g \in Forms
      PROVE  reaching'[g] = "Reaching" <=> \E r \in reaches' : r.form = g
  <2>1. CASE g # q.form
    <3>1. reaching'[g] = reaching[g]
      BY <1>1, <1>4, <2>1 DEF TokensTyped
    <3>2. (\E r \in reaches' : r.form = g) <=> (\E r \in reaches : r.form = g)
      BY <1>4, <2>1
    <3> QED
      BY <1>1, <3>1, <3>2 DEF InOnePlace
  <2>2. CASE g = q.form /\ \E r \in reaches' : r.form = g
    <3>1. reaching[g] = "Reaching"
      BY <1>1, <2>2 DEF InOnePlace
    <3> QED
      BY <1>4, <2>2, <3>1
  <2>3. CASE g = q.form /\ ~\E r \in reaches' : r.form = g
    <3>1. reaching'[g] = K!Answered
      BY <1>1, <1>4, <2>3 DEF TokensTyped
    <3> QED
      BY <2>3, <3>1 DEF K!Answered
  <2> QED
    BY <2>1, <2>2, <2>3
<1>7. InOnePlace'
  BY <1>1, <1>2, <1>6 DEF InOnePlace
<1>8. ForItsReach => ForItsReach'
  BY <1>2 DEF ForItsReach, K!Reached, K!For, K!OnInstallation
<1> QED
  BY <1>1, <1>5, <1>7, <1>8 DEF CredentialsHeld

LEMMA PlacesKept ==
  ASSUME InOnePlace, UNCHANGED <<minting, awaiting, told, reaches, reaching>>
  PROVE  InOnePlace'
BY DEF InOnePlace

LEMMA AmendedKeeps ==
  ASSUME CredentialsHeld, NEW p \in Projects,
         NEW to \in Installations \union {"Token", K!None}, NEW r \in Repositories,
         K!Amended(p, to, r)
  PROVE  CredentialsHeld'
<1>1. TokensTyped /\ InOnePlace /\ (~MidMint => ForItsReach)
  BY DEF CredentialsHeld
<1>2. /\ UNCHANGED <<installed, minting, awaiting, told, reaches, reaching>>
      /\ access' = [access EXCEPT ![p] = to] /\ repository' = [repository EXCEPT ![p] = r]
      /\ minted' = [minted EXCEPT ![p] = K!NoToken] /\ K!Settled(p)
  BY DEF K!Amended, K!AccessAmended, K!lists
<1>3. TokensTyped' /\ InOnePlace'
  BY <1>1, <1>2, NothingTyped, PlacesKept DEF TokensTyped
<1>4. ASSUME ~MidMint PROVE ForItsReach'
  <2> SUFFICES ASSUME NEW q \in Projects
               PROVE  /\ minted'[q] # K!NoToken => minted'[q].for = K!Reached(q)' /\ K!OnInstallation(q)'
                      /\ minting'[q] # K!Nothing => minting'[q] = K!Reached(q)' /\ K!OnInstallation(q)'
    BY DEF ForItsReach
  <2>1. CASE q = p
    BY <1>1, <1>2, <1>4, <2>1 DEF TokensTyped, K!Settled
  <2>2. CASE q # p
    <3>1. access'[q] = access[q] /\ repository'[q] = repository[q] /\ minted'[q] = minted[q]
      BY <1>1, <1>2, <2>2 DEF TokensTyped
    <3> QED
      BY <1>1, <1>2, <1>4, <3>1 DEF ForItsReach, K!Reached, K!For, K!OnInstallation
  <2> QED
    BY <2>1, <2>2
<1> QED
  BY <1>3, <1>4 DEF CredentialsHeld

LEMMA InstalledKeeps ==
  ASSUME CredentialsHeld, NEW i \in Installations, K!InstalledAnswered(i)
  PROVE  CredentialsHeld'
<1>1. TokensTyped /\ InOnePlace /\ (~MidMint => ForItsReach)
  BY DEF CredentialsHeld
<1>2. /\ UNCHANGED <<access, repository, minting, awaiting, told, reaches, reaching>>
      /\ installed' = [installed EXCEPT ![i] = @ + 1]
      /\ minted' = [p \in Projects |-> IF p \in {q \in Projects : access[q] = i}
                                       THEN K!NoToken ELSE minted[p]]
      /\ \A p \in {q \in Projects : access[q] = i} : K!Settled(p)
  BY DEF K!InstalledAnswered
<1>3. TokensTyped' /\ InOnePlace'
  <2>1. installed' \in [Installations -> Nat] /\ minted' \in [Projects -> Token]
    BY <1>1, <1>2, NothingTyped DEF TokensTyped
  <2> QED
    BY <1>1, <1>2, <2>1, PlacesKept DEF TokensTyped
<1>4. ASSUME ~MidMint PROVE ForItsReach'
  <2> SUFFICES ASSUME NEW q \in Projects
               PROVE  /\ minted'[q] # K!NoToken => minted'[q].for = K!Reached(q)' /\ K!OnInstallation(q)'
                      /\ minting'[q] # K!Nothing => minting'[q] = K!Reached(q)' /\ K!OnInstallation(q)'
    BY DEF ForItsReach
  <2>1. CASE access[q] = i
    BY <1>2, <1>4, <2>1 DEF K!Settled
  <2>2. CASE access[q] # i
    <3>1. minted'[q] = minted[q]
      BY <1>2, <2>2
    <3>2. access[q] \in Installations => installed'[access[q]] = installed[access[q]]
      BY <1>1, <1>2, <2>2 DEF TokensTyped
    <3> QED
      BY <1>1, <1>2, <1>4, <3>1, <3>2 DEF ForItsReach, K!Reached, K!For, K!OnInstallation
  <2> QED
    BY <2>1, <2>2
<1> QED
  BY <1>3, <1>4 DEF CredentialsHeld

LEMMA ForgetInstallationKeeps ==
  ASSUME CredentialsHeld, NEW i \in Installations, K!ForgetInstallation(i)
  PROVE  CredentialsHeld'
<1>1. TokensTyped /\ InOnePlace /\ (~MidMint => ForItsReach)
  BY DEF CredentialsHeld
<1>2. /\ UNCHANGED <<access, repository, minted, minting, awaiting, told, reaches, reaching>>
      /\ installed' = [installed EXCEPT ![i] = 0] /\ \A p \in Projects : access[p] # i
  BY DEF K!ForgetInstallation, K!jobs
<1>3. TokensTyped' /\ InOnePlace'
  BY <1>1, <1>2, PlacesKept DEF TokensTyped
<1>4. ASSUME ForItsReach PROVE ForItsReach'
  <2>1. \A q \in Projects : K!OnInstallation(q) => installed'[access[q]] = installed[access[q]]
    BY <1>1, <1>2 DEF TokensTyped, K!OnInstallation
  <2> QED
    BY <1>2, <1>4, <2>1 DEF ForItsReach, K!Reached, K!For, K!OnInstallation
<1> QED
  BY <1>1, <1>3, <1>4 DEF CredentialsHeld

LEMMA ForgetAppKeeps ==
  ASSUME CredentialsHeld, K!ForgetApp
  PROVE  CredentialsHeld'
<1>1. TokensTyped /\ InOnePlace /\ (~MidMint => ForItsReach)
  BY DEF CredentialsHeld
<1>2. /\ UNCHANGED <<access, repository, minting, awaiting, told, reaches, reaching>>
      /\ installed' = [i \in Installations |-> 0]
      /\ minted' = [p \in Projects |-> K!NoToken]
      /\ \A p \in Projects : ~K!OnInstallation(p)
  BY DEF K!ForgetApp
<1>3. TokensTyped' /\ InOnePlace'
  BY <1>1, <1>2, PlacesKept, NothingTyped DEF TokensTyped
<1>4. ForItsReach => ForItsReach'
  BY <1>2 DEF ForItsReach
<1> QED
  BY <1>1, <1>3, <1>4 DEF CredentialsHeld

LEMMA ExpiresKeeps ==
  ASSUME CredentialsHeld, K!Expires
  PROVE  CredentialsHeld'
<1>1. TokensTyped /\ InOnePlace /\ (~MidMint => ForItsReach)
  BY DEF CredentialsHeld
<1>2. UNCHANGED <<installed, access, repository, minting, awaiting, told, reaches, reaching>>
  BY DEF K!Expires, K!ours
<1>3. /\ minted' \in [Projects -> Token]
      /\ \A q \in Projects : minted'[q].for = minted[q].for /\ (minted[q] = K!NoToken => minted'[q] = K!NoToken)
  <2>1. CASE UNCHANGED minted
    BY <1>1, <2>1 DEF TokensTyped
  <2>2. CASE \E p \in Projects : minted[p].good /\ minted' = [minted EXCEPT ![p].good = FALSE]
    <3>1. PICK p \in Projects : minted[p].good /\ minted' = [minted EXCEPT ![p].good = FALSE]
      BY <2>2
    <3>2. minted[p] \in Token /\ minted[p] # K!NoToken
      BY <1>1, <3>1 DEF TokensTyped, K!NoToken
    <3>3. [minted[p] EXCEPT !.good = FALSE] \in Token
          /\ [minted[p] EXCEPT !.good = FALSE].for = minted[p].for
      BY <3>2 DEF Token
    <3> QED
      BY <1>1, <3>1, <3>2, <3>3 DEF TokensTyped
  <2> QED
    BY <2>1, <2>2 DEF K!Expires
<1>4. TokensTyped' /\ InOnePlace'
  BY <1>1, <1>2, <1>3, PlacesKept DEF TokensTyped
<1>5. ForItsReach => ForItsReach'
  BY <1>2, <1>3 DEF ForItsReach, K!Reached, K!For, K!OnInstallation
<1> QED
  BY <1>1, <1>4, <1>5 DEF CredentialsHeld

LEMMA CredentialsKept ==
  ASSUME CredentialsHeld, K!Next
  PROVE  CredentialsHeld'
BY CredentialAskedKeeps, MintedKeeps, ReachesKeeps, ReachedKeeps, AmendedKeeps,
   InstalledKeeps, ForgetInstallationKeeps, ForgetAppKeeps, ExpiresKeeps
   DEF K!Next, K!PlatformMints, K!PlatformLists

LEMMA CredentialsAnswer ==
  ASSUME CredentialsHeld
  PROVE  K!SomethingIsComing /\ (~MidMint => K!KeptForNow)
<1>1. ASSUME NEW w \in Wrappers
      PROVE  told[w] = K!Waiting <=> \E p \in Projects : w \in awaiting[p] /\ minting[p] # K!Nothing
  BY CredentialsAssumed DEF CredentialsHeld, InOnePlace
<1> QED
  BY <1>1 DEF CredentialsHeld, InOnePlace, ForItsReach, K!SomethingIsComing, K!KeptForNow

----------------------------------------------------------------------------
(* The world. *)

Heard == [kind : {"Answered", "Line", "Ended", "Frame", "Disconnected", "Arrived", "Body", "Written"},
          of : W!Questions \union Processes \union Sockets \union Callers \union {"File"}]

\* The file holds what was written to it whole and made sure of, and what is to
\* take its name does once it has it.
FileHeld ==
  /\ file \in [content : Nat, synced : BOOLEAN] /\ file.content # 0 /\ file.synced
  /\ temporary \in [there : BOOLEAN, content : Nat, synced : BOOLEAN] /\ puts \in Nat
  /\ writing \in {"None", "Create", "Fill", "Sync", "Rename"}
  /\ writing # "None" => puts # 0
  /\ writing \in {"Sync", "Rename"} => temporary.content = puts
  /\ writing = "Rename" => temporary.synced

RequestsHeld ==
  /\ events \in Seq(Heard) /\ visitor = [v \in Callers |-> visitor[v]]
  /\ W!IsHeld

\* What a task does, beside changing what is its own: it tells the loop of one
\* thing at most.
Tells == events' = events \/ \E e \in Heard : events' = Append(events, e)
Aside == UNCHANGED <<file, temporary, writing, puts, visitor, held, owes>> /\ Tells

LEMMA WorldAssumed == MaxPuts \in Nat
BY ServicesAssumption DEF W!WorldAssumption

LEMMA WorldBegins == ASSUME W!Init PROVE FileHeld /\ RequestsHeld
<1>1. FileHeld
  BY WorldAssumed DEF W!Init, FileHeld, W!NothingBeside
<1>2. RequestsHeld
  BY DEF W!Init, RequestsHeld, W!IsHeld
<1> QED
  BY <1>1, <1>2

LEMMA ToldOf ==
  ASSUME NEW k \in {"Answered", "Line", "Ended", "Frame", "Disconnected", "Arrived", "Body", "Written"},
         NEW x \in W!Questions \union Processes \union Sockets \union Callers \union {"File"},
         W!Tell(k, x)
  PROVE  Tells
<1>1. [kind |-> k, of |-> x] \in Heard
  BY DEF Heard
<1> QED
  BY <1>1 DEF Tells, W!Tell

LEMMA WaitOn ==
  ASSUME RequestsHeld, UNCHANGED <<visitor, held, owes>>, Tells
  PROVE  RequestsHeld'
<1>1. events' \in Seq(Heard) /\ \A i \in DOMAIN events : i \in DOMAIN events' /\ events'[i] = events[i]
  <2>1. CASE events' = events
    BY <2>1 DEF RequestsHeld
  <2>2. CASE \E e \in Heard : events' = Append(events, e)
    BY <2>2 DEF RequestsHeld
  <2> QED
    BY <2>1, <2>2 DEF Tells
<1>2. W!IsHeld'
  <2> SUFFICES ASSUME NEW v \in Callers, visitor'[v] = "Waiting"
               PROVE  v \in held' /\ (v \in owes' \/ \E i \in DOMAIN events' :
                         events'[i].kind \in {"Arrived", "Body"} /\ events'[i].of = v)
    BY DEF W!IsHeld
  <2>1. v \in held /\ (v \in owes \/ \E i \in DOMAIN events :
                         events[i].kind \in {"Arrived", "Body"} /\ events[i].of = v)
    BY DEF RequestsHeld, W!IsHeld
  <2> QED
    BY <1>1, <2>1
<1> QED
  BY <1>1, <1>2 DEF RequestsHeld

LEMMA FileStays ==
  ASSUME FileHeld, UNCHANGED <<file, temporary, writing, puts>> PROVE FileHeld'
BY DEF FileHeld

----------------------------------------------------------------------------

LEMMA QuestionsAside ==
  ASSUME NEW q \in W!Questions, W!Ask(q) \/ W!Answers(q)
  PROVE  Aside
<1>1. UNCHANGED <<file, temporary, writing, puts, visitor, held, owes>>
  BY DEF W!Ask, W!Answers, W!Reads, W!Runs, W!Wakes, W!Binds, W!Requests, W!Probes, W!Derives,
         W!QuestionStep, W!disk, W!requests
<1>2. \A x \in W!Questions : \A how : W!Answered(x, how) => Tells
  BY ToldOf DEF W!Answered
<1>3. \A x, to : W!GoesOn(x, to) => Tells
  BY DEF W!GoesOn, Tells
<1>4. CASE W!Ask(q)
  BY <1>1, <1>4 DEF Aside, W!Ask, Tells
<1>5. CASE W!Answers(q)
  BY <1>1, <1>2, <1>3, <1>5 DEF Aside, W!Answers, W!Reads, W!Runs, W!Wakes, W!Binds, W!Requests, W!Probes,
     W!Derives, W!Questions
<1> QED
  BY <1>4, <1>5

LEMMA ProcessAside ==
  ASSUME NEW p \in Processes,
         \/ W!Open(p) \/ W!Send(p) \/ W!Close(p) \/ W!IsWrittenTo(p)
         \/ W!Says(p) \/ W!Dies(p) \/ W!LineRead(p) \/ W!Ends(p)
  PROVE  Aside
<1>1. W!ProcessStep
  BY DEF W!Open, W!Send, W!Close, W!IsWrittenTo, W!Says, W!Dies, W!LineRead, W!Ends
<1>2. UNCHANGED events \/ W!Tell("Ended", p) \/ W!Tell("Line", p)
  BY DEF W!Open, W!Started, W!CannotStart, W!Send, W!Close, W!IsWrittenTo, W!Says, W!Dies,
         W!LineRead, W!Ends
<1>3. Tells
  BY <1>2, ToldOf DEF Tells
<1> QED
  BY <1>1, <1>3 DEF Aside, W!ProcessStep, W!disk, W!requests

LEMMA SocketAside ==
  ASSUME NEW s \in Sockets,
         \/ W!Connect(s) \/ W!Connected(s) \/ W!Transmit(s) \/ W!Disconnect(s)
         \/ W!FarSide(s) \/ W!Hears(s) \/ W!Sends(s) \/ W!Breaks(s) \/ W!LetGo(s)
  PROVE  Aside
<1>1. W!SocketStep
  BY DEF W!Connect, W!Connected, W!Transmit, W!Disconnect, W!FarSide, W!Hears, W!Sends,
         W!Breaks, W!LetGo
<1>2. UNCHANGED events \/ W!Tell("Frame", s) \/ W!Tell("Disconnected", s)
  BY DEF W!Connect, W!Connected, W!SocketOver, W!Transmit, W!Disconnect, W!FarSide, W!Hears,
         W!Sends, W!Breaks, W!LetGo
<1>3. Tells
  BY <1>2, ToldOf DEF Tells
<1> QED
  BY <1>1, <1>3 DEF Aside, W!SocketStep, W!disk, W!requests

----------------------------------------------------------------------------

\* A write takes its turn at the disk.
LEMMA WritesKeep ==
  ASSUME FileHeld, RequestsHeld, W!Write \/ W!Performs \/ W!Crash
  PROVE  FileHeld' /\ RequestsHeld'
<1>1. UNCHANGED <<visitor, held, owes>>
  BY DEF W!Write, W!Performs, W!Creates, W!Fills, W!Syncs, W!Renames, W!CannotWrite, W!Writes,
         W!Crash, W!requests
<1>2. Tells
  <2>1. UNCHANGED events \/ W!Tell("Written", "File")
    BY DEF W!Write, W!Performs, W!Creates, W!Fills, W!Syncs, W!Renames, W!CannotWrite, W!Crash
  <2> QED
    BY <2>1, ToldOf DEF Tells
<1>3. RequestsHeld'
  BY <1>1, <1>2, WaitOn
<1>4. CASE W!Write
  BY <1>3, <1>4 DEF FileHeld, W!Write
<1>5. CASE W!Creates
  BY <1>3, <1>5 DEF FileHeld, W!Creates, W!Writes
<1>6. CASE W!Fills
  BY <1>3, <1>6 DEF FileHeld, W!Fills, W!Writes
<1>7. CASE W!Syncs
  BY <1>3, <1>7 DEF FileHeld, W!Syncs, W!Writes
<1>8. CASE W!Renames
  BY <1>3, <1>8 DEF FileHeld, W!Renames, W!Writes, W!NothingBeside
<1>9. CASE W!CannotWrite
  BY <1>3, <1>9 DEF FileHeld, W!CannotWrite, W!Writes, W!NothingBeside
<1>10. CASE W!Crash
  BY <1>3, <1>10 DEF FileHeld, W!Crash
<1> QED
  BY <1>4, <1>5, <1>6, <1>7, <1>8, <1>9, <1>10 DEF W!Performs

\* The loop takes what it was told: whom it hears from, it owes an answer.
LEMMA StepKeeps ==
  ASSUME RequestsHeld, W!Step
  PROVE  RequestsHeld'
<1>1. /\ events # <<>> /\ events' = Tail(events) /\ UNCHANGED <<visitor, held>>
      /\ owes' = IF Head(events).kind \in {"Arrived", "Body"} THEN owes \union {Head(events).of} ELSE owes
  BY DEF W!Step
<1>2. /\ events \in Seq(Heard) /\ events' \in Seq(Heard) /\ Len(events') = Len(events) - 1
      /\ \A i \in 1..Len(events') : events'[i] = events[i + 1]
      /\ Head(events) = events[1]
  BY <1>1 DEF RequestsHeld
<1>3. W!IsHeld'
  <2> SUFFICES ASSUME NEW v \in Callers, visitor'[v] = "Waiting"
               PROVE  v \in held' /\ (v \in owes' \/ \E i \in DOMAIN events' :
                         events'[i].kind \in {"Arrived", "Body"} /\ events'[i].of = v)
    BY DEF W!IsHeld
  <2>1. v \in held /\ (v \in owes \/ \E i \in DOMAIN events :
                         events[i].kind \in {"Arrived", "Body"} /\ events[i].of = v)
    BY <1>1 DEF RequestsHeld, W!IsHeld
  <2>2. CASE v \in owes
    BY <1>1, <2>1, <2>2
  <2>3. CASE v \notin owes
    <3>1. PICK i \in 1..Len(events) : events[i].kind \in {"Arrived", "Body"} /\ events[i].of = v
      BY <1>2, <2>1, <2>3
    <3>2. CASE i = 1
      BY <1>1, <1>2, <2>1, <3>1, <3>2
    <3>3. CASE i # 1
      <4>1. i - 1 \in 1..Len(events') /\ events'[i - 1] = events[i]
        BY <1>2, <3>3
      <4>2. i - 1 \in DOMAIN events'
        BY <1>2, <4>1
      <4> QED
        BY <1>1, <2>1, <3>1, <4>1, <4>2
    <3> QED
      BY <3>2, <3>3
  <2> QED
    BY <2>2, <2>3
<1> QED
  BY <1>1, <1>2, <1>3 DEF RequestsHeld

\* A request is held again, and said.
LEMMA HeldAgain ==
  ASSUME RequestsHeld, NEW v \in Callers, NEW k \in {"Arrived", "Body"},
         visitor' = [visitor EXCEPT ![v] = "Waiting"], held' = held \union {v},
         W!Tell(k, v), UNCHANGED owes
  PROVE  RequestsHeld'
<1> DEFINE e == [kind |-> k, of |-> v]
<1>1. e \in Heard /\ events' = Append(events, e)
  BY DEF Heard, W!Tell
<1>2. /\ events' \in Seq(Heard) /\ Len(events) + 1 \in DOMAIN events'
      /\ events'[Len(events) + 1] = e
      /\ \A i \in DOMAIN events : i \in DOMAIN events' /\ events'[i] = events[i]
  BY <1>1 DEF RequestsHeld
<1>3. /\ visitor' = [w \in Callers |-> visitor'[w]]
      /\ \A w \in Callers : w # v => visitor'[w] = visitor[w]
  BY DEF RequestsHeld
<1>4. W!IsHeld'
  <2> SUFFICES ASSUME NEW w \in Callers, visitor'[w] = "Waiting"
               PROVE  w \in held' /\ (w \in owes' \/ \E i \in DOMAIN events' :
                         events'[i].kind \in {"Arrived", "Body"} /\ events'[i].of = w)
    BY DEF W!IsHeld
  <2>1. CASE w = v
    BY <1>2, <2>1
  <2>2. CASE w # v
    <3>1. w \in held /\ (w \in owes \/ \E i \in DOMAIN events :
                         events[i].kind \in {"Arrived", "Body"} /\ events[i].of = w)
      BY <1>3, <2>2 DEF RequestsHeld, W!IsHeld
    <3> QED
      BY <1>2, <3>1
  <2> QED
    BY <2>1, <2>2
<1> QED
  BY <1>2, <1>3, <1>4 DEF RequestsHeld

\* A request is answered, or waits for nothing any more.
LEMMA WaitsNoMore ==
  ASSUME RequestsHeld, NEW v \in Callers, UNCHANGED events,
         \A w \in Callers : w # v => (w \in owes <=> w \in owes') /\ (w \in held <=> w \in held'),
         \/ \E how : how # "Waiting" /\ visitor' = [visitor EXCEPT ![v] = how]
         \/ visitor' = visitor /\ visitor[v] # "Waiting"
  PROVE  RequestsHeld'
<1>1. /\ visitor' = [w \in Callers |-> visitor'[w]] /\ visitor'[v] # "Waiting"
      /\ \A w \in Callers : w # v => visitor'[w] = visitor[w]
  BY DEF RequestsHeld
<1>2. W!IsHeld'
  BY <1>1 DEF RequestsHeld, W!IsHeld
<1> QED
  BY <1>1, <1>2 DEF RequestsHeld

LEMMA VisitorKeeps ==
  ASSUME RequestsHeld, NEW v \in Callers,
         \/ W!Arrives(v) \/ W!BodyRead(v) \/ W!Relayed(v) \/ W!Leaves(v)
         \/ \E how \in {"Answered", "Proxied", "Reading"} : W!Answer(v, how)
  PROVE  RequestsHeld' /\ UNCHANGED <<file, temporary, writing, puts>>
<1>1. UNCHANGED <<file, temporary, writing, puts>>
  BY DEF W!Arrives, W!BodyRead, W!Relayed, W!Leaves, W!Answer, W!VisitorStep, W!disk
<1>2. CASE W!Arrives(v)
  BY <1>1, <1>2, HeldAgain DEF W!Arrives
<1>3. CASE W!BodyRead(v)
  BY <1>1, <1>3, HeldAgain DEF W!BodyRead
<1>4. CASE W!Relayed(v) \/ W!Leaves(v)
  <2>1. UNCHANGED <<events, owes, held>> /\ \E how : how # "Waiting" /\ visitor' = [visitor EXCEPT ![v] = how]
    BY <1>4 DEF W!Relayed, W!Leaves
  <2> QED
    BY <1>1, <2>1, WaitsNoMore
<1>5. ASSUME NEW how \in {"Answered", "Proxied", "Reading"}, W!Answer(v, how) PROVE RequestsHeld'
  <2>1. UNCHANGED events /\ owes' = owes \ {v} /\ held' = held \ {v}
    BY <1>5 DEF W!Answer
  <2>2. \A w \in Callers : w # v => (w \in owes <=> w \in owes') /\ (w \in held <=> w \in held')
    BY <2>1
  <2>3. CASE visitor[v] = "Waiting"
    <3>1. v \in held
      BY <2>3 DEF RequestsHeld, W!IsHeld
    <3>2. visitor' = [visitor EXCEPT ![v] = how] /\ how # "Waiting"
      BY <1>5, <2>3, <3>1 DEF W!Answer
    <3> QED
      BY <2>1, <2>2, <3>2, WaitsNoMore
  <2>4. CASE visitor[v] # "Waiting"
    <3>1. visitor' = visitor
      BY <1>5, <2>4 DEF W!Answer
    <3> QED
      BY <2>1, <2>2, <2>4, <3>1, WaitsNoMore
  <2> QED
    BY <2>3, <2>4
<1> QED
  BY <1>1, <1>2, <1>3, <1>4, <1>5

LEMMA WorldKept ==
  ASSUME FileHeld, RequestsHeld, W!Next
  PROVE  FileHeld' /\ RequestsHeld'
<1>1. CASE Aside
  BY <1>1, WaitOn, FileStays DEF Aside
<1>2. CASE W!StepDone
  <2>1. Aside
    BY <1>2 DEF Aside, Tells, W!StepDone, W!disk, W!requests
  <2> QED
    BY <2>1, <1>1
<1>3. CASE W!Step
  <2>1. UNCHANGED <<file, temporary, writing, puts>>
    BY <1>3 DEF W!Step, W!disk
  <2> QED
    BY <1>3, <2>1, StepKeeps, FileStays
<1> QED
  BY <1>1, <1>2, <1>3, QuestionsAside, ProcessAside, SocketAside, WritesKeep, VisitorKeeps,
     FileStays DEF W!Next

----------------------------------------------------------------------------
(* Calls. *)

Kept == [watched : [Watchers -> SUBSET C!AllRooms], begun : SUBSET Asking]
Save == [kept : Kept, answers : SUBSET Asking, starts : SUBSET C!Speakers]
Call == [at : {"Free", "Reading", "Asking", "Held", "Answered", "Lost", "Gone"},
         bearer : SUBSET C!Warrants, came : {"Nothing", "Said", "Started", "Watching", "Not"},
         room : SUBSET C!AllRooms]

CallsTyped ==
  /\ kept \in Kept /\ saved \in Kept /\ saving \in Seq(Save) /\ calls \in [Asking -> Call]
  /\ latest \in [Watchers -> [C!AllRooms -> SUBSET Asking]]
  /\ warrants \subseteq C!Warrants /\ handed \subseteq C!Warrants
  /\ taken \in Nat
  /\ \A r \in Asking : calls[r].at \in {"Free", "Reading", "Asking"} => calls[r].came = "Nothing"

\* A warrant is of the turn its speaker has running, and so is what that turn
\* has claimed; a call presents one warrant at most.
ClaimsHeld ==
  /\ running = [s \in DOMAIN running |-> running[s]]
  /\ \A s \in DOMAIN running : running[s] \in [turn : Nat, claims : SUBSET C!Warrants]
  /\ \A w \in warrants : w.speaker \in DOMAIN running /\ running[w.speaker].turn = w.turn
  /\ \A r \in Asking : \A v, w \in calls[r].bearer : v = w
  /\ C!ClaimIsOfItsTurn

\* A call held is answered with one write.
AnsweredOnce ==
  /\ C!IsHeld
  /\ \A i, j \in 1..Len(saving) : \A r \in saving[i].answers : r \in saving[j].answers => i = j

\* What the call r came to is so by a record k, last being the last call to ask
\* of each room.
So(r, call, last, k) ==
  /\ call.came = "Started" => r \in k.begun
  /\ \A p \in Watchers : \A room \in call.room : r \in last[p][room] =>
       /\ call.came = "Watching" => room \in k.watched[p]
       /\ call.came = "Not" => room \notin k.watched[p]

\* It is so by the record there is, by the one it is answered with and by those
\* after.
ToldHeld ==
  /\ \A r \in Asking : calls[r].at \in {"Held", "Answered"} => So(r, calls[r], latest, kept)
  /\ \A r \in Asking : calls[r].at = "Answered" =>
       So(r, calls[r], latest, saved)
  /\ \A r \in Asking : calls[r].at = "Answered" =>
       \A j \in 1..Len(saving) : So(r, calls[r], latest, saving[j].kept)
  /\ \A i, j \in 1..Len(saving) : \A r \in saving[i].answers :
       i <= j => So(r, calls[r], latest, saving[j].kept)
  /\ \A p \in Watchers, room \in C!AllRooms : \A r \in latest[p][room] :
       calls[r].at \notin {"Free", "Reading", "Asking"}

Answering == AnsweredOnce /\ (~AnyAnswer => ToldHeld)
CallsHeld == CallsTyped /\ ClaimsHeld /\ Answering

LEMMA CallsAssumed == MaxTaken \in Nat /\ AnyAnswer \in BOOLEAN
BY ServicesAssumption DEF C!CallsAssumption

LEMMA CallsBegin == ASSUME C!Init PROVE CallsHeld
<1> USE DEF C!Init, C!Free, C!Nothing, C!NoTurns
<1>1. CallsTyped
  BY DEF CallsTyped, Kept, Call
<1>2. ClaimsHeld
  BY DEF ClaimsHeld, C!ClaimIsOfItsTurn
<1>3. AnsweredOnce /\ ToldHeld
  BY DEF AnsweredOnce, C!IsHeld, ToldHeld
<1> QED
  BY <1>1, <1>2, <1>3 DEF CallsHeld, Answering

----------------------------------------------------------------------------
(* What becomes of what calls wait on. *)

\* What a call came to stays so where it stays what it was, and others only
\* ask otherwise.
LEMMA SoStill ==
  ASSUME NEW r, NEW call, NEW then, NEW last, NEW later, NEW k, So(r, call, last, k),
         then.came = call.came, then.room = call.room,
         \A p \in Watchers : \A room \in call.room : r \in later[p][room] => r \in last[p][room]
  PROVE  So(r, then, later, k)
BY DEF So

\* A call that was no one's last, and began no job, came to nothing.
LEMMA SoOfNothing ==
  ASSUME NEW r, NEW call, NEW last, NEW k, call.came # "Started",
         \A p \in Watchers : \A room \in call.room : r \notin last[p][room]
  PROVE  So(r, call, last, k)
BY DEF So

LEMMA CallParts ==
  ASSUME CallsTyped, NEW r \in Asking
  PROVE  calls[r] \in Call /\ calls[r].room \subseteq C!AllRooms
BY DEF CallsTyped, Call

LEMMA SavingParts ==
  ASSUME CallsTyped, NEW i \in 1..Len(saving)
  PROVE  saving[i] \in Save /\ saving[i].answers \subseteq Asking /\ saving[i].kept \in Kept
<1>1. saving[i] \in Save
  BY DEF CallsTyped
<1> QED
  BY <1>1 DEF Save

\* A call goes on without a write: nothing it came to can be undone yet.
LEMMA CallMoves ==
  ASSUME CallsTyped, Answering, UNCHANGED <<kept, saved, latest>>,
         Len(saving') = Len(saving),
         \A i \in 1..Len(saving) : saving'[i].answers = saving[i].answers /\ saving'[i].kept = saving[i].kept,
         NEW r \in Asking, NEW c \in Call, calls' = [calls EXCEPT ![r] = c],
         calls[r].at \in {"Free", "Reading", "Asking"},
         c.at \in {"Reading", "Asking", "Answered"}, c.came # "Started"
  PROVE  Answering'
<1>1. \A q \in Asking : calls'[q] = IF q = r THEN c ELSE calls[q]
  BY DEF CallsTyped
<1>2. \A i \in 1..Len(saving) : r \notin saving[i].answers
  BY DEF Answering, AnsweredOnce, C!IsHeld
<1>3. AnsweredOnce'
  <2>1. C!IsHeld'
    BY <1>1, <1>2 DEF Answering, AnsweredOnce, C!IsHeld
  <2> QED
    BY <2>1 DEF Answering, AnsweredOnce
<1>4. ASSUME ~AnyAnswer PROVE ToldHeld'
  <2>1. ToldHeld
    BY <1>4 DEF Answering
  <2>2. ASSUME NEW p \in Watchers, NEW room \in C!AllRooms PROVE r \notin latest[p][room]
    BY <2>1 DEF ToldHeld
  <2>3. \A k : So(r, c, latest, k)
    <3>1. c.room \subseteq C!AllRooms
      BY DEF Call
    <3> QED
      BY <2>2, <3>1, SoOfNothing
  <2>4. \A q \in Asking : calls'[q].at \in {"Held", "Answered"} => So(q, calls'[q], latest, kept)
    BY <1>1, <2>1, <2>3 DEF ToldHeld
  <2>5. \A q \in Asking : calls'[q].at = "Answered" => So(q, calls'[q], latest, saved)
    BY <1>1, <2>1, <2>3 DEF ToldHeld
  <2>6. \A q \in Asking : calls'[q].at = "Answered" =>
          \A j \in 1..Len(saving) : So(q, calls'[q], latest, saving[j].kept)
    BY <1>1, <2>1, <2>3 DEF ToldHeld
  <2>7. \A i, j \in 1..Len(saving) : \A q \in saving[i].answers :
          i <= j => So(q, calls'[q], latest, saving[j].kept)
    BY <1>1, <1>2, <2>1, SavingParts DEF ToldHeld
  <2>8. \A p \in Watchers, room \in C!AllRooms : \A q \in latest[p][room] :
          calls'[q].at \notin {"Free", "Reading", "Asking"}
    <3>1. \A p \in Watchers, room \in C!AllRooms : latest[p][room] \subseteq Asking
      BY DEF CallsTyped
    <3> QED
      BY <1>1, <2>1, <2>2, <3>1 DEF ToldHeld
  <2> QED
    BY <2>4, <2>5, <2>6, <2>7, <2>8 DEF ToldHeld
<1> QED
  BY <1>3, <1>4 DEF Answering

\* No call and no record is touched.
LEMMA CallsStay ==
  ASSUME CallsTyped, Answering, UNCHANGED <<calls, kept, saved, latest>>,
         Len(saving') = Len(saving),
         \A i \in 1..Len(saving) : saving'[i].answers = saving[i].answers /\ saving'[i].kept = saving[i].kept
  PROVE  Answering'
<1>1. AnsweredOnce'
  BY DEF Answering, AnsweredOnce, C!IsHeld
<1>2. ToldHeld => ToldHeld'
  <2> SUFFICES ASSUME ToldHeld PROVE ToldHeld'
    OBVIOUS
  <2>1. \A i, j \in 1..Len(saving) : \A q \in saving[i].answers :
          i <= j => So(q, calls[q], latest, saving[j].kept)
    BY DEF ToldHeld
  <2>2. \A i, j \in 1..Len(saving') : \A q \in saving'[i].answers :
          i <= j => So(q, calls'[q], latest', saving'[j].kept)
    BY <2>1
  <2> QED
    BY <2>2 DEF ToldHeld
<1> QED
  BY <1>1, <1>2 DEF Answering

\* What a step records holds all that calls came to before, and what those it
\* answers do.
LEMMA Recorded ==
  ASSUME CallsTyped, Answering, UNCHANGED saved,
         NEW replied \in SUBSET Asking, NEW starts, NEW q, replied \subseteq {q},
         saving' = Append(saving, [kept |-> kept', answers |-> replied, starts |-> starts]),
         \A r \in Asking : IF r \in replied
           THEN calls[r].at = "Reading" /\ calls'[r].at = "Held"
           ELSE calls'[r] = calls[r],
         ~AnyAnswer => \A r \in Asking : IF r \in replied
           THEN So(r, calls'[r], latest', kept')
           ELSE /\ So(r, calls[r], latest, kept) => So(r, calls[r], latest', kept')
                /\ \A k : So(r, calls[r], latest, k) => So(r, calls[r], latest', k),
         \A p \in Watchers, room \in C!AllRooms :
           latest'[p][room] \subseteq latest[p][room] \union replied
  PROVE  Answering'
<1>1. /\ Len(saving') = Len(saving) + 1
      /\ \A i \in 1..Len(saving) : saving'[i] = saving[i]
      /\ saving'[Len(saving) + 1].kept = kept' /\ saving'[Len(saving) + 1].answers = replied
  BY DEF CallsTyped
<1>2. Len(saving) \in Nat
  BY DEF CallsTyped
<1>3. \A i \in 1..Len(saving') : i \in 1..Len(saving) \/ i = Len(saving) + 1
  BY <1>1, <1>2
<1>4. \A i \in 1..Len(saving) : \A r \in replied : r \notin saving[i].answers
  BY DEF Answering, AnsweredOnce, C!IsHeld
<1>5. AnsweredOnce'
  <2>1. ASSUME NEW r \in Asking
        PROVE  calls'[r].at = "Held" <=> \E i \in 1..Len(saving') : r \in saving'[i].answers
    <3>1. calls[r].at = "Held" <=> \E i \in 1..Len(saving) : r \in saving[i].answers
      BY DEF Answering, AnsweredOnce, C!IsHeld
    <3>2. (\E i \in 1..Len(saving') : r \in saving'[i].answers)
            <=> (r \in replied \/ \E i \in 1..Len(saving) : r \in saving[i].answers)
      <4>1. Len(saving) + 1 \in 1..Len(saving') /\ 1..Len(saving) \subseteq 1..Len(saving')
        BY <1>1, <1>2
      <4> QED
        BY <1>1, <1>3, <4>1
    <3> QED
      BY <3>1, <3>2
  <2>2. ASSUME NEW i \in 1..Len(saving'), NEW j \in 1..Len(saving'), NEW r \in saving'[i].answers,
               r \in saving'[j].answers
        PROVE  i = j
    BY <1>1, <1>3, <1>4, <2>2 DEF Answering, AnsweredOnce
  <2> QED
    BY <2>1, <2>2 DEF AnsweredOnce, C!IsHeld
<1>6. ASSUME ~AnyAnswer PROVE ToldHeld'
  <2>1. ToldHeld
    BY <1>6 DEF Answering
  <2>2. ASSUME NEW r \in Asking, r \notin replied
         PROVE  /\ calls'[r] = calls[r]
                /\ So(r, calls[r], latest, kept) => So(r, calls[r], latest', kept')
                /\ \A k : So(r, calls[r], latest, k) => So(r, calls[r], latest', k)
    BY <1>6, <2>2
  <2>3. ASSUME NEW r \in replied
         PROVE  calls'[r].at = "Held" /\ So(r, calls'[r], latest', kept')
    BY <1>6
  <2>4. \A r \in Asking : calls'[r].at \in {"Held", "Answered"} => So(r, calls'[r], latest', kept')
    BY <2>1, <2>2, <2>3 DEF ToldHeld
  <2>5. \A r \in Asking : calls'[r].at = "Answered" => r \notin replied /\ calls[r].at = "Answered"
    OBVIOUS
  <2>6. \A r \in Asking : calls'[r].at = "Answered" => So(r, calls'[r], latest', saved')
    BY <2>1, <2>5, <2>2 DEF ToldHeld
  <2>7. ASSUME NEW r \in Asking, calls'[r].at = "Answered", NEW j \in 1..Len(saving')
        PROVE  So(r, calls'[r], latest', saving'[j].kept)
    <3>1. CASE j \in 1..Len(saving)
      <4>1. So(r, calls[r], latest, saving[j].kept) /\ r \notin replied
        BY <2>1, <2>5, <2>7, <3>1 DEF ToldHeld
      <4> QED
        BY <1>1, <2>2, <3>1, <4>1
    <3>2. CASE j = Len(saving) + 1
      BY <1>1, <2>4, <2>7, <3>2
    <3> QED
      BY <1>3, <3>1, <3>2
  <2>8. ASSUME NEW i \in 1..Len(saving'), NEW j \in 1..Len(saving'), NEW r \in saving'[i].answers,
               i <= j
        PROVE  So(r, calls'[r], latest', saving'[j].kept)
    <3>1. CASE i \in 1..Len(saving)
      <4>1. r \in saving[i].answers /\ r \in Asking /\ r \notin replied
        BY <1>1, <1>4, <3>1, SavingParts
      <4>2. CASE j \in 1..Len(saving)
        <5>1. So(r, calls[r], latest, saving[j].kept)
          BY <2>1, <2>8, <3>1, <4>1, <4>2 DEF ToldHeld
        <5> QED
          BY <1>1, <2>2, <4>1, <4>2, <5>1
      <4>3. CASE j = Len(saving) + 1
        <5>1. calls[r].at = "Held"
          BY <3>1, <4>1 DEF Answering, AnsweredOnce, C!IsHeld
        <5>2. So(r, calls[r], latest, kept)
          BY <2>1, <4>1, <5>1 DEF ToldHeld
        <5> QED
          BY <1>1, <2>2, <4>1, <4>3, <5>2
      <4> QED
        BY <1>3, <4>2, <4>3
    <3>2. CASE i = Len(saving) + 1
      <4>1. j = i /\ r \in replied
        BY <1>1, <1>2, <2>8, <3>2
      <4> QED
        BY <1>1, <2>3, <3>2, <4>1
    <3> QED
      BY <1>3, <3>1, <3>2
  <2>9. ASSUME NEW p \in Watchers, NEW room \in C!AllRooms, NEW r \in latest'[p][room]
        PROVE  calls'[r].at \notin {"Free", "Reading", "Asking"}
    <3>1. CASE r \in replied
      BY <3>1
    <3>2. CASE r \notin replied
      <4>1. r \in latest[p][room] /\ r \in Asking
        BY <3>2 DEF CallsTyped
      <4> QED
        BY <2>1, <3>2, <4>1 DEF ToldHeld
    <3> QED
      BY <3>1, <3>2
  <2> QED
    BY <2>4, <2>6, <2>7, <2>8, <2>9 DEF ToldHeld
<1> QED
  BY <1>5, <1>6 DEF Answering

\* The first of the writes is over, and what waited on it is told so, or lost;
\* one more may record that.
LEMMA FirstGoes ==
  ASSUME CallsTyped, Answering, UNCHANGED <<kept, latest>>, saving # <<>>,
         saving' \in Seq(Save),
         Len(saving') >= Len(saving) - 1,
         \A i \in 1..(Len(saving) - 1) : saving'[i] = saving[i + 1],
         \A i \in 1..Len(saving') : i >= Len(saving) =>
           saving'[i].kept = kept /\ saving'[i].answers = {},
         NEW to \in {"Answered", "Lost"},
         calls' = [r \in Asking |-> IF r \in saving[1].answers
                                    THEN [calls[r] EXCEPT !.at = to] ELSE calls[r]],
         to = "Answered" => saved' = saving[1].kept,
         to = "Lost" => saved' = saved
  PROVE  Answering'
<1>1. Len(saving) \in Nat /\ Len(saving) >= 1 /\ Len(saving') \in Nat
  BY DEF CallsTyped
<1>2. \A i \in 1..Len(saving') : \/ i \in 1..(Len(saving) - 1)
                                 \/ saving'[i].kept = kept /\ saving'[i].answers = {}
  BY <1>1
<1>3. \A i \in 1..(Len(saving) - 1) : i \in 1..Len(saving') /\ i + 1 \in 1..Len(saving)
  BY <1>1
<1>4. 1 \in 1..Len(saving) /\ saving[1].answers \subseteq Asking
  BY <1>1, SavingParts
<1>5. \A r \in Asking : IF r \in saving[1].answers
        THEN calls'[r].at = to /\ calls'[r].came = calls[r].came /\ calls'[r].room = calls[r].room
        ELSE calls'[r] = calls[r]
  BY CallParts DEF Call
<1>6. \A r \in Asking : \A k : So(r, calls[r], latest, k) => So(r, calls'[r], latest, k)
  BY <1>5, SoStill
<1>7. \A r \in Asking : r \in saving[1].answers => calls[r].at = "Held"
  BY <1>4 DEF Answering, AnsweredOnce, C!IsHeld
<1>8. AnsweredOnce'
  <2>1. ASSUME NEW r \in Asking
        PROVE  calls'[r].at = "Held" <=> \E i \in 1..Len(saving') : r \in saving'[i].answers
    <3>1. calls[r].at = "Held" <=> \E i \in 1..Len(saving) : r \in saving[i].answers
      BY DEF Answering, AnsweredOnce, C!IsHeld
    <3>2. (\E i \in 1..Len(saving') : r \in saving'[i].answers)
            <=> \E i \in 1..(Len(saving) - 1) : r \in saving[i + 1].answers
      BY <1>2, <1>3
    <3>3. CASE r \in saving[1].answers
      <4>1. ASSUME NEW i \in 1..(Len(saving) - 1), r \in saving[i + 1].answers PROVE FALSE
        <5>1. i + 1 = 1
          BY <1>3, <1>4, <3>3, <4>1 DEF Answering, AnsweredOnce
        <5> QED
          BY <5>1
      <4> QED
        BY <1>5, <3>2, <3>3, <4>1
    <3>4. CASE r \notin saving[1].answers
      <4>1. ASSUME NEW i \in 1..Len(saving), r \in saving[i].answers
            PROVE  \E j \in 1..(Len(saving) - 1) : r \in saving[j + 1].answers
        <5>1. i # 1 /\ i - 1 \in 1..(Len(saving) - 1) /\ (i - 1) + 1 = i
          BY <1>1, <3>4, <4>1
        <5> QED
          BY <4>1, <5>1
      <4> QED
        BY <1>3, <1>5, <3>1, <3>2, <3>4, <4>1
    <3> QED
      BY <3>3, <3>4
  <2>2. ASSUME NEW i \in 1..Len(saving'), NEW j \in 1..Len(saving'), NEW r \in saving'[i].answers,
               r \in saving'[j].answers
        PROVE  i = j
    <3>1. i \in 1..(Len(saving) - 1) /\ j \in 1..(Len(saving) - 1)
      BY <1>2, <2>2
    <3>2. r \in saving[i + 1].answers /\ r \in saving[j + 1].answers
      BY <2>2, <3>1
    <3>3. i + 1 = j + 1
      BY <1>3, <3>1, <3>2 DEF Answering, AnsweredOnce
    <3> QED
      BY <3>1, <3>3
  <2> QED
    BY <2>1, <2>2 DEF AnsweredOnce, C!IsHeld
<1>9. ASSUME ~AnyAnswer PROVE ToldHeld'
  <2>1. ToldHeld
    BY <1>9 DEF Answering
  <2>2. \A r \in Asking : calls'[r].at \in {"Held", "Answered"} =>
          calls[r].at \in {"Held", "Answered"}
    BY <1>5, <1>7
  <2>3. \A r \in Asking : calls'[r].at \in {"Held", "Answered"} => So(r, calls'[r], latest, kept)
    BY <1>6, <2>1, <2>2 DEF ToldHeld
  <2>4. \A r \in Asking : calls'[r].at = "Answered" =>
          calls[r].at = "Answered" \/ (r \in saving[1].answers /\ to = "Answered")
    BY <1>5
  <2>5. \A r \in Asking : calls'[r].at = "Answered" =>
          \A j \in 1..Len(saving) : So(r, calls'[r], latest, saving[j].kept)
    <3>1. \A r \in saving[1].answers : \A j \in 1..Len(saving) : So(r, calls[r], latest, saving[j].kept)
      BY <1>4, <2>1 DEF ToldHeld
    <3> QED
      BY <1>6, <2>1, <2>4, <3>1 DEF ToldHeld
  <2>6. \A r \in Asking : calls'[r].at = "Answered" => So(r, calls'[r], latest, saved')
    <3>1. CASE to = "Answered"
      <4>1. \A r \in Asking : calls'[r].at = "Answered" => So(r, calls'[r], latest, saving[1].kept)
        BY <1>4, <2>5
      <4> QED
        BY <3>1, <4>1
    <3>2. CASE to = "Lost"
      BY <1>6, <2>1, <2>4, <3>2 DEF ToldHeld
    <3> QED
      BY <3>1, <3>2
  <2>7. ASSUME NEW r \in Asking, calls'[r].at = "Answered", NEW j \in 1..Len(saving')
        PROVE  So(r, calls'[r], latest, saving'[j].kept)
    <3>1. CASE j \in 1..(Len(saving) - 1)
      <4>1. j + 1 \in 1..Len(saving) /\ saving'[j] = saving[j + 1]
        BY <1>3, <3>1
      <4> QED
        BY <2>5, <2>7, <4>1
    <3>2. CASE saving'[j].kept = kept
      BY <2>3, <2>7, <3>2
    <3> QED
      BY <1>2, <3>1, <3>2
  <2>8. ASSUME NEW i \in 1..Len(saving'), NEW j \in 1..Len(saving'), NEW r \in saving'[i].answers,
               i <= j
        PROVE  So(r, calls'[r], latest, saving'[j].kept)
    <3>1. i \in 1..(Len(saving) - 1) /\ r \in saving[i + 1].answers
      BY <1>2, <2>8
    <3>2. r \in Asking
      BY <1>3, <3>1, SavingParts
    <3>3. CASE j \in 1..(Len(saving) - 1)
      <4>1. i + 1 <= j + 1 /\ i + 1 \in 1..Len(saving) /\ j + 1 \in 1..Len(saving)
        BY <1>3, <2>8, <3>1, <3>3
      <4>2. So(r, calls[r], latest, saving[j + 1].kept)
        BY <2>1, <3>1, <4>1 DEF ToldHeld
      <4> QED
        BY <1>6, <3>2, <3>3, <4>2
    <3>4. CASE saving'[j].kept = kept
      <4>1. i + 1 \in 1..Len(saving)
        BY <1>3, <3>1
      <4>2. calls[r].at = "Held"
        BY <3>1, <3>2, <4>1 DEF Answering, AnsweredOnce, C!IsHeld
      <4> QED
        BY <1>6, <2>1, <3>2, <3>4, <4>2 DEF ToldHeld
    <3> QED
      BY <1>2, <3>3, <3>4
  <2>9. ASSUME NEW p \in Watchers, NEW room \in C!AllRooms, NEW r \in latest[p][room]
        PROVE  calls'[r].at \notin {"Free", "Reading", "Asking"}
    <3>1. r \in Asking /\ calls[r].at \notin {"Free", "Reading", "Asking"}
      BY <2>1 DEF CallsTyped, ToldHeld
    <3> QED
      BY <1>5, <3>1
  <2> QED
    BY <2>3, <2>6, <2>7, <2>8, <2>9 DEF ToldHeld
<1> QED
  BY <1>8, <1>9 DEF Answering

----------------------------------------------------------------------------
(* Each step. *)

LEMMA HeldParts ==
  ASSUME CallsHeld
  PROVE  CallsTyped /\ ClaimsHeld /\ Answering
BY DEF CallsHeld

\* A call presents what it did, or one warrant.
LEMMA ClaimsStay ==
  ASSUME ClaimsHeld, UNCHANGED <<running, warrants>>,
         \A r \in Asking : calls'[r].bearer \subseteq calls[r].bearer \/ \E w : calls'[r].bearer = {w}
  PROVE  ClaimsHeld'
<1>1. \A r \in Asking : \A v, w \in calls'[r].bearer : v = w
  BY DEF ClaimsHeld
<1> QED
  BY <1>1 DEF ClaimsHeld, C!ClaimIsOfItsTurn

\* A call goes on to c, and nothing else is touched but what is running.
LEMMA GoesOnTo ==
  ASSUME CallsHeld, UNCHANGED <<taken, warrants, handed, kept, saved, saving, latest>>,
         NEW r \in Asking, NEW c \in Call, calls' = [calls EXCEPT ![r] = c],
         calls[r].at \in {"Free", "Reading", "Asking"},
         c.at \in {"Reading", "Asking", "Answered"}, c.came # "Started",
         c.at # "Answered" => c.came = "Nothing",
         c.bearer = {} \/ \E w : c.bearer = {w}
  PROVE  CallsTyped' /\ Answering' /\ (UNCHANGED running => ClaimsHeld')
<1>1. \A q \in Asking : calls'[q] = IF q = r THEN c ELSE calls[q]
  BY HeldParts DEF CallsTyped
<1>2. calls' \in [Asking -> Call]
  BY HeldParts DEF CallsTyped
<1>3. CallsTyped'
  BY <1>1, <1>2, HeldParts DEF CallsTyped
<1>4. Answering'
  BY HeldParts, CallMoves
<1>5. UNCHANGED running => ClaimsHeld'
  BY <1>1, HeldParts, ClaimsStay
<1> QED
  BY <1>3, <1>4, <1>5

LEMMA SimpleCalls ==
  ASSUME CallsHeld, NEW r \in Asking,
         \/ C!Elsewhere(r) \/ C!Refused(r) \/ C!Told(r) \/ C!posted(r)
         \/ \E w \in C!Warranted(r) : C!saying(r, w)
         \/ \E w \in handed : C!Called(r, w)
  PROVE  CallsHeld'
<1>1. UNCHANGED <<taken, running, warrants, handed, kept, saved, saving, latest>>
  BY DEF C!Elsewhere, C!Refused, C!Told, C!posted, C!saying, C!Called
<1>2. calls[r].at \in {"Free", "Reading", "Asking"}
  BY DEF C!Elsewhere, C!Refused, C!Told, C!posted, C!saying, C!Called, C!MayCall
<1>3. calls[r] \in Call /\ calls[r].came = "Nothing"
  BY <1>2, HeldParts, CallParts DEF CallsTyped
<1>4. ASSUME NEW w \in handed, C!Called(r, w) PROVE CallsHeld'
  <2> DEFINE c == [calls[r] EXCEPT !.at = "Reading", !.bearer = {w}]
  <2>1. w \in C!Warrants
    BY HeldParts DEF CallsTyped
  <2>2. c \in Call /\ c.at = "Reading" /\ c.came = "Nothing" /\ c.bearer = {w}
    BY <1>3, <2>1 DEF Call
  <2>3. calls' = [calls EXCEPT ![r] = c]
    <3>1. calls' = [calls EXCEPT ![r].at = "Reading", ![r].bearer = {w}]
      BY <1>4 DEF C!Called
    <3>2. calls \in [Asking -> Call]
      BY HeldParts DEF CallsTyped
    <3> QED
      BY <1>3, <3>1, <3>2 DEF Call
  <2> HIDE DEF c
  <2> QED
    BY <1>1, <1>2, <2>2, <2>3, GoesOnTo DEF CallsHeld
<1>5. ASSUME NEW where \in {"Asking", "Answered"}, NEW came \in {"Nothing", "Said"},
             where # "Answered" => came = "Nothing",
             calls' = C!Came(r, where, came, {})
      PROVE  CallsHeld'
  <2> DEFINE c == [at |-> where, bearer |-> {}, came |-> came, room |-> {}]
  <2>1. c \in Call /\ c.at = where /\ c.came = came /\ c.bearer = {}
    BY DEF Call
  <2>2. calls' = [calls EXCEPT ![r] = c]
    BY <1>5 DEF C!Came
  <2> HIDE DEF c
  <2> QED
    BY <1>1, <1>2, <1>5, <2>1, <2>2, GoesOnTo DEF CallsHeld
<1> QED
  BY <1>4, <1>5 DEF C!Elsewhere, C!Refused, C!Told, C!posted, C!saying, C!Answered

\* What a call claims, it claims of its own turn: its warrant buys something,
\* so that turn runs.
LEMMA ClaimKept ==
  ASSUME CallsHeld, NEW r \in Asking, NEW w \in C!Warranted(r), C!stopping_because(r, w)
  PROVE  CallsHeld'
<1>1. UNCHANGED <<taken, warrants, handed, kept, saved, saving, latest>>
  BY DEF C!stopping_because
<1>2. calls[r].at = "Reading" /\ calls' = C!Answered(r)
  BY DEF C!stopping_because, C!MayCall
<1> DEFINE c == [at |-> "Answered", bearer |-> {}, came |-> "Said", room |-> {}]
<1>3. c \in Call /\ c.at = "Answered" /\ c.came = "Said" /\ c.bearer = {}
  BY DEF Call
<1>4. calls' = [calls EXCEPT ![r] = c]
  BY <1>2 DEF C!Answered, C!Came
<1>5. CallsTyped' /\ Answering' /\ (UNCHANGED running => ClaimsHeld')
  <2> HIDE DEF c
  <2> QED
    BY <1>1, <1>2, <1>3, <1>4, GoesOnTo
<1>6. CASE UNCHANGED running
  BY <1>5, <1>6 DEF CallsHeld
<1>7. CASE running' = [running EXCEPT ![w.speaker].claims = @ \union calls[r].bearer]
           /\ w.speaker \in DOMAIN running
  <2> DEFINE s == w.speaker
  <2>1. w \in warrants /\ w \in calls[r].bearer
    BY DEF C!Warranted
  <2>2. calls[r].bearer = {w} /\ w \in C!Warrants /\ running[s].turn = w.turn
    BY <2>1, HeldParts DEF ClaimsHeld, CallsTyped
  <2>3. running[s] \in [turn : Nat, claims : SUBSET C!Warrants]
    BY <1>7, HeldParts DEF ClaimsHeld
  <2>4. /\ DOMAIN running' = DOMAIN running
        /\ running' = [t \in DOMAIN running |-> running'[t]]
        /\ running'[s] = [running[s] EXCEPT !.claims = @ \union {w}]
        /\ \A t \in DOMAIN running : t # s => running'[t] = running[t]
    BY <1>7, <2>2
  <2>5. /\ running'[s] \in [turn : Nat, claims : SUBSET C!Warrants]
        /\ running'[s].turn = running[s].turn /\ running'[s].claims = running[s].claims \union {w}
    BY <2>2, <2>3, <2>4
  <2> HIDE DEF s
  <2>6. C!ClaimIsOfItsTurn'
    BY <2>2, <2>4, <2>5, HeldParts DEF ClaimsHeld, C!ClaimIsOfItsTurn
  <2>7. \A q \in Asking : \A v, x \in calls'[q].bearer : v = x
    BY <1>3, <1>4, HeldParts DEF ClaimsHeld, CallsTyped
  <2>8. \A v \in warrants' : v.speaker \in DOMAIN running' /\ running'[v.speaker].turn = v.turn
    BY <1>1, <2>4, <2>5, HeldParts DEF ClaimsHeld
  <2>9. \A t \in DOMAIN running' : running'[t] \in [turn : Nat, claims : SUBSET C!Warrants]
    BY <2>4, <2>5, HeldParts DEF ClaimsHeld
  <2>10. running' = [t \in DOMAIN running' |-> running'[t]]
    BY <2>4
  <2> QED
    BY <1>5, <2>6, <2>7, <2>8, <2>9, <2>10 DEF ClaimsHeld, CallsHeld
<1> QED
  BY <1>6, <1>7 DEF C!stopping_because, C!Running

\* What a write is made of has its type.
LEMMA SaveAppended ==
  ASSUME CallsTyped, NEW k \in Kept, NEW replied \in SUBSET Asking, NEW starts \in SUBSET C!Speakers
  PROVE  Append(saving, [kept |-> k, answers |-> replied, starts |-> starts]) \in Seq(Save)
<1>1. [kept |-> k, answers |-> replied, starts |-> starts] \in Save
  BY DEF Save
<1> QED
  BY <1>1 DEF CallsTyped

LEMMA JobBegun ==
  ASSUME CallsHeld, NEW r \in Asking, NEW w \in C!Warranted(r), C!starting_a_job(r, w)
  PROVE  CallsHeld'
<1>1. UNCHANGED <<taken, running, warrants, handed, saved, latest>> /\ calls[r].at = "Reading"
  BY DEF C!starting_a_job, C!MayCall
<1>2. kept \in Kept /\ kept' = [kept EXCEPT !.begun = @ \union {r}]
  BY HeldParts DEF C!starting_a_job, CallsTyped
<1>3. kept' \in Kept /\ kept'.watched = kept.watched /\ kept'.begun = kept.begun \union {r}
  BY <1>2 DEF Kept
<1>4. saving' = Append(saving, [kept |-> kept', answers |-> {r}, starts |-> {}])
  BY DEF C!starting_a_job, C!Written
<1> DEFINE c == [at |-> "Held", bearer |-> {}, came |-> "Started", room |-> {}]
<1>5. c \in Call /\ c.at = "Held" /\ c.came = "Started" /\ c.bearer = {} /\ c.room = {}
  BY DEF Call
<1>6. calls' = [calls EXCEPT ![r] = c]
  BY DEF C!starting_a_job, C!Came
<1> HIDE DEF c
<1>7. \A q \in Asking : calls'[q] = IF q = r THEN c ELSE calls[q]
  BY <1>6, HeldParts DEF CallsTyped
<1>8. CallsTyped'
  <2>1. saving' \in Seq(Save)
    BY <1>3, <1>4, HeldParts, SaveAppended
  <2>2. calls' \in [Asking -> Call]
    BY <1>5, <1>6, HeldParts DEF CallsTyped
  <2> QED
    BY <1>1, <1>3, <1>5, <1>7, <2>1, <2>2, HeldParts DEF CallsTyped
<1>9. ClaimsHeld'
  BY <1>1, <1>5, <1>7, HeldParts, ClaimsStay
<1>10. Answering'
  <2> DEFINE replied == {r}
  <2>1. So(r, calls'[r], latest', kept')
    BY <1>3, <1>5, <1>7 DEF So
  <2>2. \A q \in Asking : So(q, calls[q], latest, kept) => So(q, calls[q], latest', kept')
    BY <1>1, <1>3 DEF So
  <2>3. calls'[r].at = "Held"
    BY <1>5, <1>7
  <2>4. replied \in SUBSET Asking /\ replied \subseteq {r}
        /\ \A q : q \in replied <=> q = r
    OBVIOUS
  <2>5. saving' = Append(saving, [kept |-> kept', answers |-> replied, starts |-> {}])
    BY <1>4
  <2> HIDE DEF replied
  <2>6. \A q \in Asking : IF q \in replied
          THEN calls[q].at = "Reading" /\ calls'[q].at = "Held"
          ELSE calls'[q] = calls[q]
    BY <1>1, <1>7, <2>3, <2>4
  <2>7. \A q \in Asking : IF q \in replied
          THEN So(q, calls'[q], latest', kept')
          ELSE /\ So(q, calls[q], latest, kept) => So(q, calls[q], latest', kept')
               /\ \A k : So(q, calls[q], latest, k) => So(q, calls[q], latest', k)
    BY <1>1, <2>1, <2>2, <2>4
  <2>8. \A p \in Watchers, room \in C!AllRooms :
          latest'[p][room] \subseteq latest[p][room] \union replied
    BY <1>1
  <2> QED
    BY <1>1, <2>4, <2>5, <2>6, <2>7, <2>8, HeldParts, Recorded
<1> QED
  BY <1>8, <1>9, <1>10 DEF CallsHeld

LEMMA RoomWatched ==
  ASSUME CallsHeld, NEW r \in Asking, NEW w \in C!Warranted(r), NEW room \in C!AllRooms,
         NEW starts \in BOOLEAN, C!watching(r, w, room, starts)
  PROVE  CallsHeld'
<1> DEFINE p    == w.speaker
           came == IF starts THEN "Watching" ELSE "Not"
<1>1. UNCHANGED <<taken, running, warrants, handed, saved>> /\ calls[r].at = "Reading"
  BY DEF C!watching, C!MayCall
<1>2. p \in Watchers
  <2>1. w \in warrants
    BY DEF C!Warranted
  <2>2. p \in Watchers \union Workers
    BY <2>1, HeldParts DEF CallsTyped, C!Warrants, C!Speakers
  <2>3. p \notin Workers
    <3>1. (IF starts THEN "watch_room" ELSE "stop_watching") \in C!Offered(w.speaker)
      BY DEF C!watching, C!MayCall
    <3> QED
      BY <3>1 DEF C!Offered
  <2> QED
    BY <2>2, <2>3
<1>3. came \in {"Watching", "Not"}
  OBVIOUS
<1>4. CASE /\ UNCHANGED <<kept, saving>> /\ calls' = C!Came(r, "Answered", came, {room})
           /\ latest' = IF AnyAnswer THEN [latest EXCEPT ![p][room] = {r}] ELSE latest
  <2> DEFINE c == [at |-> "Answered", bearer |-> {}, came |-> came, room |-> {room}]
  <2>1. c \in Call /\ c.at = "Answered" /\ c.came = came /\ c.bearer = {}
    BY DEF Call
  <2>2. calls' = [calls EXCEPT ![r] = c]
    BY <1>4 DEF C!Came
  <2>3. CASE ~AnyAnswer
    <3>1. UNCHANGED latest
      BY <1>4, <2>3
    <3> HIDE DEF c
    <3> QED
      BY <1>1, <1>3, <1>4, <2>1, <2>2, <3>1, GoesOnTo DEF CallsHeld
  <2>4. CASE AnyAnswer
    <3> HIDE DEF c
    <3>1. \A q \in Asking : calls'[q] = IF q = r THEN c ELSE calls[q]
      BY <2>2, HeldParts DEF CallsTyped
    <3>2. calls' \in [Asking -> Call]
      BY <2>1, <2>2, HeldParts DEF CallsTyped
    <3>3. latest' \in [Watchers -> [C!AllRooms -> SUBSET Asking]]
      <4>1. [latest[p] EXCEPT ![room] = {r}] \in [C!AllRooms -> SUBSET Asking]
        BY <1>2, HeldParts DEF CallsTyped
      <4>2. latest' = [latest EXCEPT ![p] = [latest[p] EXCEPT ![room] = {r}]]
        BY <1>4, <2>4
      <4> QED
        BY <4>1, <4>2, HeldParts DEF CallsTyped
    <3>4. CallsTyped'
      BY <1>1, <1>4, <2>1, <3>1, <3>2, <3>3, HeldParts DEF CallsTyped
    <3>5. ClaimsHeld'
      BY <1>1, <2>1, <3>1, HeldParts, ClaimsStay
    <3>6. AnsweredOnce'
      <4>1. AnsweredOnce
        BY HeldParts DEF Answering
      <4>2. C!IsHeld'
        BY <1>1, <1>4, <2>1, <3>1, <4>1 DEF AnsweredOnce, C!IsHeld
      <4> QED
        BY <1>4, <4>1, <4>2 DEF AnsweredOnce
    <3> QED
      BY <2>4, <3>4, <3>5, <3>6 DEF CallsHeld, Answering
  <2> QED
    BY <2>3, <2>4
<1>5. CASE /\ starts # (room \in kept.watched[p])
           /\ kept' = [kept EXCEPT !.watched[p] = IF starts THEN @ \union {room} ELSE @ \ {room}]
           /\ calls' = C!Came(r, "Held", came, {room})
           /\ latest' = [latest EXCEPT ![p][room] = {r}]
           /\ C!Written({r}, {})
  <2> DEFINE c == [at |-> "Held", bearer |-> {}, came |-> came, room |-> {room}]
             watches == IF starts THEN kept.watched[p] \union {room} ELSE kept.watched[p] \ {room}
  <2>1. c \in Call /\ c.at = "Held" /\ c.came = came /\ c.bearer = {} /\ c.room = {room}
    BY DEF Call
  <2>2. calls' = [calls EXCEPT ![r] = c]
    BY <1>5 DEF C!Came
  <2>3. kept \in Kept /\ kept.watched \in [Watchers -> SUBSET C!AllRooms] /\ kept.begun \in SUBSET Asking
    BY HeldParts DEF CallsTyped, Kept
  <2>4. /\ kept'.watched = [kept.watched EXCEPT ![p] = watches] /\ kept'.begun = kept.begun
        /\ kept' = [watched |-> kept'.watched, begun |-> kept'.begun]
    BY <1>5, <2>3 DEF Kept
  <2>5. watches \in SUBSET C!AllRooms /\ (room \in watches <=> starts)
        /\ \A other : other # room => (other \in watches <=> other \in kept.watched[p])
    BY <1>2, <2>3
  <2> HIDE DEF c, watches
  <2>6. kept' \in Kept
    BY <2>3, <2>4, <2>5 DEF Kept
  <2>7. \A q \in Watchers : kept'.watched[q] = IF q = p THEN watches ELSE kept.watched[q]
    BY <2>3, <2>4
  <2>8. \A q \in Asking : calls'[q] = IF q = r THEN c ELSE calls[q]
    BY <2>2, HeldParts DEF CallsTyped
  <2>9. calls' \in [Asking -> Call]
    BY <2>1, <2>2, HeldParts DEF CallsTyped
  <2>10. /\ latest' \in [Watchers -> [C!AllRooms -> SUBSET Asking]]
         /\ \A q \in Watchers, other \in C!AllRooms :
              latest'[q][other] = IF q = p /\ other = room THEN {r} ELSE latest[q][other]
    <3>1. /\ [latest[p] EXCEPT ![room] = {r}] \in [C!AllRooms -> SUBSET Asking]
          /\ \A other \in C!AllRooms : [latest[p] EXCEPT ![room] = {r}][other] =
               IF other = room THEN {r} ELSE latest[p][other]
      BY <1>2, HeldParts DEF CallsTyped
    <3>2. latest' = [latest EXCEPT ![p] = [latest[p] EXCEPT ![room] = {r}]]
      BY <1>5
    <3> DEFINE line == [latest[p] EXCEPT ![room] = {r}]
    <3> HIDE DEF line
    <3>3. latest' \in [Watchers -> [C!AllRooms -> SUBSET Asking]]
      BY <3>1, <3>2, HeldParts DEF CallsTyped, line
    <3>4. \A q \in Watchers : latest'[q] = IF q = p THEN line ELSE latest[q]
      BY <3>2, HeldParts DEF CallsTyped, line
    <3> QED
      BY <3>1, <3>3, <3>4 DEF line
  <2>11. saving' = Append(saving, [kept |-> kept', answers |-> {r}, starts |-> {}])
    BY <1>5 DEF C!Written
  <2>12. CallsTyped'
    <3>1. saving' \in Seq(Save)
      BY <2>6, <2>11, HeldParts, SaveAppended
    <3> QED
      BY <1>1, <2>1, <2>6, <2>8, <2>9, <2>10, <3>1, HeldParts DEF CallsTyped
  <2>13. ClaimsHeld'
    BY <1>1, <2>1, <2>8, HeldParts, ClaimsStay
  <2>14. ASSUME ~AnyAnswer PROVE \A q \in Watchers : r \notin latest[q][room]
    BY <1>1, <2>14, HeldParts DEF Answering, ToldHeld
  <2>15. ~AnyAnswer => So(r, calls'[r], latest', kept')
    <3> SUFFICES ASSUME ~AnyAnswer, NEW q \in Watchers, r \in latest'[q][room]
                 PROVE  /\ came = "Watching" => room \in kept'.watched[q]
                        /\ came = "Not" => room \notin kept'.watched[q]
      BY <1>3, <2>1, <2>8 DEF So
    <3>1. q = p
      BY <2>10, <2>14
    <3> QED
      BY <2>5, <2>7, <3>1
  <2>16. ASSUME NEW q \in Asking, q # r, So(q, calls[q], latest, kept)
         PROVE  So(q, calls[q], latest', kept')
    <3>1. calls[q].room \subseteq C!AllRooms
      BY HeldParts, CallParts
    <3>2. ASSUME NEW o \in Watchers, NEW other \in calls[q].room, q \in latest'[o][other]
          PROVE  q \in latest[o][other] /\ (other \in kept'.watched[o] <=> other \in kept.watched[o])
      BY <2>5, <2>7, <2>10, <2>16, <3>1, <3>2
    <3> QED
      BY <2>4, <2>16, <3>2 DEF So
  <2>17. ASSUME NEW q \in Asking, q # r, NEW k, So(q, calls[q], latest, k)
         PROVE  So(q, calls[q], latest', k)
    <3>1. calls[q].room \subseteq C!AllRooms
      BY HeldParts, CallParts
    <3>2. \A o \in Watchers : \A other \in calls[q].room : q \in latest'[o][other] => q \in latest[o][other]
      BY <2>10, <2>17, <3>1
    <3> QED
      BY <2>17, <3>2 DEF So
  <2>18. \A o \in Watchers, other \in C!AllRooms : latest'[o][other] \subseteq latest[o][other] \union {r}
    BY <2>10
  <2>19. Answering'
    <3> DEFINE replied == {r}
    <3>1. replied \in SUBSET Asking /\ replied \subseteq {r}
          /\ \A q : q \in replied <=> q = r
      OBVIOUS
    <3>2. saving' = Append(saving, [kept |-> kept', answers |-> replied, starts |-> {}])
      BY <2>11
    <3>3. calls'[r].at = "Held"
      BY <2>1, <2>8
    <3>4. \A o \in Watchers, other \in C!AllRooms :
            latest'[o][other] \subseteq latest[o][other] \union replied
      BY <2>18
    <3> HIDE DEF replied
    <3>5. \A q \in Asking : IF q \in replied
            THEN calls[q].at = "Reading" /\ calls'[q].at = "Held"
            ELSE calls'[q] = calls[q]
      BY <1>1, <2>8, <3>1, <3>3
    <3>6. ~AnyAnswer => \A q \in Asking : IF q \in replied
            THEN So(q, calls'[q], latest', kept')
            ELSE /\ So(q, calls[q], latest, kept) => So(q, calls[q], latest', kept')
                 /\ \A k : So(q, calls[q], latest, k) => So(q, calls[q], latest', k)
      BY <2>15, <2>16, <2>17, <3>1
    <3> QED
      BY <1>1, <3>1, <3>2, <3>4, <3>5, <3>6, HeldParts, Recorded
  <2> QED
    BY <2>12, <2>13, <2>19 DEF CallsHeld
<1> QED
  BY <1>4, <1>5 DEF C!watching

\* A write lands, and what waited on it goes out.
LEMMA LandsKeeps == ASSUME CallsHeld, C!Lands PROVE CallsHeld'
<1>1. /\ UNCHANGED <<taken, running, warrants, kept, latest>> /\ saving # <<>>
      /\ saved' = saving[1].kept /\ saving' = Tail(saving)
      /\ calls' = [r \in Asking |-> IF r \in saving[1].answers
                                    THEN [calls[r] EXCEPT !.at = "Answered"] ELSE calls[r]]
      /\ handed' = handed \union {w \in warrants : w.speaker \in saving[1].starts}
  BY HeldParts DEF C!Lands, C!Begins, CallsTyped
<1>2. /\ saving' \in Seq(Save) /\ Len(saving') = Len(saving) - 1
      /\ \A i \in 1..(Len(saving) - 1) : saving'[i] = saving[i + 1]
      /\ Len(saving) \in Nat /\ Len(saving) >= 1
  BY <1>1, HeldParts DEF CallsTyped
<1>3. Answering'
  <2>1. \A i \in 1..Len(saving') : i >= Len(saving) =>
          saving'[i].kept = kept /\ saving'[i].answers = {}
    BY <1>2
  <2> QED
    BY <1>1, <1>2, <2>1, HeldParts, FirstGoes
<1>4. ClaimsHeld'
  <2>1. \A r \in Asking : calls'[r].bearer = calls[r].bearer
    BY <1>1, HeldParts, CallParts DEF Call
  <2> QED
    BY <1>1, <2>1, HeldParts, ClaimsStay
<1>5. CallsTyped'
  <2>1. 1 \in 1..Len(saving) /\ saving[1] \in Save /\ saving[1].kept \in Kept
    BY <1>2, HeldParts, SavingParts
  <2>2. \A r \in Asking : calls'[r] \in Call
    BY <1>1, HeldParts, CallParts DEF Call
  <2>3. calls' \in [Asking -> Call]
    BY <1>1, <2>2
  <2>4. \A r \in saving[1].answers : calls'[r].at \notin {"Free", "Reading", "Asking"}
    BY <1>1, <2>1, HeldParts, CallParts, SavingParts DEF Call
  <2> QED
    BY <1>1, <1>2, <2>1, <2>3, <2>4, HeldParts DEF CallsTyped
<1> QED
  BY <1>3, <1>4, <1>5 DEF CallsHeld

\* A write fails, and what waited on it is lost: calls, and turns with their
\* warrants.
LEMMA FailsKeeps == ASSUME CallsHeld, C!Fails PROVE CallsHeld'
<1>1. /\ UNCHANGED <<taken, handed, kept, saved, latest>> /\ saving # <<>>
      /\ saving' = IF saving[1].starts \intersect Workers = {} THEN Tail(saving)
                   ELSE Append(Tail(saving), [kept |-> kept, answers |-> {}, starts |-> {}])
      /\ calls' = [r \in Asking |-> IF r \in saving[1].answers
                                    THEN [calls[r] EXCEPT !.at = "Lost"] ELSE calls[r]]
      /\ running' = [s \in DOMAIN running \ saving[1].starts |-> running[s]]
      /\ warrants' = {w \in warrants : w.speaker \notin saving[1].starts}
  BY HeldParts DEF C!Fails, CallsTyped
<1>2. /\ Tail(saving) \in Seq(Save) /\ Len(Tail(saving)) = Len(saving) - 1
      /\ \A i \in 1..(Len(saving) - 1) : Tail(saving)[i] = saving[i + 1]
      /\ Len(saving) \in Nat /\ Len(saving) >= 1
  BY <1>1, HeldParts DEF CallsTyped
<1> DEFINE more == [kept |-> kept, answers |-> {}, starts |-> {}]
<1>3. more \in Save /\ more.kept = kept /\ more.answers = {}
  BY HeldParts DEF CallsTyped, Save
<1>4. saving' = Tail(saving) \/ saving' = Append(Tail(saving), more)
  BY <1>1
<1> HIDE DEF more
<1>5. /\ saving' \in Seq(Save) /\ Len(saving') >= Len(saving) - 1
      /\ \A i \in 1..(Len(saving) - 1) : saving'[i] = saving[i + 1]
      /\ \A i \in 1..Len(saving') : i >= Len(saving) =>
           saving'[i].kept = kept /\ saving'[i].answers = {}
  <2>1. CASE saving' = Tail(saving)
    BY <1>2, <2>1
  <2>2. CASE saving' = Append(Tail(saving), more)
    <3>1. Len(saving') = Len(saving) /\ saving'[Len(saving)] = more /\ saving' \in Seq(Save)
      BY <1>2, <1>3, <2>2
    <3>2. \A i \in 1..(Len(saving) - 1) : saving'[i] = saving[i + 1]
      BY <1>2, <1>3, <2>2
    <3> QED
      BY <1>2, <1>3, <3>1, <3>2
  <2> QED
    BY <1>4, <2>1, <2>2
<1>6. Answering'
  BY <1>1, <1>5, HeldParts, FirstGoes
<1>7. \A r \in Asking : calls'[r] \in Call /\ calls'[r].bearer = calls[r].bearer
  BY <1>1, HeldParts, CallParts DEF Call
<1>8. ClaimsHeld'
  <2>1. /\ DOMAIN running' = DOMAIN running \ saving[1].starts
        /\ \A s \in DOMAIN running' : s \in DOMAIN running /\ running'[s] = running[s]
        /\ running' = [s \in DOMAIN running' |-> running'[s]]
    BY <1>1
  <2>2. \A w \in warrants' : w.speaker \in DOMAIN running' /\ running'[w.speaker].turn = w.turn
    BY <1>1, <2>1, HeldParts DEF ClaimsHeld
  <2> QED
    BY <1>7, <2>1, <2>2, HeldParts DEF ClaimsHeld, C!ClaimIsOfItsTurn
<1>9. CallsTyped'
  <2>1. calls' \in [Asking -> Call]
    BY <1>1, <1>7
  <2>2. 1 \in 1..Len(saving)
    BY <1>2
  <2>3. \A r \in saving[1].answers : calls'[r].at \notin {"Free", "Reading", "Asking"}
    BY <1>1, <2>2, HeldParts, CallParts, SavingParts DEF Call
  <2> QED
    BY <1>1, <1>5, <2>1, <2>3, HeldParts DEF CallsTyped
<1> QED
  BY <1>6, <1>8, <1>9 DEF CallsHeld

\* The instance dies, and wakes with what is on the disk.
LEMMA DiesKeeps == ASSUME CallsHeld, C!Dies PROVE CallsHeld'
<1>1. /\ UNCHANGED <<taken, handed, saved, latest>> /\ kept' = saved /\ saving' = <<>>
      /\ running' = [s \in {} |-> 0] /\ warrants' = {}
      /\ calls' = [r \in Asking |-> IF calls[r].at \in {"Free", "Answered", "Lost"}
                                    THEN calls[r] ELSE [C!Free EXCEPT !.at = "Gone"]]
  BY DEF C!Dies, C!NoTurns
<1>2. \A r \in Asking :
        \/ calls'[r] = calls[r] /\ calls[r].at \in {"Free", "Answered", "Lost"}
        \/ calls'[r] = [at |-> "Gone", bearer |-> {}, came |-> "Nothing", room |-> {}]
  BY <1>1 DEF C!Free
<1>3. \A r \in Asking : calls'[r] \in Call
  BY <1>2, HeldParts, CallParts DEF Call
<1>4. CallsTyped'
  <2>1. calls' \in [Asking -> Call]
    BY <1>1, <1>3
  <2>2. \A r \in Asking : calls'[r].at \in {"Free", "Reading", "Asking"} => calls'[r].came = "Nothing"
    BY <1>2, HeldParts DEF CallsTyped
  <2>3. saving' \in Seq(Save) /\ warrants' \subseteq C!Warrants
    BY <1>1
  <2> QED
    BY <1>1, <2>1, <2>2, <2>3, HeldParts DEF CallsTyped
<1>5. ClaimsHeld'
  <2>1. \A r \in Asking : \A v, w \in calls'[r].bearer : v = w
    BY <1>2, HeldParts DEF ClaimsHeld
  <2> QED
    BY <1>1, <2>1 DEF ClaimsHeld, C!ClaimIsOfItsTurn
<1>6. \A r \in Asking : calls'[r].at # "Held"
                        /\ (calls'[r].at = "Answered" => calls'[r] = calls[r])
                        /\ (calls'[r].at = "Free" => calls[r].at = "Free")
                        /\ calls'[r].at \notin {"Reading", "Asking"}
  BY <1>2
<1>7. AnsweredOnce'
  BY <1>1, <1>6 DEF AnsweredOnce, C!IsHeld
<1>8. ToldHeld => ToldHeld'
  <2> SUFFICES ASSUME ToldHeld PROVE ToldHeld'
    OBVIOUS
  <2>1. \A r \in Asking : calls'[r].at = "Answered" => So(r, calls'[r], latest', kept')
                                                       /\ So(r, calls'[r], latest', saved')
    BY <1>1, <1>6 DEF ToldHeld
  <2>2. ASSUME NEW p \in Watchers, NEW room \in C!AllRooms, NEW r \in latest'[p][room]
        PROVE  calls'[r].at \notin {"Free", "Reading", "Asking"}
    <3>1. r \in Asking /\ calls[r].at # "Free"
      BY <1>1, HeldParts DEF CallsTyped, ToldHeld
    <3> QED
      BY <1>6, <3>1
  <2> QED
    BY <1>1, <1>6, <2>1, <2>2 DEF ToldHeld
<1> QED
  BY <1>4, <1>5, <1>7, <1>8, HeldParts DEF CallsHeld, Answering

\* What a step of a turn writes changes nothing of what calls came to.
LEMMA OnlyRecorded ==
  ASSUME CallsTyped, Answering, UNCHANGED <<calls, kept, saved, latest>>, NEW starts,
         C!Written({}, starts)
  PROVE  Answering'
<1> DEFINE replied == {}
<1>1. replied \in SUBSET Asking /\ replied \subseteq {0} /\ \A r : r \notin replied
  OBVIOUS
<1>2. saving' = Append(saving, [kept |-> kept', answers |-> replied, starts |-> starts])
  BY DEF C!Written
<1> HIDE DEF replied
<1>3. \A r \in Asking : IF r \in replied
        THEN calls[r].at = "Reading" /\ calls'[r].at = "Held"
        ELSE calls'[r] = calls[r]
  BY <1>1
<1>4. \A r \in Asking : IF r \in replied
        THEN So(r, calls'[r], latest', kept')
        ELSE /\ So(r, calls[r], latest, kept) => So(r, calls[r], latest', kept')
             /\ \A k : So(r, calls[r], latest, k) => So(r, calls[r], latest', k)
  BY <1>1
<1>5. \A p \in Watchers, room \in C!AllRooms :
        latest'[p][room] \subseteq latest[p][room] \union replied
  OBVIOUS
<1> QED
  BY <1>1, <1>2, <1>3, <1>4, <1>5, Recorded

\* A turn starts: its warrant replaces its speaker's, and it has claimed
\* nothing yet.
LEMMA TurnStartsKeeps ==
  ASSUME CallsHeld, NEW s \in C!Speakers, NEW place \in C!AllRooms, NEW recorded \in BOOLEAN,
         C!TurnStarts(s, place, recorded)
  PROVE  CallsHeld'
<1>1. /\ s \notin DOMAIN running /\ taken' = taken + 1 /\ taken < MaxTaken
      /\ UNCHANGED <<kept, saved, calls, latest>>
      /\ running' = [t \in DOMAIN running \union {s} |->
                       IF t = s THEN [turn |-> taken', claims |-> {}] ELSE running[t]]
      /\ warrants' = (warrants \ C!Of(s)) \union {[speaker |-> s, turn |-> taken', place |-> place]}
  BY DEF C!TurnStarts, C!Running
<1> DEFINE new == [speaker |-> s, turn |-> taken', place |-> place]
<1>2. taken' \in Nat /\ new \in C!Warrants /\ new.speaker = s /\ new.turn = taken'
  BY <1>1, HeldParts, CallsAssumed DEF CallsTyped, C!Warrants
<1>3. warrants' = (warrants \ C!Of(s)) \union {new}
  BY <1>1
<1> HIDE DEF new
<1>4. /\ DOMAIN running' = DOMAIN running \union {s}
      /\ running' = [t \in DOMAIN running' |-> running'[t]]
      /\ running'[s].turn = taken' /\ running'[s].claims = {}
      /\ running'[s] \in [turn : Nat, claims : SUBSET C!Warrants]
      /\ \A t \in DOMAIN running : t # s /\ running'[t] = running[t]
  BY <1>1, <1>2
<1>5. ClaimsHeld'
  <2>1. \A w \in warrants' : w.speaker \in DOMAIN running' /\ running'[w.speaker].turn = w.turn
    BY <1>2, <1>3, <1>4, HeldParts DEF ClaimsHeld
  <2>2. \A t \in DOMAIN running' : running'[t] \in [turn : Nat, claims : SUBSET C!Warrants]
    BY <1>4, HeldParts DEF ClaimsHeld
  <2>3. C!ClaimIsOfItsTurn'
    BY <1>4, HeldParts DEF ClaimsHeld, C!ClaimIsOfItsTurn
  <2> QED
    BY <1>1, <1>4, <2>1, <2>2, <2>3, HeldParts DEF ClaimsHeld
<1>6. warrants' \subseteq C!Warrants
  BY <1>2, <1>3, HeldParts DEF CallsTyped
<1>7. CASE C!Written({}, {s}) /\ UNCHANGED handed
  <2>1. saving' \in Seq(Save)
    BY <1>1, <1>7, HeldParts, SaveAppended DEF C!Written, CallsTyped
  <2>2. CallsTyped'
    BY <1>1, <1>2, <1>6, <1>7, <2>1, HeldParts DEF CallsTyped
  <2>3. Answering'
    BY <1>1, <1>7, HeldParts, OnlyRecorded
  <2> QED
    BY <1>5, <2>2, <2>3 DEF CallsHeld
<1>8. CASE /\ saving # <<>> /\ UNCHANGED handed
           /\ saving' = [saving EXCEPT ![Len(saving)].starts = @ \union {s}]
  <2> DEFINE n == Len(saving)
             later == [saving[n] EXCEPT !.starts = @ \union {s}]
  <2>1. n \in Nat /\ n \in 1..n
    BY <1>8, HeldParts DEF CallsTyped
  <2>2. saving[n] \in Save
    BY <2>1, HeldParts, SavingParts
  <2>3. /\ later \in Save /\ later.answers = saving[n].answers /\ later.kept = saving[n].kept
    BY <2>2 DEF Save
  <2>4. saving' = [saving EXCEPT ![n] = later]
    BY <1>8
  <2> HIDE DEF later
  <2>5. /\ saving' \in Seq(Save) /\ Len(saving') = Len(saving)
        /\ \A i \in 1..Len(saving) : saving'[i] = IF i = n THEN later ELSE saving[i]
    BY <2>1, <2>3, <2>4, HeldParts DEF CallsTyped
  <2>6. CallsTyped'
    BY <1>1, <1>2, <1>6, <1>8, <2>5, HeldParts DEF CallsTyped
  <2>7. \A i \in 1..Len(saving) : saving'[i].answers = saving[i].answers
                                  /\ saving'[i].kept = saving[i].kept
    BY <2>3, <2>5
  <2>8. Answering'
    BY <1>1, <2>5, <2>7, HeldParts, CallsStay
  <2> QED
    BY <1>5, <2>6, <2>8 DEF CallsHeld
<1>9. CASE handed' = handed \union (warrants' \ warrants) /\ UNCHANGED saving
  <2>1. CallsTyped'
    BY <1>1, <1>2, <1>6, <1>9, HeldParts DEF CallsTyped
  <2>2. Answering'
    BY <1>1, <1>9, HeldParts, CallsStay
  <2> QED
    BY <1>5, <2>1, <2>2 DEF CallsHeld
<1> QED
  BY <1>7, <1>8, <1>9 DEF C!TurnStarts

\* A turn ends, and its warrant buys nothing more.
LEMMA TurnEndsKeeps ==
  ASSUME CallsHeld, NEW s \in C!Speakers, C!TurnEnds(s)
  PROVE  CallsHeld'
<1>1. /\ UNCHANGED <<taken, handed, kept, saved, calls, latest>>
      /\ running' = [t \in DOMAIN running \ {s} |-> running[t]]
      /\ warrants' = warrants \ C!Of(s) /\ C!Written({}, {})
  BY DEF C!TurnEnds, C!Withdrawn
<1>2. /\ DOMAIN running' = DOMAIN running \ {s}
      /\ running' = [t \in DOMAIN running' |-> running'[t]]
      /\ \A t \in DOMAIN running' : t \in DOMAIN running /\ running'[t] = running[t]
  BY <1>1
<1>3. \A w \in warrants' : w \in warrants /\ w.speaker # s
  BY <1>1 DEF C!Of
<1>4. ClaimsHeld'
  <2>1. \A w \in warrants' : w.speaker \in DOMAIN running' /\ running'[w.speaker].turn = w.turn
    BY <1>2, <1>3, HeldParts DEF ClaimsHeld
  <2> QED
    BY <1>1, <1>2, <2>1, HeldParts DEF ClaimsHeld, C!ClaimIsOfItsTurn
<1>5. CallsTyped'
  <2>1. saving' \in Seq(Save)
    BY <1>1, HeldParts, SaveAppended DEF C!Written, CallsTyped
  <2> QED
    BY <1>1, <1>3, <2>1, HeldParts DEF CallsTyped
<1>6. Answering'
  BY <1>1, HeldParts, OnlyRecorded
<1> QED
  BY <1>4, <1>5, <1>6 DEF CallsHeld

LEMMA CallsStutter ==
  ASSUME CallsHeld, UNCHANGED calling
  PROVE  CallsHeld'
<1>1. CallsTyped'
  BY HeldParts DEF CallsTyped, calling
<1>2. ClaimsHeld'
  BY HeldParts DEF ClaimsHeld, C!ClaimIsOfItsTurn, calling
<1>3. Answering'
  BY HeldParts, CallsStay DEF calling
<1> QED
  BY <1>1, <1>2, <1>3 DEF CallsHeld

LEMMA CallsKept == ASSUME CallsHeld, C!Next PROVE CallsHeld'
<1>1. ASSUME NEW r \in Asking, C!Body(r) PROVE CallsHeld'
  <2>1. CASE C!Refused(r) \/ C!Told(r)
    BY <2>1, SimpleCalls
  <2>2. ASSUME NEW w \in C!Warranted(r),
               \/ C!stopping_because(r, w) \/ C!saying(r, w) \/ C!starting_a_job(r, w)
               \/ \E room \in C!AllRooms, starts \in BOOLEAN : C!watching(r, w, room, starts)
        PROVE  CallsHeld'
    BY <2>2, SimpleCalls, ClaimKept, JobBegun, RoomWatched
  <2> QED
    BY <1>1, <2>1, <2>2 DEF C!Body
<1>2. ASSUME NEW r \in Asking, C!Elsewhere(r) \/ C!posted(r) \/ \E w \in handed : C!Called(r, w)
      PROVE  CallsHeld'
  BY <1>2, SimpleCalls
<1>3. ASSUME NEW s \in C!Speakers,
             C!TurnEnds(s) \/ \E place \in C!AllRooms, recorded \in BOOLEAN :
                                C!TurnStarts(s, place, recorded)
      PROVE  CallsHeld'
  BY <1>3, TurnStartsKeeps, TurnEndsKeeps
<1> QED
  BY <1>1, <1>2, <1>3, LandsKeeps, FailsKeeps, DiesKeeps DEF C!Next

LEMMA CallsPromise ==
  ASSUME CallsHeld
  PROVE  C!IsHeld /\ C!ClaimIsOfItsTurn /\ (~AnyAnswer => C!ToldIsKept)
BY DEF CallsHeld, ClaimsHeld, Answering, AnsweredOnce, ToldHeld, C!ToldIsKept, So

----------------------------------------------------------------------------
(* A room is watched by one project, by every record there is. *)

OneWatches(k) ==
  \A p, q \in Watchers : p # q => k.watched[p] \intersect k.watched[q] = {}

WatchedHeld ==
  /\ OneWatches(kept) /\ OneWatches(saved)
  /\ \A i \in 1..Len(saving) : OneWatches(saving[i].kept)

LEMMA WatchedBegins == ASSUME C!Init PROVE WatchedHeld
BY DEF C!Init, C!Nothing, WatchedHeld, OneWatches

LEMMA NothingWatched ==
  ASSUME WatchedHeld, UNCHANGED <<kept, saved>>,
         \A i \in 1..Len(saving') : \/ i \in 1..Len(saving) /\ saving'[i].kept = saving[i].kept
                                    \/ saving'[i].kept = kept
  PROVE  WatchedHeld'
<1>1. OneWatches(kept') /\ OneWatches(saved')
  BY DEF WatchedHeld
<1>2. ASSUME NEW i \in 1..Len(saving') PROVE OneWatches(saving'[i].kept)
  BY DEF WatchedHeld
<1> QED
  BY <1>1, <1>2 DEF WatchedHeld, OneWatches

\* A step that writes writes the record it leaves.
LEMMA WatchedWritten ==
  ASSUME CallsTyped, WatchedHeld, UNCHANGED saved, OneWatches(kept'),
         NEW replied, NEW starts, C!Written(replied, starts)
  PROVE  WatchedHeld'
<1> DEFINE more == [kept |-> kept', answers |-> replied, starts |-> starts]
<1>1. saving' = Append(saving, more) /\ more.kept = kept'
  BY DEF C!Written
<1> HIDE DEF more
<1>2. Len(saving) \in Nat /\ Len(saving') = Len(saving) + 1
      /\ saving'[Len(saving) + 1] = more
      /\ \A i \in 1..Len(saving) : saving'[i] = saving[i]
  BY <1>1 DEF CallsTyped
<1>3. ASSUME NEW i \in 1..Len(saving') PROVE OneWatches(saving'[i].kept)
  <2>1. i \in 1..Len(saving) \/ i = Len(saving) + 1
    BY <1>2
  <2> QED
    BY <1>1, <1>2, <2>1 DEF WatchedHeld
<1>4. OneWatches(saved')
  BY DEF WatchedHeld
<1> QED
  BY <1>3, <1>4 DEF WatchedHeld, OneWatches

LEMMA WatchesKeeps ==
  ASSUME CallsHeld, WatchedHeld, NEW r \in Asking, NEW w \in C!Warranted(r), NEW room \in C!AllRooms,
         NEW starts \in BOOLEAN, C!watching(r, w, room, starts)
  PROVE  WatchedHeld'
<1> DEFINE p == w.speaker
<1>1. CASE UNCHANGED <<kept, saving, saved>>
  BY <1>1, NothingWatched
<1>2. CASE /\ kept' = [kept EXCEPT !.watched[p] = IF starts THEN @ \union {room} ELSE @ \ {room}]
           /\ C!Written({r}, {}) /\ UNCHANGED saved
  <2>1. kept \in [watched : [Watchers -> SUBSET C!AllRooms], begun : SUBSET Asking]
    BY DEF CallsHeld, CallsTyped, Kept
  <2>2. \A q \in Watchers : kept'.watched[q] =
          IF q = p THEN IF starts THEN kept.watched[q] \union {room} ELSE kept.watched[q] \ {room}
          ELSE kept.watched[q]
    BY <1>2, <2>1
  <2>3. starts => \A q \in Watchers \ {p} : room \notin kept.watched[q]
    BY DEF C!watching, C!WatchedElsewhere
  <2>4. ASSUME NEW o \in Watchers, NEW q \in Watchers, o # q
        PROVE  kept'.watched[o] \intersect kept'.watched[q] = {}
    <3>1. kept.watched[o] \intersect kept.watched[q] = {}
      BY <2>4 DEF WatchedHeld, OneWatches
    <3>2. CASE o = p
      <4>1. kept'.watched[q] = kept.watched[q] /\ (starts => room \notin kept.watched[q])
        BY <2>2, <2>3, <2>4, <3>2
      <4>2. kept'.watched[o] = IF starts THEN kept.watched[o] \union {room} ELSE kept.watched[o] \ {room}
        BY <2>2, <3>2
      <4> QED
        BY <3>1, <4>1, <4>2
    <3>3. CASE q = p
      <4>1. kept'.watched[o] = kept.watched[o] /\ (starts => room \notin kept.watched[o])
        BY <2>2, <2>3, <2>4, <3>3
      <4>2. kept'.watched[q] = IF starts THEN kept.watched[q] \union {room} ELSE kept.watched[q] \ {room}
        BY <2>2, <3>3
      <4> QED
        BY <3>1, <4>1, <4>2
    <3>4. CASE o # p /\ q # p
      BY <2>2, <3>1, <3>4
    <3> QED
      BY <3>2, <3>3, <3>4
  <2>5. OneWatches(kept')
    BY <2>4 DEF OneWatches
  <2> QED
    BY <1>2, <2>5, WatchedWritten DEF CallsHeld
<1> QED
  BY <1>1, <1>2 DEF C!watching

LEMMA WatchedKept ==
  ASSUME CallsHeld, WatchedHeld, C!Next
  PROVE  WatchedHeld'
<1> USE DEF CallsHeld
<1>1. OneWatches(kept) /\ OneWatches(saved)
  BY DEF WatchedHeld
<1>2. Len(saving) \in Nat /\ saving \in Seq(Save)
  BY DEF CallsTyped
<1>3. CASE C!Lands
  <2>1. saved' = saving[1].kept /\ saving' = Tail(saving) /\ UNCHANGED kept /\ saving # <<>>
    BY <1>2, <1>3 DEF C!Lands
  <2>2. Len(saving) >= 1 /\ Len(saving') = Len(saving) - 1
        /\ \A i \in 1..(Len(saving) - 1) : saving'[i] = saving[i + 1]
    BY <1>2, <2>1
  <2>3. OneWatches(saved')
    BY <1>2, <2>1, <2>2 DEF WatchedHeld
  <2>4. ASSUME NEW i \in 1..Len(saving') PROVE OneWatches(saving'[i].kept)
    <3>1. i + 1 \in 1..Len(saving) /\ saving'[i] = saving[i + 1]
      BY <1>2, <2>2
    <3> QED
      BY <3>1 DEF WatchedHeld
  <2> QED
    BY <1>1, <2>1, <2>3, <2>4 DEF WatchedHeld, OneWatches
<1>4. CASE C!Fails
  <2>1. UNCHANGED <<kept, saved>> /\ saving # <<>>
        /\ (saving' = Tail(saving)
            \/ saving' = Append(Tail(saving), [kept |-> kept, answers |-> {}, starts |-> {}]))
    BY <1>4 DEF C!Fails
  <2>2. /\ Len(Tail(saving)) = Len(saving) - 1 /\ Len(saving) >= 1 /\ Tail(saving) \in Seq(Save)
        /\ \A i \in 1..(Len(saving) - 1) : Tail(saving)[i] = saving[i + 1]
    BY <1>2, <2>1
  <2>3. ASSUME NEW i \in 1..Len(saving') PROVE OneWatches(saving'[i].kept)
    <3>1. CASE i \in 1..(Len(saving) - 1)
      <4>1. i \in 1..Len(Tail(saving)) /\ i + 1 \in 1..Len(saving)
        BY <1>2, <2>2, <3>1
      <4>2. saving'[i] = Tail(saving)[i]
        BY <2>1, <2>2, <4>1
      <4>3. Tail(saving)[i] = saving[i + 1]
        BY <2>2, <3>1
      <4> QED
        BY <4>1, <4>2, <4>3 DEF WatchedHeld
    <3>2. CASE i \notin 1..(Len(saving) - 1)
      <4>1. saving'[i].kept = kept
        BY <1>2, <2>1, <2>2, <3>2
      <4> QED
        BY <1>1, <4>1
    <3> QED
      BY <3>1, <3>2
  <2> QED
    BY <1>1, <2>1, <2>3 DEF WatchedHeld, OneWatches
<1>5. CASE C!Dies
  BY <1>1, <1>5 DEF C!Dies, WatchedHeld, OneWatches
<1>6. ASSUME NEW s \in C!Speakers, C!TurnEnds(s) PROVE WatchedHeld'
  BY <1>1, <1>6, WatchedWritten DEF C!TurnEnds
<1>7. ASSUME NEW s \in C!Speakers, NEW place \in C!AllRooms, NEW recorded \in BOOLEAN,
             C!TurnStarts(s, place, recorded)
      PROVE  WatchedHeld'
  <2>1. UNCHANGED <<kept, saved>>
    BY <1>7 DEF C!TurnStarts
  <2>2. CASE C!Written({}, {s})
    BY <1>1, <2>1, <2>2, WatchedWritten
  <2>3. CASE UNCHANGED saving
    BY <2>1, <2>3, NothingWatched
  <2>4. CASE saving # <<>> /\ saving' = [saving EXCEPT ![Len(saving)].starts = @ \union {s}]
    <3>1. Len(saving') = Len(saving) /\ \A i \in 1..Len(saving) : saving'[i].kept = saving[i].kept
      <4>1. \A i \in 1..Len(saving) : saving[i] \in Save
        BY <1>2
      <4> QED
        BY <1>2, <2>4, <4>1 DEF Save
    <3> QED
      BY <2>1, <3>1, NothingWatched
  <2> QED
    BY <1>7, <2>2, <2>3, <2>4 DEF C!TurnStarts
<1>8. ASSUME NEW r \in Asking,
             \/ C!Elsewhere(r) \/ C!Refused(r) \/ C!Told(r) \/ C!posted(r)
             \/ \E w \in handed : C!Called(r, w)
             \/ \E w \in C!Warranted(r) : C!stopping_because(r, w) \/ C!saying(r, w)
      PROVE  WatchedHeld'
  <2>1. UNCHANGED <<kept, saved, saving>>
    BY <1>8 DEF C!Elsewhere, C!Refused, C!Told, C!posted, C!Called, C!stopping_because, C!saying
  <2> QED
    BY <2>1, NothingWatched
<1>9. ASSUME NEW r \in Asking, NEW w \in C!Warranted(r), C!starting_a_job(r, w) PROVE WatchedHeld'
  <2>1. kept \in Kept /\ kept' = [kept EXCEPT !.begun = @ \union {r}]
    BY <1>9 DEF C!starting_a_job, CallsTyped
  <2>2. OneWatches(kept')
    BY <1>1, <2>1 DEF Kept, OneWatches
  <2> QED
    BY <1>9, <2>2, WatchedWritten DEF C!starting_a_job
<1> QED
  BY <1>3, <1>4, <1>5, <1>6, <1>7, <1>8, <1>9, WatchesKeeps DEF C!Next, C!Body

----------------------------------------------------------------------------
(* The key a file is sealed with can be had again, and its identity is the one it has. *)

\* A key that can be had again: a person's, or one on the disk.
IsKey(k, keys) == k # 0 /\ (k = B!Person \/ \E q \in B!Places : keys[q] = k)

\* No key is written over another, whatever is sealed is sealed with a key that
\* can be had again, and what holds anything has a name, which containers carry.
KeysHeld ==
  /\ left \in [Names -> Nat]
  /\ phase # "Off" => runs # 0
  /\ \A p \in B!Places : /\ disk.file[p].secrets => IsKey(disk.file[p].sealed, disk.key)
                         /\ disk.file[p].holds # 0 => disk.file[p].id # 0
  /\ phase = "KeyWritten" => disk.key[B!KeyPlace] = 0 /\ facts.key # 0
  /\ phase \in Opened \union {"File"} => IsKey(facts.key, disk.key)
  /\ phase \in Opened => facts.file.id = disk.file[B!FilePlace].id
  /\ B!OneIdentity

LEMMA KeysBegin == ASSUME B!Init PROVE KeysHeld
BY DEF B!Init, B!NoFile, KeysHeld, Opened, B!OneIdentity

\* A question is answered, and the disk is not touched.
LEMMA KeysGo ==
  ASSUME KeysHeld, UNCHANGED <<environment, disk, left, runs>>, phase # "Off",
         phase' = "KeyWritten" => disk.key[B!KeyPlace] = 0 /\ facts'.key # 0,
         phase' \in Opened \union {"File"} => IsKey(facts'.key, disk.key),
         phase' \in Opened => facts'.file.id = disk.file[B!FilePlace].id
  PROVE  KeysHeld'
<1>1. B!FilePlace' = B!FilePlace /\ B!KeyPlace' = B!KeyPlace
  BY DEF B!FilePlace, B!KeyPlace
<1>2. \A k : IsKey(k, disk.key) => IsKey(k, disk'.key)
  BY DEF IsKey
<1>3. \A p \in B!Places : (disk'.file[p].secrets => IsKey(disk'.file[p].sealed, disk'.key))
                          /\ (disk'.file[p].holds # 0 => disk'.file[p].id # 0)
  BY DEF KeysHeld, IsKey
<1>4. (phase' \in Opened \union {"File"} => IsKey(facts'.key, disk'.key))
  BY DEF IsKey
<1> QED
  BY <1>1, <1>3, <1>4 DEF KeysHeld, B!OneIdentity

LEMMA KeysRuntime ==
  ASSUME BootHeld, KeysHeld, NEW c \in 1..Candidates, B!RuntimeAnswered(c)
  PROVE  KeysHeld'
<1>1. UNCHANGED <<environment, disk, left, runs>> /\ phase = "Runtime"
  BY DEF B!RuntimeAnswered, B!Rests, B!world
<1> DEFINE known == [facts EXCEPT !.runtime = c]
<1>2. [known EXCEPT !.key = B!Person].key = B!Person
  BY BootParts DEF Facts
<1> HIDE DEF known
<1>3. B!Person # 0
  BY BootAssumed DEF B!Person
<1>4. CASE B!AskKey(known)
  <2>1. phase' \in {"File", "Key", "Refused"}
        /\ (phase' = "File" => facts' = [known EXCEPT !.key = B!Person])
    BY <1>4 DEF B!AskKey, B!AskFile, B!Refuse, B!In
  <2>2. phase' = "File" => IsKey(facts'.key, disk.key)
    BY <1>2, <1>3, <2>1 DEF IsKey
  <2> QED
    BY <1>1, <2>1, <2>2, KeysGo DEF Opened
<1>5. CASE B!Refuse \/ B!TryCandidate(c + 1)
  <2>1. phase' \in {"Runtime", "Refused"}
    BY <1>5 DEF B!Refuse, B!TryCandidate, B!In
  <2> QED
    BY <1>1, <2>1, KeysGo DEF Opened
<1> QED
  BY <1>4, <1>5 DEF B!RuntimeAnswered, known

LEMMA KeysRead ==
  ASSUME BootHeld, KeysHeld, B!KeyRead
  PROVE  KeysHeld'
<1>1. UNCHANGED <<environment, disk, left, runs>> /\ phase = "Key" /\ runs # 0
  BY DEF B!KeyRead, B!Rests, B!world, KeysHeld
<1>2. CASE B!Refuse
  BY <1>1, <1>2, KeysGo DEF B!Refuse, B!In, Opened
<1>3. CASE disk.key[B!KeyPlace] # 0 /\ B!AskFile([facts EXCEPT !.key = disk.key[B!KeyPlace]])
  <2>1. phase' = "File" /\ facts'.key = disk.key[B!KeyPlace]
    BY <1>3, BootParts DEF B!AskFile, B!In, Facts
  <2>2. IsKey(facts'.key, disk.key)
    BY <1>3, <2>1, BootParts DEF IsKey
  <2> QED
    BY <1>1, <2>1, <2>2, KeysGo DEF Opened
<1>4. CASE disk.key[B!KeyPlace] = 0 /\ B!MakeKey
  <2>1. phase' = "KeyWritten" /\ facts'.key = runs
    BY <1>4, BootParts DEF B!MakeKey, B!In, Facts
  <2> QED
    BY <1>1, <1>4, <2>1, KeysGo DEF Opened
<1> QED
  BY <1>2, <1>3, <1>4 DEF B!KeyRead

\* A key goes where there was none.
LEMMA KeysWritten ==
  ASSUME BootHeld, KeysHeld, UNCHANGED <<environment, left, runs, facts>>, phase # "Off",
         \/ UNCHANGED disk
         \/ phase = "KeyWritten" /\ disk' = [disk EXCEPT !.key[B!KeyPlace] = facts.key],
         \/ phase' \in {"Off", "Refused"}
         \/ phase = "KeyWritten" /\ phase' = "File" /\ ~UNCHANGED disk
  PROVE  KeysHeld'
<1>1. CASE phase = "KeyWritten" /\ disk' = [disk EXCEPT !.key[B!KeyPlace] = facts.key]
  <2>1. disk.key[B!KeyPlace] = 0 /\ facts.key # 0
    BY <1>1 DEF KeysHeld
  <2>2. /\ disk'.file = disk.file /\ disk'.key[B!KeyPlace] = facts.key
        /\ \A q \in B!Places : q # B!KeyPlace => disk'.key[q] = disk.key[q]
    BY <1>1, BootParts
  <2>3. \A k : IsKey(k, disk.key) => IsKey(k, disk'.key)
    BY <2>1, <2>2 DEF IsKey
  <2>4. IsKey(facts.key, disk'.key)
    BY <2>1, <2>2, BootParts DEF IsKey
  <2>5. \A p \in B!Places : /\ disk'.file[p].secrets => IsKey(disk'.file[p].sealed, disk'.key)
                            /\ disk'.file[p].holds # 0 => disk'.file[p].id # 0
    BY <2>2, <2>3 DEF KeysHeld, IsKey
  <2>6. B!OneIdentity'
    BY <2>2 DEF KeysHeld, B!OneIdentity
  <2>7. phase' \in {"Off", "Refused", "File"} /\ (phase' # "Off" => runs' # 0)
    BY DEF KeysHeld
  <2>8. left' \in [Names -> Nat] /\ IsKey(facts'.key, disk'.key)
    BY <2>4 DEF KeysHeld
  <2> QED
    BY <2>5, <2>6, <2>7, <2>8 DEF KeysHeld, Opened
<1>2. CASE UNCHANGED disk
  BY <1>2, KeysGo DEF Opened
<1> QED
  BY <1>1, <1>2

LEMMA KeysFile ==
  ASSUME BootHeld, KeysHeld, B!FileRead
  PROVE  KeysHeld'
<1>1. UNCHANGED <<environment, disk, left, runs>> /\ phase = "File" /\ IsKey(facts.key, disk.key)
  BY DEF B!FileRead, B!Rests, B!world, KeysHeld
<1>2. CASE B!Refuse
  BY <1>1, <1>2, KeysGo DEF B!Refuse, B!In, Opened
<1>3. CASE B!AskPasswordOrListing([facts EXCEPT !.opened = TRUE, !.file = disk.file[B!FilePlace]])
  <2> DEFINE what  == disk.file[B!FilePlace]
             known == [facts EXCEPT !.opened = TRUE, !.file = what]
  <2>1. known \in Facts /\ known.file = what /\ known.key = facts.key
    BY BootParts DEF Facts
  <2>2. \A p : [known EXCEPT !.password = p].file = what /\ [known EXCEPT !.password = p].key = facts.key
    BY <2>1 DEF Facts
  <2>3. B!AskPasswordOrListing(known)
    BY <1>3
  <2> HIDE DEF known
  <2>4. /\ facts' = known \/ \E p : facts' = [known EXCEPT !.password = p]
        /\ phase' \in {"Password", "Listing"}
    BY <2>3 DEF B!AskPasswordOrListing, B!AskListing, B!In
  <2>5. facts'.file = what /\ facts'.key = facts.key
    BY <2>1, <2>2, <2>4
  <2> QED
    BY <1>1, <2>4, <2>5, KeysGo
<1> QED
  BY <1>2, <1>3 DEF B!FileRead

LEMMA KeysDerived ==
  ASSUME BootHeld, KeysHeld, B!Derived
  PROVE  KeysHeld'
<1>1. UNCHANGED <<environment, disk, left, runs>> /\ phase = "Password"
      /\ IsKey(facts.key, disk.key) /\ facts.file.id = disk.file[B!FilePlace].id
  BY DEF B!Derived, B!Rests, B!world, KeysHeld, Opened
<1>2. CASE B!Refuse
  BY <1>1, <1>2, KeysGo DEF B!Refuse, B!In, Opened
<1>3. CASE B!AskListing([facts EXCEPT !.file.password = TRUE, !.password = "Environment"])
  <2>1. facts' = [facts EXCEPT !.file.password = TRUE, !.password = "Environment"]
        /\ phase' = "Listing"
    BY <1>3 DEF B!AskListing, B!In
  <2>2. facts'.key = facts.key /\ facts'.file.id = facts.file.id
    BY <2>1, BootParts DEF Facts, Files
  <2> QED
    BY <1>1, <2>1, <2>2, KeysGo
<1> QED
  BY <1>2, <1>3 DEF B!Derived

LEMMA KeysGathered ==
  ASSUME BootHeld, KeysHeld,
         \/ \E which \in {"All", "Up"} : B!Listed(which)
         \/ \E asked \in Names \X B!Labels : B!Labelled(asked)
         \/ \E which \in {"Dashboard", "Tools"} : B!Bound(which)
         \/ B!Presenting
  PROVE  KeysHeld'
<1>1. UNCHANGED <<environment, disk, left, runs, facts>> /\ phase # "Off"
  BY DEF B!Listed, B!Labelled, B!Bound, B!Presenting, B!Rests, B!world, B!Refuse
<1>2. \/ phase' \in {"Refused", phase}
      \/ phase \in Opened /\ phase' \in Opened
  <2>1. ASSUME NEW got, NEW bound, NEW presents
        PROVE  \/ B!MaybeAwake(got, bound, presents) = got
               \/ got \in Opened /\ B!MaybeAwake(got, bound, presents) \in Opened
    BY DEF B!MaybeAwake, Opened
  <2>2. ASSUME NEW which \in {"All", "Up"}, B!Listed(which)
        PROVE  phase' \in {"Refused", phase} \/ (phase \in Opened /\ phase' \in Opened)
    <3>1. phase = "Listing"
          /\ phase' \in {"Refused", phase, "Labels", B!MaybeAwake("Ready", addresses, presenting)}
      BY <2>2 DEF B!Listed, B!Refuse, B!In
    <3> QED
      BY <2>1, <3>1 DEF Opened
  <2>3. ASSUME NEW asked \in Names \X B!Labels, B!Labelled(asked)
        PROVE  phase' \in {"Refused", phase} \/ (phase \in Opened /\ phase' \in Opened)
    <3>1. phase = "Labels" /\ phase' \in {phase, B!MaybeAwake("Ready", addresses, presenting)}
      BY <2>3 DEF B!Labelled
    <3> QED
      BY <2>1, <3>1 DEF Opened
  <2>4. ASSUME NEW which \in {"Dashboard", "Tools"}, B!Bound(which)
        PROVE  phase' \in {"Refused", phase} \/ (phase \in Opened /\ phase' \in Opened)
    <3>1. phase' = "Refused" \/ phase' = B!MaybeAwake(phase, addresses', presenting)
      BY <2>4 DEF B!Bound, B!Refuse, B!In
    <3> QED
      BY <2>1, <3>1
  <2>5. ASSUME B!Presenting
        PROVE  phase' \in {"Refused", phase} \/ (phase \in Opened /\ phase' \in Opened)
    BY <2>1, <2>5 DEF B!Presenting
  <2> QED
    BY <2>2, <2>3, <2>4, <2>5
<1> QED
  BY <1>1, <1>2, KeysGo DEF KeysHeld, Opened

\* What is written has the name it had, or one of its own.
LEMMA KeysKept ==
  ASSUME BootHeld, KeysHeld, B!Writes
  PROVE  KeysHeld'
<1>1. UNCHANGED <<environment, runs, phase, left>> /\ phase = "Awake" /\ runs # 0
  BY DEF B!Writes, KeysHeld
<1>2. IsRead(facts, disk.file[B!FilePlace]) /\ IsKey(facts.key, disk.key)
      /\ facts.file.id = disk.file[B!FilePlace].id
  BY <1>1 DEF BootHeld, KeysHeld, Opened
<1>3. PICK secrets \in BOOLEAN :
        facts' = [facts EXCEPT !.file.sealed = facts.key, !.file.secrets = secrets,
                               !.file.id = B!Id, !.file.holds = @ + 1]
  BY DEF B!Writes
<1>4. facts'.key = facts.key /\ facts'.file.sealed = facts.key /\ facts'.file.id = B!Id
  BY <1>3, BootParts DEF Facts, Files
<1>5. B!Id # 0 /\ (disk.file[B!FilePlace].id # 0 => B!Id = disk.file[B!FilePlace].id)
  BY <1>1, <1>2 DEF B!Id
<1>6. disk'.key = disk.key /\ \A p \in B!Places : disk'.file[p] =
                                IF p = B!FilePlace THEN facts'.file ELSE disk.file[p]
  BY BootParts DEF B!Writes
<1>7. B!FilePlace' = B!FilePlace /\ B!FilePlace \in B!Places
  BY <1>1, BootParts DEF B!FilePlace
<1>8. \A k : IsKey(k, disk.key) => IsKey(k, disk'.key)
  BY <1>6 DEF IsKey
<1>9. IsKey(facts.key, disk'.key)
  BY <1>2, <1>4, <1>6 DEF IsKey
<1>10. ASSUME NEW p \in B!Places
       PROVE  /\ disk'.file[p].secrets => IsKey(disk'.file[p].sealed, disk'.key)
              /\ disk'.file[p].holds # 0 => disk'.file[p].id # 0
  <2>1. CASE p = B!FilePlace
    BY <1>2, <1>4, <1>5, <1>6, <2>1 DEF IsKey
  <2>2. CASE p # B!FilePlace
    BY <1>6, <2>2 DEF KeysHeld, IsKey
  <2> QED
    BY <2>1, <2>2
<1>11. B!OneIdentity'
  <2> SUFFICES ASSUME NEW n \in Names, left[n] # 0 PROVE \E p \in B!Places : disk'.file[p].id = left[n]
    BY <1>1 DEF B!OneIdentity
  <2>1. PICK p \in B!Places : disk.file[p].id = left[n]
    BY DEF KeysHeld, B!OneIdentity
  <2>2. disk'.file[p].id = left[n]
    BY <1>4, <1>5, <1>6, <2>1
  <2> QED
    BY <2>2
<1>12. facts'.file.id = disk'.file[B!FilePlace].id
  BY <1>6, <1>7
<1>13. phase' = "Awake" /\ runs' # 0 /\ left' \in [Names -> Nat] /\ IsKey(facts'.key, disk'.key)
  BY <1>1, <1>4, <1>9 DEF KeysHeld
<1> QED
  BY <1>7, <1>10, <1>11, <1>12, <1>13 DEF KeysHeld

LEMMA KeysProvisioned ==
  ASSUME BootHeld, KeysHeld, NEW name \in Names, B!Provisions(name)
  PROVE  KeysHeld'
<1>1. UNCHANGED <<environment, disk, phase, facts, runs>> /\ phase = "Awake" /\ facts.file.holds > 0
      /\ left' = [left EXCEPT ![name] = B!Id]
  BY DEF B!Provisions, B!state
<1>2. IsRead(facts, disk.file[B!FilePlace]) /\ facts.file.id = disk.file[B!FilePlace].id
  BY <1>1 DEF BootHeld, KeysHeld, Opened
<1>3. disk.file[B!FilePlace].id # 0
  <2>1. disk.file[B!FilePlace].holds # 0
    BY <1>1, <1>2 DEF IsRead
  <2> QED
    BY <2>1, BootParts DEF KeysHeld
<1>4. B!Id = disk.file[B!FilePlace].id
  BY <1>2, <1>3 DEF B!Id
<1>5. left' \in [Names -> Nat] /\ \A n \in Names : left'[n] = IF n = name THEN B!Id ELSE left[n]
  <2>1. B!Id \in Nat
    BY <1>4, BootParts DEF Files
  <2> QED
    BY <1>1, <2>1 DEF KeysHeld
<1>6. B!OneIdentity'
  BY <1>1, <1>4, <1>5, BootParts DEF KeysHeld, B!OneIdentity
<1>7. B!FilePlace' = B!FilePlace
  BY <1>1 DEF B!FilePlace
<1> QED
  BY <1>1, <1>5, <1>6, <1>7 DEF KeysHeld, IsKey, Opened

LEMMA KeysThroughout ==
  ASSUME BootHeld, KeysHeld, B!Next
  PROVE  KeysHeld'
<1>1. CASE B!Start
  <2>1. runs' = runs + 1 /\ UNCHANGED <<disk, left>> /\ phase' \in {"Refused", "Runtime"}
    BY <1>1 DEF B!Start, B!In, B!world
  <2>2. runs' # 0
    BY <2>1, BootParts
  <2> QED
    BY <2>1, <2>2 DEF KeysHeld, IsKey, Opened, B!OneIdentity
<1>2. CASE B!Killed
  BY <1>2, KeysWritten DEF B!Killed, B!In
<1>3. CASE B!KeyWritten
  <2>1. UNCHANGED <<environment, left, runs, facts>> /\ phase = "KeyWritten"
        /\ \/ phase' = "Refused" /\ UNCHANGED disk
           \/ phase' = "File" /\ disk' = [disk EXCEPT !.key[B!KeyPlace] = facts.key]
    BY <1>3 DEF B!KeyWritten, B!Refuse, B!AskFile, B!In
  <2>2. disk' = [disk EXCEPT !.key[B!KeyPlace] = facts.key] => ~UNCHANGED disk
    BY <2>1, BootParts DEF KeysHeld
  <2> QED
    BY <2>1, <2>2, KeysWritten
<1> QED
  BY <1>1, <1>2, <1>3, KeysRuntime, KeysRead, KeysFile, KeysDerived, KeysGathered, KeysKept,
     KeysProvisioned DEF B!Next, B!Answers

LEMMA KeysPromise == ASSUME KeysHeld PROVE B!KeyIsKept /\ B!OneIdentity
BY DEF KeysHeld, IsKey, B!KeyIsKept

----------------------------------------------------------------------------
(* Whatever is asked, opened or connected ends once. *)

\* What is asked, opened and connected, each of which ends.
Ending == W!Questions \union Processes \union Sockets
Proc == [stage : {"Unopened", "Alive", "Dead", "Ended"}, handle : BOOLEAN, closing : BOOLEAN,
         sent : Nat, queued : Nat, said : Nat, pipe : Nat]
Sock == [stage : {"Unopened", "Connecting", "Open", "Over"}, handle : BOOLEAN, told : BOOLEAN,
         gone : BOOLEAN, sent : Nat, queued : Nat, said : Nat, unread : Nat]

\* What has ended, by where questions, processes and sockets are.
Final(x, asked, run, open) ==
  \/ x \in W!Questions /\ asked[x] \notin {"Unasked", "Asked", "Started", "Fed", "Headed", "Accepted"}
  \/ x \in Processes /\ run[x].stage = "Ended"
  \/ x \in Sockets /\ open[x].stage = "Over"

HandlesTyped ==
  /\ question = [q \in W!Questions |-> question[q]]
  /\ process \in [Processes -> Proc] /\ socket \in [Sockets -> Sock]
  /\ \A p \in Processes : process[p].stage \in {"Unopened", "Ended"} => process[p].pipe = 0

\* What an end was said of has ended.
EndsHeld ==
  /\ HandlesTyped
  /\ events \in Seq(Heard)
  /\ \A x \in Ending : x \in over => Final(x, question, process, socket)
  /\ \A i \in 1..Len(events) : events[i].of \in Ending /\ W!IsEnd(events[i]) =>
       Final(events[i].of, question, process, socket)
  /\ W!OneEnd

LEMMA EndingApart ==
  /\ W!Questions \intersect Processes = {} /\ W!Questions \intersect Sockets = {}
  /\ Processes \intersect Sockets = {} /\ Ending \intersect Callers = {}
  /\ "File" \notin Ending
<1>1. /\ (W!Questions \union {"File"}) \intersect (Processes \union Sockets \union Callers) = {}
      /\ Processes \intersect (Sockets \union Callers) = {} /\ Sockets \intersect Callers = {}
  BY ServicesAssumption DEF W!WorldAssumption
<1>2. "File" \notin W!Questions
  BY DEF W!Questions
<1> QED
  BY <1>1, <1>2 DEF Ending

LEMMA EndsBegin == ASSUME W!Init PROVE EndsHeld
<1>1. HandlesTyped
  BY DEF W!Init, HandlesTyped, Proc, Sock
<1> QED
  BY <1>1 DEF W!Init, EndsHeld, W!OneEnd

\* What has ended stays so, and only what has not is told of; what is told to
\* have ended has.
LEMMA EndsMove ==
  ASSUME EndsHeld, HandlesTyped', UNCHANGED over,
         \A x \in Ending : Final(x, question, process, socket)
                             => Final(x, question', process', socket'),
         \/ UNCHANGED events
         \/ \E e \in Heard :
              /\ events' = Append(events, e)
              /\ e.of \in Ending => ~Final(e.of, question, process, socket)
              /\ e.of \in Ending /\ W!IsEnd(e) => Final(e.of, question', process', socket')
  PROVE  EndsHeld'
<1>1. \A x \in Ending : x \in over' => Final(x, question', process', socket')
  BY DEF EndsHeld
<1>2. CASE UNCHANGED events
  <2>1. \A i \in 1..Len(events) : events[i].of \in Ending /\ W!IsEnd(events[i]) =>
          Final(events[i].of, question', process', socket')
    BY DEF EndsHeld
  <2>2. W!OneEnd'
    BY <1>2 DEF EndsHeld, W!OneEnd, W!IsEnd
  <2> QED
    BY <1>1, <1>2, <2>1, <2>2 DEF EndsHeld, W!IsEnd
<1>3. ASSUME NEW e \in Heard, events' = Append(events, e),
             e.of \in Ending => ~Final(e.of, question, process, socket),
             e.of \in Ending /\ W!IsEnd(e) => Final(e.of, question', process', socket')
      PROVE  EndsHeld'
  <2>1. events \in Seq(Heard) /\ Len(events) \in Nat
    BY DEF EndsHeld
  <2>2. /\ events' \in Seq(Heard) /\ Len(events') = Len(events) + 1
        /\ events'[Len(events) + 1] = e
        /\ \A i \in 1..Len(events) : events'[i] = events[i]
    BY <1>3, <2>1
  <2>3. \A i \in 1..Len(events') : i \in 1..Len(events) \/ i = Len(events) + 1
    BY <2>1, <2>2
  <2>4. ASSUME NEW i \in 1..Len(events'), events'[i].of \in Ending, W!IsEnd(events'[i])
        PROVE  Final(events'[i].of, question', process', socket')
    <3>1. CASE i \in 1..Len(events)
      <4>1. Final(events[i].of, question, process, socket)
        BY <2>2, <2>4, <3>1 DEF EndsHeld
      <4> QED
        BY <2>2, <2>4, <3>1, <4>1
    <3>2. CASE i = Len(events) + 1
      BY <1>3, <2>2, <2>4, <3>2
    <3> QED
      BY <2>3, <3>1, <3>2
  <2>5. ASSUME NEW x \in Ending, NEW i \in 1..Len(events'), NEW j \in 1..Len(events'),
               events'[i].of = x, events'[j].of = x, i < j
        PROVE  ~W!IsEnd(events'[i])
    <3>1. i \in 1..Len(events) /\ events'[i] = events[i]
      BY <2>1, <2>2, <2>3, <2>5
    <3>2. CASE j \in 1..Len(events)
      BY <2>1, <2>2, <2>5, <3>1, <3>2 DEF EndsHeld, W!OneEnd, Ending
    <3>3. CASE j = Len(events) + 1
      <4>1. x = e.of /\ ~Final(x, question, process, socket)
        BY <1>3, <2>2, <2>5, <3>3
      <4> QED
        BY <2>5, <3>1, <4>1 DEF EndsHeld
    <3> QED
      BY <2>3, <3>2, <3>3
  <2>6. ASSUME NEW x \in Ending, x \in over', NEW i \in 1..Len(events')
        PROVE  events'[i].of # x
    <3>1. CASE i \in 1..Len(events)
      BY <2>1, <2>2, <2>6, <3>1 DEF EndsHeld, W!OneEnd, Ending
    <3>2. CASE i = Len(events) + 1
      BY <1>3, <2>2, <2>6, <3>2 DEF EndsHeld
    <3> QED
      BY <2>3, <3>1, <3>2
  <2>7. W!OneEnd'
    <3>1. DOMAIN events' = 1..Len(events')
      BY <2>2
    <3> QED
      BY <2>5, <2>6, <3>1 DEF W!OneEnd, W!IsEnd, Ending
  <2> QED
    BY <1>1, <2>2, <2>4, <2>7 DEF EndsHeld, W!IsEnd
<1> QED
  BY <1>2, <1>3

\* Whose end the loop has taken is not heard of again.
LEMMA EndsTaken == ASSUME EndsHeld, W!Step PROVE EndsHeld'
<1>1. /\ events # <<>> /\ events' = Tail(events) /\ UNCHANGED <<question, process, socket>>
      /\ over' = IF W!IsEnd(events[1]) THEN over \union {events[1].of} ELSE over
  <2>1. Head(events) = events[1]
    BY DEF W!Step, EndsHeld
  <2> QED
    BY <2>1 DEF W!Step, W!IsEnd
<1>2. events \in Seq(Heard) /\ Len(events) \in Nat /\ Len(events) >= 1 /\ 1 \in 1..Len(events)
  BY <1>1 DEF EndsHeld
<1>3. /\ events' \in Seq(Heard) /\ Len(events') = Len(events) - 1
      /\ \A i \in 1..Len(events') : i + 1 \in 1..Len(events) /\ events'[i] = events[i + 1]
  BY <1>1, <1>2
<1>4. \A x \in Ending : x \in over' => Final(x, question, process, socket)
  BY <1>1, <1>2 DEF EndsHeld
<1>5. \A i \in 1..Len(events') : events'[i].of \in Ending /\ W!IsEnd(events'[i]) =>
        Final(events'[i].of, question, process, socket)
  BY <1>3 DEF EndsHeld
<1>6. ASSUME NEW x \in Ending, NEW i \in 1..Len(events'), NEW j \in 1..Len(events'),
             events'[i].of = x, events'[j].of = x, i < j
      PROVE  ~W!IsEnd(events'[i])
  <2>1. i + 1 < j + 1 /\ i + 1 \in DOMAIN events /\ j + 1 \in DOMAIN events
    BY <1>2, <1>3, <1>6
  <2> QED
    BY <1>3, <1>6, <2>1 DEF EndsHeld, W!OneEnd, Ending
<1>7. ASSUME NEW x \in Ending, x \in over', NEW i \in 1..Len(events')
      PROVE  events'[i].of # x
  <2>1. i + 1 \in DOMAIN events /\ 1 \in DOMAIN events /\ 1 < i + 1 /\ events'[i] = events[i + 1]
    BY <1>2, <1>3
  <2>2. CASE x \in over
    BY <2>1, <2>2 DEF EndsHeld, W!OneEnd, Ending
  <2>3. CASE W!IsEnd(events[1]) /\ x = events[1].of
    BY <2>1, <2>3 DEF EndsHeld, W!OneEnd, Ending
  <2> QED
    BY <1>1, <1>7, <2>2, <2>3
<1>8. W!OneEnd'
  <2>1. DOMAIN events' = 1..Len(events')
    BY <1>3
  <2> QED
    BY <1>6, <1>7, <2>1 DEF W!OneEnd, W!IsEnd, Ending
<1>9. HandlesTyped'
  BY <1>1 DEF EndsHeld, HandlesTyped
<1> QED
  BY <1>1, <1>3, <1>4, <1>5, <1>8, <1>9 DEF EndsHeld, W!IsEnd

\* What is still open when it is told of, and has ended if that is what is told.
LEMMA EndsTold ==
  ASSUME EndsHeld, HandlesTyped', UNCHANGED over, NEW x \in Ending,
         \A y \in Ending \ {x} : Final(y, question, process, socket)
                                 => Final(y, question', process', socket'),
         ~Final(x, question, process, socket),
         NEW k \in {"Answered", "Line", "Ended", "Frame", "Disconnected"}, W!Tell(k, x),
         k \in {"Line", "Frame"} \/ Final(x, question', process', socket')
  PROVE  EndsHeld'
<1> DEFINE e == [kind |-> k, of |-> x]
<1>1. e \in Heard /\ events' = Append(events, e) /\ e.of = x /\ e.kind = k
  BY DEF Heard, Ending, W!Tell
<1>2. W!IsEnd(e) => Final(x, question', process', socket')
  BY <1>1 DEF W!IsEnd
<1> HIDE DEF e
<1> QED
  BY <1>1, <1>2, EndsMove

\* Something else is asked for, or goes on.
LEMMA EndsAside ==
  ASSUME EndsHeld, HandlesTyped', UNCHANGED <<over, events>>,
         \A x \in Ending : Final(x, question, process, socket)
                             => Final(x, question', process', socket')
  PROVE  EndsHeld'
BY EndsMove

LEMMA EndsElsewhere ==
  ASSUME EndsHeld, UNCHANGED <<question, process, socket, over>>,
         NEW x \in Callers \union {"File"}, NEW k \in {"Arrived", "Body", "Written"},
         UNCHANGED events \/ W!Tell(k, x)
  PROVE  EndsHeld'
<1>1. HandlesTyped'
  BY DEF EndsHeld, HandlesTyped
<1>2. CASE UNCHANGED events
  BY <1>1, <1>2, EndsAside
<1>3. CASE W!Tell(k, x)
  <2> DEFINE e == [kind |-> k, of |-> x]
  <2>1. e \in Heard /\ events' = Append(events, e) /\ e.of \notin Ending
    BY <1>3, EndingApart DEF Heard, W!Tell
  <2> HIDE DEF e
  <2> QED
    BY <1>1, <2>1, EndsMove
<1> QED
  BY <1>2, <1>3

Unanswered == {"Unasked", "Asked", "Started", "Fed", "Headed", "Accepted"}

\* A question goes on until it is answered.
LEMMA QuestionsEnd ==
  ASSUME EndsHeld, NEW q \in W!Questions, W!Ask(q) \/ W!Answers(q)
  PROVE  EndsHeld'
<1>1. UNCHANGED <<process, socket, over>>
  BY DEF W!Ask, W!Answers, W!Reads, W!Runs, W!Wakes, W!Binds, W!Requests, W!Probes, W!Derives,
         W!QuestionStep
<1>2. /\ question[q] \in Unanswered
      /\ \/ UNCHANGED events /\ \E to \in Unanswered : question' = [question EXCEPT ![q] = to]
         \/ /\ W!Tell("Answered", q)
            /\ \E to : to \notin Unanswered /\ question' = [question EXCEPT ![q] = to]
  BY DEF W!Ask, W!Answers, W!Reads, W!Runs, W!Wakes, W!Binds, W!Requests, W!Probes, W!Derives,
         W!QuestionStep, W!GoesOn, W!Answered, Unanswered
<1>3. /\ HandlesTyped' /\ ~Final(q, question, process, socket) /\ q \in Ending
      /\ \A x \in Ending \ {q} : Final(x, question, process, socket)
                                   => Final(x, question', process', socket')
  <2>1. PICK to : question' = [question EXCEPT ![q] = to]
    BY <1>2
  <2>2. HandlesTyped'
    BY <1>1, <2>1 DEF EndsHeld, HandlesTyped
  <2>3. \A x \in W!Questions \ {q} : question'[x] = question[x]
    BY <2>1 DEF EndsHeld, HandlesTyped
  <2>4. ~Final(q, question, process, socket) /\ q \in Ending
    BY <1>2, EndingApart DEF Final, Unanswered, Ending
  <2> QED
    BY <1>1, <2>2, <2>3, <2>4 DEF Final
<1>4. CASE UNCHANGED events
  BY <1>1, <1>3, <1>4, EndsAside
<1>5. ASSUME W!Tell("Answered", q), NEW to, to \notin Unanswered, question' = [question EXCEPT ![q] = to]
      PROVE  EndsHeld'
  <2>1. question'[q] = to
    BY <1>5 DEF EndsHeld, HandlesTyped
  <2>2. Final(q, question', process', socket')
    BY <1>5, <2>1 DEF Final, Unanswered
  <2> QED
    BY <1>1, <1>3, <1>5, <2>2, EndsTold
<1> QED
  BY <1>2, <1>4, <1>5

\* One process goes on, or ends.
LEMMA OneProcess ==
  ASSUME EndsHeld, W!ProcessStep, NEW p \in Processes, NEW to \in Proc,
         process' = [process EXCEPT ![p] = to],
         to.stage \in {"Unopened", "Ended"} => to.pipe = 0,
         \/ UNCHANGED events /\ (process[p].stage = "Ended" => to.stage = "Ended")
         \/ W!Tell("Line", p) /\ process[p].stage # "Ended"
         \/ W!Tell("Ended", p) /\ process[p].stage # "Ended" /\ to.stage = "Ended"
  PROVE  EndsHeld'
<1>1. /\ process' \in [Processes -> Proc] /\ process'[p] = to /\ UNCHANGED <<question, socket, over>>
      /\ \A r \in Processes \ {p} : process'[r] = process[r]
  BY DEF EndsHeld, HandlesTyped, W!ProcessStep
<1>2. HandlesTyped'
  BY <1>1 DEF EndsHeld, HandlesTyped
<1>3. \A x \in Ending \ {p} : Final(x, question, process, socket) => Final(x, question', process', socket')
  BY <1>1 DEF Final
<1>4. /\ p \in Ending
      /\ Final(p, question, process, socket) <=> process[p].stage = "Ended"
      /\ Final(p, question', process', socket') <=> to.stage = "Ended"
  BY <1>1, EndingApart DEF Ending, Final
<1>5. CASE UNCHANGED events /\ (process[p].stage = "Ended" => to.stage = "Ended")
  BY <1>1, <1>2, <1>3, <1>4, <1>5, EndsAside
<1>6. CASE W!Tell("Line", p) /\ process[p].stage # "Ended"
  BY <1>1, <1>2, <1>3, <1>4, <1>6, EndsTold
<1>7. CASE W!Tell("Ended", p) /\ process[p].stage # "Ended" /\ to.stage = "Ended"
  BY <1>1, <1>2, <1>3, <1>4, <1>7, EndsTold
<1> QED
  BY <1>5, <1>6, <1>7

LEMMA OneSocket ==
  ASSUME EndsHeld, W!SocketStep, NEW s \in Sockets, NEW to \in Sock,
         socket' = [socket EXCEPT ![s] = to],
         \/ UNCHANGED events /\ (socket[s].stage = "Over" => to.stage = "Over")
         \/ W!Tell("Frame", s) /\ socket[s].stage # "Over"
         \/ W!Tell("Disconnected", s) /\ socket[s].stage # "Over" /\ to.stage = "Over"
  PROVE  EndsHeld'
<1>1. /\ socket' \in [Sockets -> Sock] /\ socket'[s] = to /\ UNCHANGED <<question, process, over>>
      /\ \A r \in Sockets \ {s} : socket'[r] = socket[r]
  BY DEF EndsHeld, HandlesTyped, W!SocketStep
<1>2. HandlesTyped'
  BY <1>1 DEF EndsHeld, HandlesTyped
<1>3. \A x \in Ending \ {s} : Final(x, question, process, socket) => Final(x, question', process', socket')
  BY <1>1 DEF Final
<1>4. /\ s \in Ending
      /\ Final(s, question, process, socket) <=> socket[s].stage = "Over"
      /\ Final(s, question', process', socket') <=> to.stage = "Over"
  BY <1>1, EndingApart DEF Ending, Final
<1>5. CASE UNCHANGED events /\ (socket[s].stage = "Over" => to.stage = "Over")
  BY <1>1, <1>2, <1>3, <1>4, <1>5, EndsAside
<1>6. CASE W!Tell("Frame", s) /\ socket[s].stage # "Over"
  BY <1>1, <1>2, <1>3, <1>4, <1>6, EndsTold
<1>7. CASE W!Tell("Disconnected", s) /\ socket[s].stage # "Over" /\ to.stage = "Over"
  BY <1>1, <1>2, <1>3, <1>4, <1>7, EndsTold
<1> QED
  BY <1>5, <1>6, <1>7

\* A process's tasks say what it says, and then its end.
LEMMA ProcessEnds ==
  ASSUME EndsHeld, NEW p \in Processes,
         \/ W!Open(p) \/ W!Send(p) \/ W!Close(p) \/ W!IsWrittenTo(p)
         \/ W!Says(p) \/ W!Dies(p) \/ W!LineRead(p) \/ W!Ends(p)
  PROVE  EndsHeld'
<1>1. W!ProcessStep
  BY DEF W!Open, W!Send, W!Close, W!IsWrittenTo, W!Says, W!Dies, W!LineRead, W!Ends
<1>2. process[p] \in Proc /\ (process[p].stage \in {"Unopened", "Ended"} => process[p].pipe = 0)
  BY DEF EndsHeld, HandlesTyped
<1>3. CASE W!Open(p) /\ W!Started(p)
  <2> DEFINE to == [process[p] EXCEPT !.stage = "Alive", !.handle = TRUE]
  <2>1. to \in Proc /\ to.stage = "Alive" /\ process[p].stage = "Unopened" /\ UNCHANGED events
    BY <1>2, <1>3 DEF Proc, W!Open, W!Started, W!ProcessAt
  <2>2. process' = [process EXCEPT ![p] = to]
    BY <1>3 DEF W!Started
  <2> HIDE DEF to
  <2> QED
    BY <1>1, <2>1, <2>2, OneProcess
<1>4. CASE W!Open(p) /\ W!CannotStart(p)
  <2> DEFINE to == [process[p] EXCEPT !.stage = "Ended"]
  <2>1. /\ to \in Proc /\ to.stage = "Ended" /\ to.pipe = 0 /\ process[p].stage = "Unopened"
        /\ W!Tell("Ended", p)
    BY <1>2, <1>4 DEF Proc, W!Open, W!CannotStart, W!ProcessAt
  <2>2. process' = [process EXCEPT ![p] = to]
    BY <1>4 DEF W!CannotStart
  <2> HIDE DEF to
  <2> QED
    BY <1>1, <2>1, <2>2, OneProcess
<1>5. CASE W!Send(p)
  <2> DEFINE to == [process[p] EXCEPT !.sent = process[p].sent + 1, !.queued = process[p].queued + 1]
  <2>0. process[p].sent + 1 \in Nat /\ process[p].queued + 1 \in Nat
    BY <1>2 DEF Proc
  <2>1. to \in Proc /\ to.stage = process[p].stage /\ to.pipe = process[p].pipe /\ UNCHANGED events
    BY <1>2, <2>0, <1>5 DEF Proc, W!Send
  <2>2. process' = [process EXCEPT ![p] = to]
    BY <1>5 DEF W!Send
  <2> HIDE DEF to
  <2> QED
    BY <1>1, <1>2, <2>1, <2>2, OneProcess
<1>6. CASE W!Close(p)
  <2> DEFINE to == [process[p] EXCEPT !.handle = FALSE, !.closing = TRUE]
  <2>1. to \in Proc /\ to.stage = process[p].stage /\ to.pipe = process[p].pipe /\ UNCHANGED events
    BY <1>2, <1>6 DEF Proc, W!Close
  <2>2. process' = [process EXCEPT ![p] = to]
    BY <1>6 DEF W!Close
  <2> HIDE DEF to
  <2> QED
    BY <1>1, <1>2, <2>1, <2>2, OneProcess
<1>7. CASE W!IsWrittenTo(p)
  <2> DEFINE to == [process[p] EXCEPT !.queued = process[p].queued - 1]
  <2>1. to \in Proc /\ to.stage = process[p].stage /\ to.pipe = process[p].pipe /\ UNCHANGED events
    BY <1>2, <1>7 DEF Proc, W!IsWrittenTo
  <2>2. process' = [process EXCEPT ![p] = to]
    BY <1>7 DEF W!IsWrittenTo
  <2> HIDE DEF to
  <2> QED
    BY <1>1, <1>2, <2>1, <2>2, OneProcess
<1>8. CASE W!Says(p)
  <2> DEFINE to == [process[p] EXCEPT !.said = process[p].said + 1, !.pipe = process[p].pipe + 1]
  <2>0. process[p].said + 1 \in Nat /\ process[p].pipe + 1 \in Nat
    BY <1>2 DEF Proc
  <2>1. to \in Proc /\ to.stage = "Alive" /\ process[p].stage = "Alive" /\ UNCHANGED events
    BY <1>2, <2>0, <1>8 DEF Proc, W!Says, W!ProcessAt
  <2>2. process' = [process EXCEPT ![p] = to]
    BY <1>8 DEF W!Says
  <2> HIDE DEF to
  <2> QED
    BY <1>1, <2>1, <2>2, OneProcess
<1>9. CASE W!Dies(p)
  <2> DEFINE to == [process[p] EXCEPT !.stage = "Dead"]
  <2>1. to \in Proc /\ to.stage = "Dead" /\ process[p].stage = "Alive" /\ UNCHANGED events
    BY <1>2, <1>9 DEF Proc, W!Dies, W!ProcessAt
  <2>2. process' = [process EXCEPT ![p] = to]
    BY <1>9 DEF W!Dies
  <2> HIDE DEF to
  <2> QED
    BY <1>1, <2>1, <2>2, OneProcess
<1>10. CASE W!LineRead(p)
  <2> DEFINE to == [process[p] EXCEPT !.pipe = process[p].pipe - 1]
  <2>1. /\ to \in Proc /\ to.stage = process[p].stage /\ process[p].stage \notin {"Unopened", "Ended"}
        /\ W!Tell("Line", p)
    BY <1>2, <1>10 DEF Proc, W!LineRead
  <2>2. process' = [process EXCEPT ![p] = to]
    BY <1>10 DEF W!LineRead
  <2> HIDE DEF to
  <2> QED
    BY <1>1, <2>1, <2>2, OneProcess
<1>11. CASE W!Ends(p)
  <2> DEFINE to == [process[p] EXCEPT !.stage = "Ended", !.handle = FALSE]
  <2>1. /\ to \in Proc /\ to.stage = "Ended" /\ to.pipe = 0 /\ process[p].stage = "Dead"
        /\ W!Tell("Ended", p)
    BY <1>2, <1>11 DEF Proc, W!Ends, W!ProcessAt
  <2>2. process' = [process EXCEPT ![p] = to]
    BY <1>11 DEF W!Ends
  <2> HIDE DEF to
  <2> QED
    BY <1>1, <2>1, <2>2, OneProcess
<1> QED
  BY <1>3, <1>4, <1>5, <1>6, <1>7, <1>8, <1>9, <1>10, <1>11 DEF W!Open

\* Nothing is heard of a socket once it is over.
LEMMA SocketEnds ==
  ASSUME EndsHeld, NEW s \in Sockets,
         \/ W!Connect(s) \/ W!Connected(s) \/ W!Transmit(s) \/ W!Disconnect(s)
         \/ W!FarSide(s) \/ W!Hears(s) \/ W!Sends(s) \/ W!Breaks(s) \/ W!LetGo(s)
  PROVE  EndsHeld'
<1>1. W!SocketStep
  BY DEF W!Connect, W!Connected, W!Transmit, W!Disconnect, W!FarSide, W!Hears, W!Sends,
         W!Breaks, W!LetGo
<1>2. socket[s] \in Sock
  BY DEF EndsHeld, HandlesTyped
<1>3. CASE W!SocketOver(s) /\ socket[s].stage \in {"Connecting", "Open"}
  <2> DEFINE to == [socket[s] EXCEPT !.stage = "Over", !.handle = FALSE]
  <2>1. to \in Sock /\ to.stage = "Over" /\ W!Tell("Disconnected", s)
    BY <1>2, <1>3 DEF Sock, W!SocketOver
  <2>2. socket' = [socket EXCEPT ![s] = to]
    BY <1>3 DEF W!SocketOver
  <2> HIDE DEF to
  <2> QED
    BY <1>1, <1>3, <2>1, <2>2, OneSocket
<1>4. CASE W!Connect(s)
  <2> DEFINE to == [socket[s] EXCEPT !.stage = "Connecting"]
  <2>1. to \in Sock /\ socket[s].stage = "Unopened" /\ UNCHANGED events
    BY <1>2, <1>4 DEF Sock, W!Connect, W!SocketAt
  <2>2. socket' = [socket EXCEPT ![s] = to]
    BY <1>4 DEF W!Connect
  <2> HIDE DEF to
  <2> QED
    BY <1>1, <2>1, <2>2, OneSocket
<1>5. CASE W!Connected(s) /\ ~W!SocketOver(s)
  <2> DEFINE to == [socket[s] EXCEPT !.stage = "Open", !.handle = TRUE]
  <2>1. to \in Sock /\ socket[s].stage = "Connecting" /\ UNCHANGED events
    BY <1>2, <1>5 DEF Sock, W!Connected, W!SocketAt
  <2>2. socket' = [socket EXCEPT ![s] = to]
    BY <1>5 DEF W!Connected
  <2> HIDE DEF to
  <2> QED
    BY <1>1, <2>1, <2>2, OneSocket
<1>6. CASE W!Transmit(s)
  <2> DEFINE to == [socket[s] EXCEPT !.sent = socket[s].sent + 1, !.queued = socket[s].queued + 1]
  <2>0. socket[s].sent + 1 \in Nat /\ socket[s].queued + 1 \in Nat
    BY <1>2 DEF Sock
  <2>1. to \in Sock /\ to.stage = socket[s].stage /\ UNCHANGED events
    BY <1>2, <2>0, <1>6 DEF Sock, W!Transmit
  <2>2. socket' = [socket EXCEPT ![s] = to]
    BY <1>6 DEF W!Transmit
  <2> HIDE DEF to
  <2> QED
    BY <1>1, <2>1, <2>2, OneSocket
<1>7. CASE W!Disconnect(s)
  <2> DEFINE to == [socket[s] EXCEPT !.handle = FALSE, !.told = TRUE]
  <2>1. to \in Sock /\ to.stage = socket[s].stage /\ UNCHANGED events
    BY <1>2, <1>7 DEF Sock, W!Disconnect
  <2>2. socket' = [socket EXCEPT ![s] = to]
    BY <1>7 DEF W!Disconnect
  <2> HIDE DEF to
  <2> QED
    BY <1>1, <2>1, <2>2, OneSocket
<1>8. CASE W!FarSide(s)
  <2>1. PICK to \in Sock : to.stage = socket[s].stage /\ socket' = [socket EXCEPT ![s] = to]
    <3>1. CASE socket' = [socket EXCEPT ![s].gone = TRUE]
      <4>1. [socket[s] EXCEPT !.gone = TRUE] \in Sock /\ [socket[s] EXCEPT !.gone = TRUE].stage = socket[s].stage
        BY <1>2 DEF Sock
      <4> QED
        BY <3>1, <4>1
    <3>2. CASE socket' = [socket EXCEPT ![s].said = @ + 1, ![s].unread = @ + 1]
      <4> DEFINE more == [socket[s] EXCEPT !.said = socket[s].said + 1, !.unread = socket[s].unread + 1]
      <4>0. socket[s].said + 1 \in Nat /\ socket[s].unread + 1 \in Nat
        BY <1>2 DEF Sock
      <4>1. more \in Sock /\ more.stage = socket[s].stage
        BY <1>2, <4>0 DEF Sock
      <4>2. socket' = [socket EXCEPT ![s] = more]
        BY <3>2
      <4> HIDE DEF more
      <4> QED
        BY <4>1, <4>2
    <3> QED
      BY <1>8, <3>1, <3>2 DEF W!FarSide
  <2>2. UNCHANGED events
    BY <1>8 DEF W!FarSide
  <2> QED
    BY <1>1, <2>1, <2>2, OneSocket
<1>9. CASE W!Hears(s)
  <2> DEFINE to == [socket[s] EXCEPT !.unread = socket[s].unread - 1]
  <2>1. to \in Sock /\ socket[s].stage = "Open" /\ W!Tell("Frame", s)
    BY <1>2, <1>9 DEF Sock, W!Hears, W!SocketAt
  <2>2. socket' = [socket EXCEPT ![s] = to]
    BY <1>9 DEF W!Hears
  <2> HIDE DEF to
  <2> QED
    BY <1>1, <2>1, <2>2, OneSocket
<1>10. CASE W!Sends(s)
  <2> DEFINE to == [socket[s] EXCEPT !.queued = socket[s].queued - 1]
  <2>1. to \in Sock /\ to.stage = socket[s].stage /\ UNCHANGED events
    BY <1>2, <1>10 DEF Sock, W!Sends
  <2>2. socket' = [socket EXCEPT ![s] = to]
    BY <1>10 DEF W!Sends
  <2> HIDE DEF to
  <2> QED
    BY <1>1, <2>1, <2>2, OneSocket
<1> QED
  BY <1>3, <1>4, <1>5, <1>6, <1>7, <1>8, <1>9, <1>10
     DEF W!Connected, W!Breaks, W!LetGo, W!SocketAt

LEMMA VisitorsEndNothing ==
  ASSUME EndsHeld, NEW v \in Callers,
         \/ W!Arrives(v) \/ W!BodyRead(v) \/ W!Relayed(v) \/ W!Leaves(v)
         \/ \E how \in {"Answered", "Proxied", "Reading"} : W!Answer(v, how)
  PROVE  EndsHeld'
<1>1. W!VisitorStep
  BY DEF W!Arrives, W!BodyRead, W!Relayed, W!Leaves, W!Answer
<1>2. UNCHANGED events \/ W!Tell("Arrived", v) \/ W!Tell("Body", v)
  BY DEF W!Arrives, W!BodyRead, W!Relayed, W!Leaves, W!Answer
<1> QED
  BY <1>1, <1>2, EndsElsewhere DEF W!VisitorStep

LEMMA WritesEndNothing ==
  ASSUME EndsHeld, W!StepDone \/ W!Write \/ W!Performs \/ W!Crash
  PROVE  EndsHeld'
<1>1. UNCHANGED <<question, process, socket, over>>
  BY DEF W!StepDone, W!Write, W!Performs, W!Creates, W!Fills, W!Syncs, W!Renames, W!CannotWrite,
         W!Writes, W!Crash
<1>2. UNCHANGED events \/ W!Tell("Written", "File")
  BY DEF W!StepDone, W!Write, W!Performs, W!Creates, W!Fills, W!Syncs, W!Renames, W!CannotWrite,
         W!Crash
<1> QED
  BY <1>1, <1>2, EndsElsewhere

LEMMA EndsKept == ASSUME EndsHeld, W!Next PROVE EndsHeld'
BY EndsTaken, QuestionsEnd, ProcessEnds, SocketEnds, VisitorsEndNothing, WritesEndNothing DEF W!Next

----------------------------------------------------------------------------
(* Listening. *)

\* Numbers that one is above.
Bounded(X) == X \subseteq Nat /\ \E b \in Nat : \A i \in X : i <= b

LEMMA Lowest ==
  ASSUME NEW X, X \subseteq Nat, X # {}
  PROVE  \E n \in X : \A m \in X : ~(m < n)
<1>1. IsWellFoundedOn(OpToRel(<, Nat), Nat)
  BY NatLessThanWellFounded, Zenon
<1>2. \E x \in X : \A y \in X : ~(<<y, x>> \in OpToRel(<, Nat))
  BY <1>1, WFMin, Zenon
<1> QED
  BY <1>2 DEF OpToRel

LEMMA Highest ==
  ASSUME NEW X, Bounded(X), X # {}
  PROVE  \E n \in X : \A i \in X : i <= n
<1> DEFINE above == {b \in Nat : \A i \in X : i <= b}
<1>1. above \subseteq Nat /\ above # {}
  BY DEF Bounded
<1>2. PICK b \in above : \A m \in above : ~(m < b)
  <2> HIDE DEF above
  <2> QED
    BY <1>1, Lowest
<1>3. X \subseteq Nat /\ b \in Nat /\ \A i \in X : i <= b
  BY <1>2 DEF Bounded
<1>4. CASE b \in X
  BY <1>3, <1>4
<1>5. CASE b \notin X
  <2>1. PICK s \in X : TRUE
    OBVIOUS
  <2>2. b - 1 \in Nat /\ b - 1 < b
    BY <1>3, <1>5, <2>1
  <2>3. \A i \in X : i <= b - 1
    BY <1>3, <1>5
  <2> QED
    BY <1>2, <2>2, <2>3
<1> QED
  BY <1>4, <1>5

LEMMA BoundedTogether ==
  ASSUME NEW X, NEW Y, Bounded(X), Bounded(Y)
  PROVE  Bounded(X \union Y)
<1>1. PICK b \in Nat : \A i \in X : i <= b
  BY DEF Bounded
<1>2. PICK c \in Nat : \A i \in Y : i <= c
  BY DEF Bounded
<1>3. X \subseteq Nat /\ Y \subseteq Nat
  BY DEF Bounded
<1>4. b + c \in Nat /\ \A i \in X \union Y : i <= b + c
  BY <1>1, <1>2, <1>3
<1> QED
  BY <1>3, <1>4 DEF Bounded

LEMMA BoundedWithin ==
  ASSUME NEW X, NEW Y, Bounded(X), Y \subseteq X PROVE Bounded(Y)
BY DEF Bounded

LEMMA BoundedOne == /\ Bounded({}) /\ \A n \in Nat : Bounded({n})
<1>1. Bounded({})
  BY DEF Bounded
<1>2. ASSUME NEW n \in Nat PROVE Bounded({n})
  <2>1. \A i \in {n} : i <= n
    OBVIOUS
  <2> QED
    BY <2>1 DEF Bounded
<1> QED
  BY <1>1, <1>2

\* What is counted from a number up.
LEMMA BoundedOver ==
  ASSUME NEW n \in Nat, NEW X, Bounded(X) PROVE Bounded({n + v : v \in X})
<1>1. PICK b \in Nat : \A i \in X : i <= b
  BY DEF Bounded
<1>2. X \subseteq Nat
  BY DEF Bounded
<1>3. n + b \in Nat /\ \A i \in {n + v : v \in X} : i \in Nat /\ i <= n + b
  BY <1>1, <1>2
<1> QED
  BY <1>3 DEF Bounded

\* A fresh identifier is above all there are.
LEMMA FreshIsAbove ==
  ASSUME NEW Y, Bounded(Y), Bounded(L!Ids)
  PROVE  /\ L!FreshId(Y) \in Nat /\ L!FreshId(Y) # 0
         /\ \A i \in L!Ids \union Y : i < L!FreshId(Y)
<1> DEFINE used == L!Ids \union Y \union {0}
           top  == CHOOSE n \in used : \A i \in used : i <= n
<1>1. Bounded(used) /\ used # {}
  BY BoundedOne, BoundedTogether
<1> HIDE DEF used
<1>2. \E n \in used : \A i \in used : i <= n
  BY <1>1, Highest
<1>3. top \in used /\ \A i \in used : i <= top
  BY <1>2
<1>4. used \subseteq Nat
  BY <1>1 DEF Bounded
<1>5. L!FreshId(Y) = 1 + top
  BY DEF L!FreshId, used
<1> HIDE DEF top
<1> QED
  BY <1>3, <1>4, <1>5 DEF used

\* What is asked for each voice is asked under an identifier of its own, above
\* all there are.
Voices == Teams \union {L!Sole}
Inquiries == [what : {"Introducing", "Locating"}, listening : L!Listenings, team : Voices,
              id : Nat, ear : Ears \union {L!None}]

Introducing(asked, l, ear, X) ==
  /\ asked \subseteq Inquiries /\ Bounded(L!IdsOf(asked))
  /\ \A q \in asked : /\ q.what = "Introducing" /\ q.listening = l /\ q.ear = ear
                      /\ \A i \in X : i < q.id
  /\ \A q, r \in asked : q.id = r.id => q = r

LEMMA VoicesAreNumbers == Voices \subseteq Nat
BY ServicesAssumption DEF L!ListeningAssumption, Voices, L!Sole

LEMMA AskedEach ==
  ASSUME NEW l \in L!Listenings, NEW voices, voices \subseteq Voices, Bounded(voices),
         NEW ear \in Ears \union {L!None}, NEW Y, Bounded(Y), Bounded(L!Ids)
  PROVE  Introducing(L!IntroducingEach(l, voices, ear, Y), l, ear, L!Ids \union Y)
<1> DEFINE n == L!FreshId(Y)
           asked == L!IntroducingEach(l, voices, ear, Y)
           one(v) == [what |-> "Introducing", listening |-> l, team |-> v, id |-> n + v, ear |-> ear]
<1>1. n \in Nat /\ \A i \in L!Ids \union Y : i < n
  BY FreshIsAbove
<1>2. asked = {one(v) : v \in voices}
  BY DEF L!IntroducingEach, L!Introducing
<1>3. voices \subseteq Nat /\ L!Ids \union Y \subseteq Nat
  BY DEF Bounded
<1> HIDE DEF n
<1>4. asked \subseteq Inquiries
  <2>1. \A v \in voices : n + v \in Nat
    BY <1>1, <1>3
  <2> QED
    BY <1>2, <2>1 DEF Inquiries
<1>5. L!IdsOf(asked) = {n + v : v \in voices}
  <2>1. \A v \in voices : one(v).id = n + v
    OBVIOUS
  <2> HIDE DEF one
  <2>2. \A q \in asked : \E v \in voices : q.id = n + v
    BY <1>2, <2>1
  <2>3. \A v \in voices : one(v) \in asked
    BY <1>2
  <2>4. \A v \in voices : \E q \in asked : q.id = n + v
    BY <2>1, <2>3
  <2> QED
    BY <2>2, <2>4 DEF L!IdsOf
<1>6. Bounded(L!IdsOf(asked))
  BY <1>1, <1>5, BoundedOver
<1>7. \A q \in asked : q.what = "Introducing" /\ q.listening = l /\ q.ear = ear
  BY <1>2
<1>8. \A q \in asked : \A i \in L!Ids \union Y : i < q.id
  <2>1. \A v \in voices : \A i \in L!Ids \union Y : i < n + v
    BY <1>1, <1>3
  <2> QED
    BY <1>2, <2>1
<1>9. \A q, r \in asked : q.id = r.id => q = r
  <2>1. \A u, v \in voices : n + u = n + v => u = v
    BY <1>1, <1>3
  <2> QED
    BY <1>2, <2>1
<1> QED
  BY <1>4, <1>6, <1>7, <1>8, <1>9 DEF Introducing

----------------------------------------------------------------------------

Ended == {"Nowhere", "Introducing", "Locating", "Connecting", "Listening", "Waiting"}
Listeners == [ear : Ears \union {L!None}, voices : SUBSET Voices, known : SUBSET Voices,
              at : Ended, on : SUBSET Nat]
Connections == [id : Nat, listening : L!Listenings, ear : Ears \union {L!None}, told : BOOLEAN,
                greeted : BOOLEAN, warned : BOOLEAN]
Retries == [id : Nat, listening : L!Listenings]

ListeningTyped ==
  /\ app \in [ear : Ears \union {L!None}, teams : SUBSET Teams] /\ Bounded(app.teams)
  /\ listeners \in [L!Listenings -> Listeners]
  /\ \A l \in L!Listenings : Bounded(listeners[l].voices)
  /\ questions \subseteq Inquiries /\ sockets \subseteq Connections /\ timers \subseteq Retries
  /\ draining \subseteq {s.id : s \in sockets} /\ Bounded(L!Ids)

\* What is out has an identifier of its own.
Apart(qs, ss, ts) ==
  /\ \A q, r \in qs : q.id = r.id => q = r
  /\ \A s, t \in ss : s.id = t.id => s = t
  /\ \A q \in qs : \A x \in ss \union ts : q.id # x.id

\* What is out for the listener l stands where it has got to: it waits on the
\* question where to connect, or on the socket that is open and not drained, or
\* on the timer, and on no two of them. One that does not listen has told all
\* its sockets to close.
Stands(l, who, qs, ss, ts, dr) ==
  IF who.ear = L!None
  THEN \A s \in ss : s.listening = l => s.told
  ELSE /\ \A q \in qs : q.listening = l /\ q.what = "Locating" =>
            who.at = "Locating" /\ who.on = {q.id} /\ q.ear = who.ear
       /\ \A s \in ss : s.listening = l =>
            /\ ~s.told
            /\ s.id \notin dr => /\ who.at \in {"Connecting", "Listening"} /\ who.on = {s.id}
                                 /\ s.ear = who.ear
       /\ \A t \in ts : t.listening = l => who.at = "Waiting" /\ who.on = {t.id}

AllStand == \A l \in L!Listenings : Stands(l, listeners[l], questions, sockets, timers, draining)

\* An app's stream is one listener's.
OneHolder(ls) ==
  \A l, m \in L!Listenings : ls[l].ear = ls[m].ear /\ ls[l].ear # L!None => l = m

ListeningHeld ==
  ListeningTyped /\ Apart(questions, sockets, timers) /\ AllStand /\ OneHolder(listeners)

LEMMA OneStreamFollows == ListeningHeld => L!OneStream
<1> SUFFICES ASSUME ListeningHeld, NEW ear \in Ears,
                    NEW s \in sockets, s.ear = ear, ~s.told, s.id \notin draining,
                    NEW t \in sockets, t.ear = ear, ~t.told, t.id \notin draining
             PROVE  s = t
  BY DEF L!OneStream
<1>1. /\ s.listening \in L!Listenings /\ t.listening \in L!Listenings
      /\ Stands(s.listening, listeners[s.listening], questions, sockets, timers, draining)
      /\ Stands(t.listening, listeners[t.listening], questions, sockets, timers, draining)
  BY DEF ListeningHeld, ListeningTyped, Connections, AllStand
<1>2. /\ listeners[s.listening].on = {s.id} /\ listeners[s.listening].ear = ear
      /\ listeners[t.listening].on = {t.id} /\ listeners[t.listening].ear = ear
  BY <1>1 DEF Stands
<1>3. ear # L!None
  BY ServicesAssumption DEF L!ListeningAssumption
<1>4. s.listening = t.listening
  BY <1>1, <1>2, <1>3 DEF ListeningHeld, OneHolder
<1>5. s.id = t.id
  BY <1>2, <1>4
<1> QED
  BY <1>5 DEF ListeningHeld, Apart

LEMMA ListeningBegins == ASSUME L!Init PROVE ListeningHeld
<1>1. app \in [ear : Ears \union {L!None}, teams : SUBSET Teams] /\ Bounded(app.teams)
  BY BoundedOne DEF L!Init
<1>2. \A l \in L!Listenings : listeners[l] = L!NoListener
  BY DEF L!Init
<1>3. listeners \in [L!Listenings -> Listeners]
  BY DEF L!Init, L!NoListener, Listeners, Ended, L!None
<1>4. \A l \in L!Listenings : Bounded(listeners[l].voices)
  BY <1>2, BoundedOne DEF L!NoListener
<1>5. Bounded(L!Ids)
  <2>1. L!Ids = {}
    BY <1>2 DEF L!Ids, L!Init, L!NoListener
  <2> QED
    BY <2>1, BoundedOne
<1>6. ListeningTyped
  BY <1>1, <1>3, <1>4, <1>5 DEF L!Init, ListeningTyped
<1>7. AllStand /\ OneHolder(listeners)
  BY <1>2 DEF AllStand, Stands, OneHolder, L!NoListener, L!Init
<1> QED
  BY <1>6, <1>7 DEF ListeningHeld, Apart, L!Init

\* There is a bound still, whatever fresh identifiers are taken.
LEMMA StillBounded ==
  ASSUME Bounded(L!Ids), NEW new, Bounded(new),
         \A x \in questions' \union sockets' \union timers' : x.id \in L!Ids \union new,
         \A l \in L!Listenings : listeners'[l].on \subseteq L!Ids \union new
  PROVE  Bounded(L!Ids')
<1>1. L!Ids' \subseteq L!Ids \union new
  <2>1. ASSUME NEW i \in L!Ids' PROVE i \in L!Ids \union new
    <3>1. (\E x \in questions' \union sockets' \union timers' : i = x.id)
          \/ \E l \in L!Listenings : i \in listeners'[l].on
      BY <2>1 DEF L!Ids
    <3> QED
      BY <3>1
  <2> QED
    BY <2>1
<1> QED
  BY <1>1, BoundedTogether, BoundedWithin

LEMMA AreIds ==
  /\ \A x \in questions \union sockets \union timers : x.id \in L!Ids
  /\ \A l \in L!Listenings : listeners[l].on \subseteq L!Ids
BY DEF L!Ids

\* A listener stands where it stood, if nothing more is out for it.
LEMMA StandsStill ==
  ASSUME NEW l, NEW who, NEW whom, NEW qs, NEW ss, NEW ts, NEW dr, NEW rs, NEW us, NEW vs, NEW er,
         Stands(l, who, qs, ss, ts, dr),
         whom.ear = who.ear, whom.at = who.at,
         whom.on = who.on \/ who.at = "Introducing",
         \A q \in rs : q.listening = l /\ q.what = "Locating" => q \in qs,
         \A s \in us : s.listening = l =>
           \E t \in ss : /\ t.listening = l /\ t.id = s.id /\ t.ear = s.ear /\ t.told = s.told
                         /\ (t.id \in dr => s.id \in er),
         \A t \in vs : t.listening = l => t \in ts
  PROVE  Stands(l, whom, rs, us, vs, er)
<1>1. CASE who.ear = L!None
  BY <1>1 DEF Stands
<1>2. CASE who.ear # L!None
  <2>1. \A q \in rs : q.listening = l /\ q.what = "Locating" =>
          whom.at = "Locating" /\ whom.on = {q.id} /\ q.ear = whom.ear
    BY <1>2 DEF Stands
  <2>2. ASSUME NEW s \in us, s.listening = l
        PROVE  /\ ~s.told
               /\ s.id \notin er => /\ whom.at \in {"Connecting", "Listening"} /\ whom.on = {s.id}
                                    /\ s.ear = whom.ear
    <3>1. PICK t \in ss : /\ t.listening = l /\ t.id = s.id /\ t.ear = s.ear /\ t.told = s.told
                          /\ (t.id \in dr => s.id \in er)
      BY <2>2
    <3>2. ~t.told
      BY <1>2, <3>1 DEF Stands
    <3>3. CASE t.id \notin dr
      BY <1>2, <3>1, <3>2, <3>3 DEF Stands
    <3> QED
      BY <3>1, <3>2, <3>3
  <2>3. \A t \in vs : t.listening = l => whom.at = "Waiting" /\ whom.on = {t.id}
    BY <1>2 DEF Stands
  <2> QED
    BY <1>2, <2>1, <2>2, <2>3 DEF Stands
<1> QED
  BY <1>1, <1>2

\* It may begin again from any place, with nothing out that it waited on.
LEMMA StandsAnew ==
  ASSUME NEW l, NEW who, NEW qs, NEW ss, NEW ts, NEW dr,
         who.ear # L!None,
         \A q \in qs : ~(q.listening = l /\ q.what = "Locating"),
         \A s \in ss : s.listening = l => ~s.told /\ s.id \in dr,
         \A t \in ts : t.listening # l
  PROVE  Stands(l, who, qs, ss, ts, dr)
BY DEF Stands

LEMMA SameHolders ==
  ASSUME NEW ls, NEW ms, OneHolder(ls),
         \A l \in L!Listenings : ms[l].ear \in {ls[l].ear, L!None}
  PROVE  OneHolder(ms)
BY DEF OneHolder

\* What is done for one listener leaves the others where they stood.
LEMMA OneMoves ==
  ASSUME ListeningHeld, ListeningTyped', Apart(questions', sockets', timers'),
         NEW l \in L!Listenings,
         \A m \in L!Listenings \ {l} : listeners'[m] = listeners[m],
         \A q \in questions' : q.listening # l /\ q.what = "Locating" => q \in questions,
         \A s \in sockets' : s.listening # l =>
           \E t \in sockets : /\ t.listening = s.listening /\ t.id = s.id /\ t.ear = s.ear
                              /\ t.told = s.told /\ (t.id \in draining => s.id \in draining'),
         \A t \in timers' : t.listening # l => t \in timers,
         listeners'[l].ear \in {listeners[l].ear, L!None},
         Stands(l, listeners'[l], questions', sockets', timers', draining')
  PROVE  ListeningHeld'
<1>1. ASSUME NEW m \in L!Listenings, m # l
      PROVE  Stands(m, listeners'[m], questions', sockets', timers', draining')
  <2>1. Stands(m, listeners[m], questions, sockets, timers, draining) /\ listeners'[m] = listeners[m]
    BY <1>1 DEF ListeningHeld, AllStand
  <2>2. \A q \in questions' : q.listening = m /\ q.what = "Locating" => q \in questions
    BY <1>1
  <2>3. \A s \in sockets' : s.listening = m =>
          \E t \in sockets : /\ t.listening = m /\ t.id = s.id /\ t.ear = s.ear /\ t.told = s.told
                             /\ (t.id \in draining => s.id \in draining')
    BY <1>1
  <2>4. \A t \in timers' : t.listening = m => t \in timers
    BY <1>1
  <2> QED
    BY <2>1, <2>2, <2>3, <2>4, StandsStill
<1>2. OneHolder(listeners')
  BY SameHolders DEF ListeningHeld
<1> QED
  BY <1>1, <1>2 DEF ListeningHeld, AllStand

\* A listener waits to try again, with nothing it waited on left.
LEMMA TriesLater ==
  ASSUME ListeningHeld, NEW l \in L!Listenings, L!IsListener(l), L!TryAgainLater(l),
         UNCHANGED app, questions' \subseteq questions, sockets' \subseteq sockets,
         draining' \subseteq {s.id : s \in sockets'},
         \A s \in sockets' : s.id \in draining => s.id \in draining',
         \A q \in questions' : ~(q.listening = l /\ q.what = "Locating"),
         \A s \in sockets' : s.listening = l => ~s.told /\ s.id \in draining',
         \A t \in timers : t.listening # l
  PROVE  ListeningHeld'
<1> DEFINE n == L!FreshId({})
           timer == [id |-> n, listening |-> l]
<1>1. n \in Nat /\ \A i \in L!Ids : i < n
  BY FreshIsAbove, BoundedOne DEF ListeningHeld, ListeningTyped
<1>2. /\ timers' = timers \union {timer}
      /\ listeners' = [listeners EXCEPT ![l].at = "Waiting", ![l].on = {n}]
  BY DEF L!TryAgainLater
<1>3. timer \in Retries /\ timer.id = n /\ timer.listening = l
  BY <1>1 DEF Retries
<1> HIDE DEF n, timer
<1>4. /\ listeners \in [L!Listenings -> Listeners] /\ questions \subseteq Inquiries
      /\ sockets \subseteq Connections /\ timers \subseteq Retries /\ Bounded(L!Ids)
  BY DEF ListeningHeld, ListeningTyped
<1>5. /\ listeners' \in [L!Listenings -> Listeners]
      /\ \A m \in L!Listenings \ {l} : listeners'[m] = listeners[m]
      /\ listeners'[l].ear = listeners[l].ear /\ listeners'[l].voices = listeners[l].voices
      /\ listeners'[l].at = "Waiting" /\ listeners'[l].on = {n}
  BY <1>1, <1>2, <1>4 DEF Listeners, Ended
<1>6. Bounded(L!Ids')
  <2>1. \A x \in questions' \union sockets' \union timers' : x.id \in L!Ids \union {n}
    BY <1>2, <1>3, AreIds
  <2>2. \A m \in L!Listenings : listeners'[m].on \subseteq L!Ids \union {n}
    BY <1>5, AreIds
  <2> QED
    BY <1>1, <1>4, <2>1, <2>2, BoundedOne, StillBounded
<1>7. ListeningTyped'
  <2>1. \A m \in L!Listenings : Bounded(listeners'[m].voices)
    BY <1>5 DEF ListeningHeld, ListeningTyped
  <2>2. timers' \subseteq Retries
    BY <1>2, <1>3, <1>4
  <2> QED
    BY <1>4, <1>5, <1>6, <2>1, <2>2 DEF ListeningHeld, ListeningTyped
<1>8. Apart(questions', sockets', timers')
  <2>1. \A q \in questions' : q.id < n
    BY <1>1, AreIds
  <2>2. \A q \in questions' : q.id \in Nat
    BY <1>4 DEF Inquiries
  <2>3. \A q \in questions' : q.id # n
    BY <1>1, <2>1, <2>2
  <2> QED
    BY <1>2, <1>3, <2>3 DEF ListeningHeld, Apart
<1>9. Stands(l, listeners'[l], questions', sockets', timers', draining')
  BY <1>2, <1>3, <1>5 DEF Stands, L!IsListener
<1> QED
  BY <1>2, <1>3, <1>5, <1>7, <1>8, <1>9, OneMoves

\* Something ends that no listener waits on, or whose listener is no more.
LEMMA NothingMoves ==
  ASSUME ListeningHeld, UNCHANGED <<app, listeners, timers>>,
         questions' \subseteq questions, sockets' \subseteq sockets,
         draining' \subseteq {s.id : s \in sockets'},
         \A s \in sockets' : s.id \in draining => s.id \in draining'
  PROVE  ListeningHeld'
<1>1. Bounded(L!Ids')
  <2>1. \A x \in questions' \union sockets' \union timers' : x.id \in L!Ids \union {}
    BY AreIds
  <2>2. \A m \in L!Listenings : listeners'[m].on \subseteq L!Ids \union {}
    BY AreIds
  <2> QED
    BY <2>1, <2>2, BoundedOne, StillBounded DEF ListeningHeld, ListeningTyped
<1>2. ListeningTyped' /\ Apart(questions', sockets', timers') /\ OneHolder(listeners')
  BY <1>1 DEF ListeningHeld, ListeningTyped, Apart
<1>3. ASSUME NEW m \in L!Listenings
      PROVE  Stands(m, listeners'[m], questions', sockets', timers', draining')
  <2>1. Stands(m, listeners[m], questions, sockets, timers, draining) /\ listeners'[m] = listeners[m]
    BY DEF ListeningHeld, AllStand
  <2>2. \A q \in questions' : q.listening = m /\ q.what = "Locating" => q \in questions
    OBVIOUS
  <2>3. \A s \in sockets' : s.listening = m =>
          \E t \in sockets : /\ t.listening = m /\ t.id = s.id /\ t.ear = s.ear /\ t.told = s.told
                             /\ (t.id \in draining => s.id \in draining')
    OBVIOUS
  <2>4. \A t \in timers' : t.listening = m => t \in timers
    OBVIOUS
  <2> QED
    BY <2>1, <2>2, <2>3, <2>4, StandsStill
<1> QED
  BY <1>2, <1>3 DEF ListeningHeld, AllStand

LEMMA ListeningAssumed ==
  /\ Teams \subseteq Nat \ {0} /\ L!App \notin Projects /\ L!None \notin Ears
BY ServicesAssumption DEF L!ListeningAssumption, L!Sole

\* A question that could not be asked was what its listener waited on.
LEMMA CouldNotListenKeeps ==
  ASSUME ListeningHeld, ~LateFails, NEW q \in questions, L!CouldNotListen(q)
  PROVE  ListeningHeld'
<1>1. /\ questions' = questions \ {q} /\ UNCHANGED <<app, sockets, draining>>
      /\ ~L!IsListener(q.listening) \/ q.id \in listeners[q.listening].on
      /\ IF L!IsListener(q.listening) THEN L!TryAgainLater(q.listening) ELSE UNCHANGED <<listeners, timers>>
  BY DEF L!CouldNotListen, L!bindings
<1>2. q.listening \in L!Listenings /\ draining \subseteq {s.id : s \in sockets}
  BY DEF ListeningHeld, ListeningTyped, Inquiries
<1>3. CASE ~L!IsListener(q.listening)
  BY <1>1, <1>2, <1>3, NothingMoves
<1>4. CASE L!IsListener(q.listening)
  <2> DEFINE l == q.listening
  <2>1. Stands(l, listeners[l], questions, sockets, timers, draining) /\ listeners[l].ear # L!None
    BY <1>2, <1>4 DEF ListeningHeld, AllStand, L!IsListener
  <2>2. /\ q.id \in listeners[l].on
        /\ \A r \in questions : r.id = q.id => r = q
        /\ \A x \in sockets \union timers : x.id # q.id
    BY <1>1, <1>4 DEF ListeningHeld, Apart
  <2>3. \A r \in questions' : ~(r.listening = l /\ r.what = "Locating")
    BY <1>1, <2>1, <2>2 DEF Stands
  <2>4. \A s \in sockets' : s.listening = l => ~s.told /\ s.id \in draining'
    BY <1>1, <2>1, <2>2 DEF Stands
  <2>5. \A t \in timers : t.listening # l
    BY <2>1, <2>2 DEF Stands
  <2> QED
    BY <1>1, <1>2, <1>4, <2>3, <2>4, <2>5, TriesLater
<1> QED
  BY <1>3, <1>4

\* A socket that ended was being drained, or was what its listener waited on.
LEMMA DisconnectedKeeps ==
  ASSUME ListeningHeld, NEW s \in sockets, L!Disconnected(s)
  PROVE  ListeningHeld'
<1>1. /\ sockets' = sockets \ {s} /\ draining' = draining \ {s.id} /\ UNCHANGED <<app, questions>>
      /\ IF s.id \notin draining /\ L!IsListener(s.listening)
         THEN L!TryAgainLater(s.listening) ELSE UNCHANGED <<listeners, timers>>
  BY DEF L!Disconnected, L!bindings
<1>2. s.listening \in L!Listenings /\ \A t \in sockets : t.id = s.id => t = s
  BY DEF ListeningHeld, ListeningTyped, Connections, Apart
<1>3. /\ draining' \subseteq {t.id : t \in sockets'}
      /\ \A t \in sockets' : t.id \in draining => t.id \in draining'
  <2>1. draining \subseteq {t.id : t \in sockets}
    BY DEF ListeningHeld, ListeningTyped
  <2>2. ASSUME NEW i \in draining' PROVE \E t \in sockets' : i = t.id
    <3>1. PICK t \in sockets : i = t.id
      BY <1>1, <2>1, <2>2
    <3> QED
      BY <1>1, <2>2, <3>1
  <2> QED
    BY <1>1, <1>2, <2>2
<1>4. CASE s.id \in draining \/ ~L!IsListener(s.listening)
  BY <1>1, <1>3, <1>4, NothingMoves
<1>5. CASE s.id \notin draining /\ L!IsListener(s.listening)
  <2> DEFINE l == s.listening
  <2>1. Stands(l, listeners[l], questions, sockets, timers, draining) /\ listeners[l].ear # L!None
    BY <1>2, <1>5 DEF ListeningHeld, AllStand, L!IsListener
  <2>2. listeners[l].at \in {"Connecting", "Listening"} /\ listeners[l].on = {s.id}
    BY <1>5, <2>1 DEF Stands
  <2>3. \A q \in questions' : ~(q.listening = l /\ q.what = "Locating")
    BY <1>1, <2>1, <2>2 DEF Stands
  <2>4. \A t \in sockets' : t.listening = l => ~t.told /\ t.id \in draining'
    BY <1>1, <1>2, <1>3, <2>1, <2>2 DEF Stands
  <2>5. \A t \in timers : t.listening # l
    BY <2>1, <2>2 DEF Stands
  <2> QED
    BY <1>1, <1>2, <1>3, <1>5, <2>3, <2>4, <2>5, TriesLater
<1> QED
  BY <1>4, <1>5

\* A listener begins another connection, with nothing it waited on left.
LEMMA BeginsAgain ==
  ASSUME ListeningHeld, NEW l \in L!Listenings, L!IsListener(l), L!Again(l),
         UNCHANGED app, timers' \subseteq timers, sockets' \subseteq Connections,
         \A s \in sockets' : \E t \in sockets : /\ t.listening = s.listening /\ t.id = s.id
                                                /\ t.ear = s.ear /\ t.told = s.told,
         \A s, t \in sockets' : s.id = t.id => s = t,
         draining' \subseteq {s.id : s \in sockets'}, draining \subseteq draining',
         \A q \in questions : ~(q.listening = l /\ q.what = "Locating"),
         \A s \in sockets' : s.listening = l => ~s.told /\ s.id \in draining',
         \A t \in timers' : t.listening # l
  PROVE  ListeningHeld'
<1> DEFINE asked == L!IntroducingEach(l, listeners[l].voices, listeners[l].ear, {})
           ids == L!IdsOf(asked)
<1>1. /\ questions' = questions \union asked
      /\ listeners' = [listeners EXCEPT ![l].at = "Introducing", ![l].on = ids]
  BY DEF L!Again
<1>2. /\ listeners \in [L!Listenings -> Listeners] /\ questions \subseteq Inquiries
      /\ timers \subseteq Retries /\ Bounded(L!Ids) /\ Bounded(listeners[l].voices)
  BY DEF ListeningHeld, ListeningTyped
<1>3. /\ asked \subseteq Inquiries /\ Bounded(ids)
      /\ \A q \in asked : q.what = "Introducing" /\ q.listening = l /\ \A i \in L!Ids : i < q.id
      /\ \A q, r \in asked : q.id = r.id => q = r
  <2>1. listeners[l].voices \subseteq Voices /\ listeners[l].ear \in Ears \union {L!None}
    BY <1>2 DEF Listeners
  <2>2. Introducing(asked, l, listeners[l].ear, L!Ids \union {})
    BY <1>2, <2>1, BoundedOne, AskedEach
  <2> QED
    BY <2>2 DEF Introducing
<1> HIDE DEF asked
<1>4. /\ listeners' \in [L!Listenings -> Listeners]
      /\ \A m \in L!Listenings \ {l} : listeners'[m] = listeners[m]
      /\ listeners'[l].ear = listeners[l].ear /\ listeners'[l].voices = listeners[l].voices
      /\ listeners'[l].on = ids
  <2>1. ids \subseteq Nat
    BY <1>3 DEF Bounded
  <2> HIDE DEF ids
  <2> DEFINE who == [listeners[l] EXCEPT !.at = "Introducing", !.on = ids]
  <2>2. /\ who \in Listeners /\ who.ear = listeners[l].ear /\ who.voices = listeners[l].voices
        /\ who.on = ids
    BY <1>2, <2>1 DEF Listeners, Ended
  <2>3. listeners' = [listeners EXCEPT ![l] = who]
    BY <1>1
  <2> HIDE DEF who
  <2> QED
    BY <1>2, <2>2, <2>3
<1>5. Bounded(L!Ids')
  <2>1. \A x \in questions' \union sockets' \union timers' : x.id \in L!Ids \union ids
    BY <1>1, AreIds DEF L!IdsOf
  <2>2. \A m \in L!Listenings : listeners'[m].on \subseteq L!Ids \union ids
    BY <1>4, AreIds
  <2> QED
    BY <1>2, <1>3, <2>1, <2>2, StillBounded
<1>6. ListeningTyped'
  <2>1. \A m \in L!Listenings : Bounded(listeners'[m].voices)
    BY <1>4 DEF ListeningHeld, ListeningTyped
  <2>2. questions' \subseteq Inquiries
    BY <1>1, <1>2, <1>3
  <2> QED
    BY <1>2, <1>4, <1>5, <2>1, <2>2 DEF ListeningHeld, ListeningTyped
<1>7. Apart(questions', sockets', timers')
  <2>1. \A q \in asked : q.id \in Nat /\ \A x \in questions \union sockets \union timers : x.id < q.id /\ x.id \in Nat
    <3>1. L!Ids \subseteq Nat
      BY <1>2 DEF Bounded
    <3> QED
      BY <1>3, <3>1, AreIds DEF Inquiries
  <2>2. \A q \in asked : \A x \in questions \union sockets \union timers : x.id # q.id
    BY <2>1
  <2>3. \A x \in sockets' \union timers' : \E y \in sockets \union timers : x.id = y.id
    OBVIOUS
  <2>4. \A q, r \in questions' : q.id = r.id => q = r
    BY <1>1, <1>3, <2>2 DEF ListeningHeld, Apart
  <2>5. \A q \in questions' : \A x \in sockets' \union timers' : q.id # x.id
    BY <1>1, <2>2, <2>3 DEF ListeningHeld, Apart
  <2> QED
    BY <2>4, <2>5 DEF Apart
<1>8. Stands(l, listeners'[l], questions', sockets', timers', draining')
  <2>1. \A q \in questions' : ~(q.listening = l /\ q.what = "Locating")
    BY <1>1, <1>3
  <2>2. listeners'[l].ear # L!None
    BY <1>4 DEF L!IsListener
  <2> QED
    BY <2>1, <2>2, StandsAnew
<1>9. \A q \in questions' : q.listening # l /\ q.what = "Locating" => q \in questions
  BY <1>1, <1>3
<1>10. \A s \in sockets' : s.listening # l =>
         \E t \in sockets : /\ t.listening = s.listening /\ t.id = s.id /\ t.ear = s.ear
                            /\ t.told = s.told /\ (t.id \in draining => s.id \in draining')
  OBVIOUS
<1> QED
  BY <1>4, <1>6, <1>7, <1>8, <1>9, <1>10, OneMoves

LEMMA TryAgainKeeps ==
  ASSUME ListeningHeld, NEW t \in timers, L!TryAgain(t)
  PROVE  ListeningHeld'
<1>1. timers' = timers \ {t} /\ L!Again(t.listening) /\ UNCHANGED <<app, sockets, draining>>
  BY DEF L!TryAgain, L!bindings
<1>2. /\ t.listening \in L!Listenings /\ t \in Retries
      /\ sockets \subseteq Connections /\ draining \subseteq {s.id : s \in sockets}
      /\ timers \subseteq Retries
      /\ \A s, u \in sockets : s.id = u.id => s = u
  BY DEF ListeningHeld, ListeningTyped, Retries, Apart
<1>3. CASE ~L!IsListener(t.listening)
  <2>1. UNCHANGED <<listeners, questions>>
    BY <1>1, <1>3 DEF L!Again
  <2>2. \A m \in L!Listenings : listeners'[m].on \subseteq L!Ids \union {}
    BY <2>1, AreIds
  <2>3. \A x \in questions' \union sockets' \union timers' : x.id \in L!Ids \union {}
    BY <1>1, <2>1, AreIds
  <2>4. Bounded(L!Ids')
    BY <2>2, <2>3, BoundedOne, StillBounded DEF ListeningHeld, ListeningTyped
  <2>5. ListeningTyped' /\ Apart(questions', sockets', timers') /\ OneHolder(listeners')
    BY <1>1, <2>1, <2>4 DEF ListeningHeld, ListeningTyped, Apart
  <2>6. AllStand'
    BY <1>1, <2>1 DEF ListeningHeld, AllStand, Stands
  <2> QED
    BY <2>5, <2>6 DEF ListeningHeld
<1>4. CASE L!IsListener(t.listening)
  <2> DEFINE l == t.listening
  <2>1. Stands(l, listeners[l], questions, sockets, timers, draining) /\ listeners[l].ear # L!None
    BY <1>2, <1>4 DEF ListeningHeld, AllStand, L!IsListener
  <2>2. listeners[l].at = "Waiting" /\ listeners[l].on = {t.id}
    BY <2>1 DEF Stands
  <2>3. \A q \in questions : ~(q.listening = l /\ q.what = "Locating")
    BY <2>1, <2>2 DEF Stands
  <2>4. \A s \in sockets' : s.listening = l => ~s.told /\ s.id \in draining'
    BY <1>1, <2>1, <2>2 DEF Stands
  <2>5. ASSUME NEW u \in timers', u.listening = l PROVE FALSE
    <3>1. u \in timers /\ u # t /\ u \in Retries
      BY <1>1, <1>2, <2>5
    <3>2. u.id = t.id
      BY <2>1, <2>2, <2>5, <3>1 DEF Stands
    <3> QED
      BY <1>2, <2>5, <3>1, <3>2 DEF Retries
  <2>6. /\ UNCHANGED app /\ timers' \subseteq timers /\ sockets' \subseteq Connections
        /\ \A s \in sockets' : \E u \in sockets : /\ u.listening = s.listening /\ u.id = s.id
                                                  /\ u.ear = s.ear /\ u.told = s.told
        /\ \A s, u \in sockets' : s.id = u.id => s = u
        /\ draining' \subseteq {s.id : s \in sockets'} /\ draining \subseteq draining'
    BY <1>1, <1>2
  <2> QED
    BY <1>1, <1>2, <1>4, <2>3, <2>4, <2>5, <2>6, BeginsAgain
<1> QED
  BY <1>3, <1>4

\* A listener that is told who it is goes on to where it is to connect.
LEMMA IntroducedKeeps ==
  ASSUME ListeningHeld, NEW q \in questions, L!Introduced(q)
  PROVE  ListeningHeld'
<1> DEFINE l == q.listening
           who == listeners[l]
           known == who.known \union ({q.team} \intersect who.voices)
           rest == who.on \ {q.id}
           n == L!FreshId({})
           locating == L!Locating(l, n, who.ear)
<1>1. /\ UNCHANGED <<app, sockets, draining, timers>> /\ q.what = "Introducing"
      /\ IF ~L!IsListener(l)
         THEN questions' = questions \ {q} /\ UNCHANGED listeners
         ELSE IF who.at # "Introducing" \/ rest # {}
         THEN /\ questions' = questions \ {q}
              /\ listeners' = [listeners EXCEPT ![l] =
                   IF who.at = "Introducing" THEN [[who EXCEPT !.known = known] EXCEPT !.on = rest]
                   ELSE [who EXCEPT !.known = known]]
         ELSE /\ questions' = (questions \ {q}) \union {locating}
              /\ listeners' = [listeners EXCEPT ![l] =
                   [[who EXCEPT !.known = known] EXCEPT !.at = "Locating", !.on = {n}]]
  BY DEF L!Introduced, L!bindings, L!Locating
<1>2. /\ listeners \in [L!Listenings -> Listeners] /\ questions \subseteq Inquiries
      /\ sockets \subseteq Connections /\ timers \subseteq Retries /\ Bounded(L!Ids)
      /\ draining \subseteq {s.id : s \in sockets}
      /\ q \in Inquiries /\ l \in L!Listenings /\ who \in Listeners /\ Bounded(who.voices)
  BY DEF ListeningHeld, ListeningTyped, Inquiries
<1>3. Stands(l, who, questions, sockets, timers, draining)
  BY <1>2 DEF ListeningHeld, AllStand
<1>4. CASE ~L!IsListener(l)
  BY <1>1, <1>2, <1>4, NothingMoves
<1>5. /\ known \subseteq Voices /\ rest \subseteq Nat
      /\ n \in Nat /\ \A i \in L!Ids : i < n
  <2>1. known \subseteq Voices /\ rest \subseteq Nat
    BY <1>2 DEF Listeners
  <2> QED
    BY <1>2, <2>1, FreshIsAbove, BoundedOne
<1>6. \A s \in sockets' : s.listening # l =>
        \E t \in sockets : /\ t.listening = s.listening /\ t.id = s.id /\ t.ear = s.ear
                           /\ t.told = s.told /\ (t.id \in draining => s.id \in draining')
  BY <1>1
<1>7. CASE L!IsListener(l) /\ (who.at # "Introducing" \/ rest # {})
  <2>1. PICK whom \in Listeners :
          /\ listeners' = [listeners EXCEPT ![l] = whom]
          /\ whom.ear = who.ear /\ whom.at = who.at /\ whom.voices = who.voices
          /\ (whom.on = who.on \/ who.at = "Introducing") /\ whom.on \subseteq who.on
    <3> DEFINE first == [who EXCEPT !.known = known]
               second == [first EXCEPT !.on = rest]
    <3>0. rest \subseteq who.on
      OBVIOUS
    <3> HIDE DEF known, rest
    <3>1. /\ first \in Listeners /\ first.ear = who.ear /\ first.at = who.at /\ first.voices = who.voices
          /\ first.on = who.on
      BY <1>2, <1>5 DEF Listeners
    <3>2. /\ second \in Listeners /\ second.ear = who.ear /\ second.at = who.at
          /\ second.voices = who.voices /\ second.on = rest
      <4> HIDE DEF first
      <4> QED
        BY <1>5, <3>1 DEF Listeners
    <3>3. \/ listeners' = [listeners EXCEPT ![l] = first]
          \/ who.at = "Introducing" /\ listeners' = [listeners EXCEPT ![l] = second]
      <4>1. CASE who.at = "Introducing"
        BY <1>1, <1>7, <4>1
      <4>2. CASE who.at # "Introducing"
        BY <1>1, <1>7, <4>2
      <4> QED
        BY <4>1, <4>2
    <3> HIDE DEF first, second
    <3> QED
      BY <3>0, <3>1, <3>2, <3>3
  <2>2. questions' = questions \ {q}
    BY <1>1, <1>7
  <2>3. /\ listeners' \in [L!Listenings -> Listeners] /\ listeners'[l] = whom
        /\ \A m \in L!Listenings \ {l} : listeners'[m] = listeners[m]
    BY <1>2, <2>1
  <2>4. Bounded(L!Ids')
    <3>1. \A x \in questions' \union sockets' \union timers' : x.id \in L!Ids \union {}
      BY <1>1, <2>2, AreIds
    <3>2. \A m \in L!Listenings : listeners'[m].on \subseteq L!Ids \union {}
      BY <2>1, <2>3, AreIds
    <3> QED
      BY <1>2, <3>1, <3>2, BoundedOne, StillBounded
  <2>5. ListeningTyped' /\ Apart(questions', sockets', timers')
    <3>1. \A m \in L!Listenings : Bounded(listeners'[m].voices)
      BY <2>1, <2>3 DEF ListeningHeld, ListeningTyped
    <3>2. ListeningTyped'
      BY <1>1, <2>2, <2>3, <2>4, <3>1 DEF ListeningHeld, ListeningTyped
    <3> QED
      BY <1>1, <2>2, <3>2 DEF ListeningHeld, Apart
  <2>6. Stands(l, listeners'[l], questions', sockets', timers', draining')
    <3>1. \A r \in questions' : r.listening = l /\ r.what = "Locating" => r \in questions
      BY <2>2
    <3>2. \A s \in sockets' : s.listening = l =>
            \E t \in sockets : /\ t.listening = l /\ t.id = s.id /\ t.ear = s.ear
                               /\ t.told = s.told /\ (t.id \in draining => s.id \in draining')
      BY <1>1
    <3>3. \A t \in timers' : t.listening = l => t \in timers
      BY <1>1
    <3> QED
      BY <1>3, <2>1, <2>3, <3>1, <3>2, <3>3, StandsStill
  <2> QED
    BY <1>1, <1>2, <1>6, <2>1, <2>2, <2>3, <2>5, <2>6, OneMoves
<1>8. CASE L!IsListener(l) /\ who.at = "Introducing" /\ rest = {}
  <2> DEFINE first == [who EXCEPT !.known = known]
             whom == [first EXCEPT !.at = "Locating", !.on = {n}]
  <2>1. listeners' = [listeners EXCEPT ![l] = whom] /\ questions' = (questions \ {q}) \union {locating}
    BY <1>1, <1>8
  <2>2. /\ whom \in Listeners /\ whom.ear = who.ear /\ whom.voices = who.voices
        /\ whom.at = "Locating" /\ whom.on = {n}
    <3>1. first \in Listeners /\ first.ear = who.ear /\ first.voices = who.voices
      <4> HIDE DEF known
      <4> QED
        BY <1>2, <1>5 DEF Listeners
    <3> HIDE DEF first, n
    <3> QED
      BY <1>5, <3>1 DEF Listeners, Ended
  <2> HIDE DEF whom
  <2>3. /\ locating \in Inquiries /\ locating.id = n /\ locating.listening = l
        /\ locating.what = "Locating" /\ locating.ear = who.ear
    <3> HIDE DEF n
    <3> QED
      BY <1>2, <1>5 DEF L!Locating, Inquiries, Voices, Listeners
  <2> HIDE DEF n, locating
  <2>4. /\ listeners' \in [L!Listenings -> Listeners] /\ listeners'[l] = whom
        /\ \A m \in L!Listenings \ {l} : listeners'[m] = listeners[m]
    BY <1>2, <2>1, <2>2
  <2>5. Bounded(L!Ids')
    <3>1. \A x \in questions' \union sockets' \union timers' : x.id \in L!Ids \union {n}
      BY <1>1, <2>1, <2>3, AreIds
    <3>2. \A m \in L!Listenings : listeners'[m].on \subseteq L!Ids \union {n}
      BY <2>2, <2>4, AreIds
    <3> QED
      BY <1>2, <1>5, <3>1, <3>2, BoundedOne, StillBounded
  <2>6. ListeningTyped'
    <3>1. \A m \in L!Listenings : Bounded(listeners'[m].voices)
      BY <2>2, <2>4 DEF ListeningHeld, ListeningTyped
    <3>2. questions' \subseteq Inquiries
      BY <1>2, <2>1, <2>3
    <3> QED
      BY <1>1, <2>4, <2>5, <3>1, <3>2 DEF ListeningHeld, ListeningTyped
  <2>7. Apart(questions', sockets', timers')
    <3>1. \A x \in questions \union sockets \union timers : x.id \in Nat /\ x.id < n
      BY <1>2, <1>5, AreIds DEF Bounded
    <3>2. \A x \in questions \union sockets \union timers : x.id # n
      BY <1>5, <3>1
    <3> QED
      BY <1>1, <2>1, <2>3, <3>2 DEF ListeningHeld, Apart
  <2>8. Stands(l, listeners'[l], questions', sockets', timers', draining')
    BY <1>1, <1>3, <1>8, <2>1, <2>2, <2>3, <2>4 DEF Stands, L!IsListener
  <2>9. \A r \in questions' : r.listening # l /\ r.what = "Locating" => r \in questions
    BY <2>1, <2>3
  <2> QED
    BY <1>1, <1>2, <1>6, <2>2, <2>4, <2>6, <2>7, <2>8, <2>9, OneMoves
<1> QED
  BY <1>4, <1>7, <1>8

\* It waits on the socket that is opened to where it was told to connect.
LEMMA LocatedKeeps ==
  ASSUME ListeningHeld, NEW q \in questions, L!Located(q)
  PROVE  ListeningHeld'
<1> DEFINE l == q.listening
           n == L!FreshId({})
           socketed == [id |-> n, listening |-> l, ear |-> q.ear, told |-> FALSE,
                        greeted |-> FALSE, warned |-> FALSE]
<1>1. /\ UNCHANGED <<app, draining, timers>> /\ q.what = "Locating" /\ questions' = questions \ {q}
      /\ IF L!IsListener(l)
         THEN /\ sockets' = sockets \union {socketed}
              /\ listeners' = [listeners EXCEPT ![l].at = "Connecting", ![l].on = {n}]
         ELSE UNCHANGED <<sockets, listeners>>
  BY DEF L!Located, L!bindings
<1>2. /\ listeners \in [L!Listenings -> Listeners] /\ questions \subseteq Inquiries
      /\ sockets \subseteq Connections /\ timers \subseteq Retries /\ Bounded(L!Ids)
      /\ draining \subseteq {s.id : s \in sockets}
      /\ q \in Inquiries /\ l \in L!Listenings /\ q.ear \in Ears \union {L!None}
  BY DEF ListeningHeld, ListeningTyped, Inquiries
<1>3. Stands(l, listeners[l], questions, sockets, timers, draining)
  BY <1>2 DEF ListeningHeld, AllStand
<1>4. CASE ~L!IsListener(l)
  BY <1>1, <1>2, <1>4, NothingMoves
<1>5. CASE L!IsListener(l)
  <2>1. n \in Nat /\ \A i \in L!Ids : i < n
    BY <1>2, FreshIsAbove, BoundedOne
  <2> HIDE DEF n
  <2>2. /\ socketed \in Connections /\ socketed.id = n /\ socketed.listening = l
        /\ socketed.ear = q.ear /\ socketed.told = FALSE
    BY <1>2, <2>1 DEF Connections
  <2>3. sockets' = sockets \union {socketed}
    BY <1>1, <1>5
  <2> HIDE DEF socketed
  <2>4. /\ listeners' \in [L!Listenings -> Listeners]
        /\ \A m \in L!Listenings \ {l} : listeners'[m] = listeners[m]
        /\ listeners'[l].ear = listeners[l].ear /\ listeners'[l].voices = listeners[l].voices
        /\ listeners'[l].at = "Connecting" /\ listeners'[l].on = {n}
    BY <1>1, <1>2, <1>5, <2>1 DEF Listeners, Ended
  <2>5. Bounded(L!Ids')
    <3>1. \A x \in questions' \union sockets' \union timers' : x.id \in L!Ids \union {n}
      BY <1>1, <2>2, <2>3, AreIds
    <3>2. \A m \in L!Listenings : listeners'[m].on \subseteq L!Ids \union {n}
      BY <2>4, AreIds
    <3> QED
      BY <1>2, <2>1, <3>1, <3>2, BoundedOne, StillBounded
  <2>6. ListeningTyped'
    <3>1. \A m \in L!Listenings : Bounded(listeners'[m].voices)
      BY <2>4 DEF ListeningHeld, ListeningTyped
    <3>2. sockets' \subseteq Connections /\ draining' \subseteq {s.id : s \in sockets'}
      BY <1>1, <1>2, <2>2, <2>3
    <3> QED
      BY <1>1, <2>4, <2>5, <3>1, <3>2 DEF ListeningHeld, ListeningTyped
  <2>7. \A x \in questions \union sockets \union timers : x.id # n
    <3>1. \A x \in questions \union sockets \union timers : x.id \in Nat /\ x.id < n
      BY <1>2, <2>1, AreIds DEF Bounded
    <3> QED
      BY <2>1, <3>1
  <2>8. Apart(questions', sockets', timers')
    BY <1>1, <2>2, <2>3, <2>7 DEF ListeningHeld, Apart
  <2>9. Stands(l, listeners'[l], questions', sockets', timers', draining')
    <3>1. /\ listeners[l].at = "Locating" /\ listeners[l].on = {q.id} /\ q.ear = listeners[l].ear
      BY <1>1, <1>3, <1>5 DEF Stands, L!IsListener
    <3>2. \A r \in questions' : ~(r.listening = l /\ r.what = "Locating")
      BY <1>1, <1>3, <1>5, <3>1 DEF Stands, L!IsListener, ListeningHeld, Apart
    <3>3. \A s \in sockets : s.listening = l => ~s.told /\ s.id \in draining'
      BY <1>1, <1>3, <1>5, <3>1 DEF Stands, L!IsListener
    <3>4. \A t \in timers' : t.listening # l
      BY <1>1, <1>3, <1>5, <3>1 DEF Stands, L!IsListener
    <3>5. \A s \in sockets' : s.listening = l =>
            /\ ~s.told
            /\ s.id \notin draining' => s.id = n /\ s.ear = listeners'[l].ear
      BY <2>2, <2>3, <2>4, <3>1, <3>3
    <3> QED
      BY <1>5, <2>4, <3>2, <3>4, <3>5 DEF Stands, L!IsListener
  <2>10. \A s \in sockets' : s.listening # l =>
           \E t \in sockets : /\ t.listening = s.listening /\ t.id = s.id /\ t.ear = s.ear
                              /\ t.told = s.told /\ (t.id \in draining => s.id \in draining')
    BY <1>1, <2>2, <2>3
  <2> QED
    BY <1>1, <1>2, <2>4, <2>6, <2>8, <2>9, <2>10, OneMoves
<1> QED
  BY <1>4, <1>5

\* What is known of a socket beside whose it is changes.
LEMMA SocketGoesOn ==
  ASSUME ListeningHeld, NEW s \in sockets, NEW x \in Connections,
         x.id = s.id, x.listening = s.listening, x.ear = s.ear, x.told = s.told,
         sockets' = (sockets \ {s}) \union {x}
  PROVE  /\ sockets' \subseteq Connections
         /\ \A u \in sockets' : \E t \in sockets : /\ t.listening = u.listening /\ t.id = u.id
                                                   /\ t.ear = u.ear /\ t.told = u.told
         /\ \A u, t \in sockets' : u.id = t.id => u = t
         /\ {t.id : t \in sockets} \subseteq {u.id : u \in sockets'}
<1>1. sockets \subseteq Connections /\ \A u, t \in sockets : u.id = t.id => u = t
  BY DEF ListeningHeld, ListeningTyped, Apart
<1>2. ASSUME NEW i \in {t.id : t \in sockets} PROVE i \in {u.id : u \in sockets'}
  <2>1. PICK t \in sockets : i = t.id
    OBVIOUS
  <2>2. CASE t = s
    BY <2>1, <2>2
  <2>3. CASE t # s
    BY <2>1, <2>3
  <2> QED
    BY <2>2, <2>3
<1> QED
  BY <1>1, <1>2

LEMMA GreetedKeeps ==
  ASSUME ListeningHeld, NEW s \in sockets, L!Greeted(s)
  PROVE  ListeningHeld'
<1> DEFINE l == s.listening
           x == [s EXCEPT !.greeted = TRUE]
<1>1. /\ sockets' = (sockets \ {s}) \union {x} /\ UNCHANGED <<app, questions, draining, timers>>
      /\ \/ listeners' = listeners
         \/ listeners[l].at = "Connecting" /\ listeners' = [listeners EXCEPT ![l].at = "Listening"]
  BY DEF L!Greeted, L!bindings
<1>2. /\ s \in Connections /\ l \in L!Listenings /\ listeners \in [L!Listenings -> Listeners]
      /\ draining \subseteq {t.id : t \in sockets} /\ Bounded(L!Ids)
  BY DEF ListeningHeld, ListeningTyped, Connections
<1>3. x \in Connections /\ x.id = s.id /\ x.listening = s.listening /\ x.ear = s.ear /\ x.told = s.told
  BY <1>2 DEF Connections
<1> HIDE DEF x
<1>4. /\ sockets' \subseteq Connections
      /\ \A u \in sockets' : \E t \in sockets : /\ t.listening = u.listening /\ t.id = u.id
                                                /\ t.ear = u.ear /\ t.told = u.told
      /\ \A u, t \in sockets' : u.id = t.id => u = t
      /\ draining' \subseteq {u.id : u \in sockets'}
  BY <1>1, <1>2, <1>3, SocketGoesOn
<1>5. /\ listeners' \in [L!Listenings -> Listeners]
      /\ \A m \in L!Listenings \ {l} : listeners'[m] = listeners[m]
      /\ listeners'[l].ear = listeners[l].ear /\ listeners'[l].on = listeners[l].on
      /\ listeners'[l].voices = listeners[l].voices
      /\ \/ listeners'[l].at = listeners[l].at
         \/ listeners[l].at = "Connecting" /\ listeners'[l].at = "Listening"
  BY <1>1, <1>2 DEF Listeners, Ended
<1>6. ListeningTyped'
  <2>1. \A m \in L!Listenings : Bounded(listeners'[m].voices)
    BY <1>5 DEF ListeningHeld, ListeningTyped
  <2>2. Bounded(L!Ids')
    <3>1. \A y \in questions' \union sockets' \union timers' : y.id \in L!Ids \union {}
      BY <1>1, <1>4, AreIds
    <3>2. \A m \in L!Listenings : listeners'[m].on \subseteq L!Ids \union {}
      BY <1>5, AreIds
    <3> QED
      BY <1>2, <3>1, <3>2, BoundedOne, StillBounded
  <2> QED
    BY <1>1, <1>4, <1>5, <2>1, <2>2 DEF ListeningHeld, ListeningTyped
<1>7. Apart(questions', sockets', timers')
  <2>1. \A q \in questions' : \A y \in sockets' \union timers' : q.id # y.id
    BY <1>1, <1>4 DEF ListeningHeld, Apart
  <2> QED
    BY <1>1, <1>4, <2>1 DEF ListeningHeld, Apart
<1>8. Stands(l, listeners'[l], questions', sockets', timers', draining')
  <2>1. Stands(l, listeners[l], questions, sockets, timers, draining)
    BY <1>2 DEF ListeningHeld, AllStand
  <2>2. Stands(l, listeners[l], questions', sockets', timers', draining')
    <3>1. \A q \in questions' : q.listening = l /\ q.what = "Locating" => q \in questions
      BY <1>1
    <3>2. \A u \in sockets' : u.listening = l =>
            \E t \in sockets : /\ t.listening = l /\ t.id = u.id /\ t.ear = u.ear /\ t.told = u.told
                               /\ (t.id \in draining => u.id \in draining')
      BY <1>1, <1>4
    <3>3. \A t \in timers' : t.listening = l => t \in timers
      BY <1>1
    <3> QED
      BY <2>1, <3>1, <3>2, <3>3, StandsStill
  <2>3. CASE listeners'[l].at = listeners[l].at
    BY <1>5, <2>2, <2>3 DEF Stands
  <2>4. CASE listeners[l].at = "Connecting" /\ listeners'[l].at = "Listening"
    BY <1>5, <2>2, <2>4 DEF Stands
  <2> QED
    BY <1>5, <2>3, <2>4
<1>9. \A u \in sockets' : u.listening # l =>
        \E t \in sockets : /\ t.listening = u.listening /\ t.id = u.id /\ t.ear = u.ear
                           /\ t.told = u.told /\ (t.id \in draining => u.id \in draining')
  BY <1>1, <1>4
<1> QED
  BY <1>1, <1>2, <1>5, <1>6, <1>7, <1>8, <1>9, OneMoves

\* A socket that is to close is replaced, and read until it does.
LEMMA RefreshKeeps ==
  ASSUME ListeningHeld, NEW s \in sockets, L!Refresh(s)
  PROVE  ListeningHeld'
<1> DEFINE l == s.listening
           x == [s EXCEPT !.warned = TRUE]
           replaced == L!Reads(l) /\ listeners[l].at = "Listening" /\ s.id \in listeners[l].on
<1>1. /\ sockets' = (sockets \ {s}) \union {x} /\ UNCHANGED <<app, timers>>
      /\ IF replaced THEN draining' = draining \union {s.id} /\ L!Again(l)
         ELSE UNCHANGED <<draining, listeners, questions>>
  BY DEF L!Refresh, L!bindings
<1>2. /\ s \in Connections /\ l \in L!Listenings /\ listeners \in [L!Listenings -> Listeners]
      /\ draining \subseteq {t.id : t \in sockets} /\ Bounded(L!Ids)
  BY DEF ListeningHeld, ListeningTyped, Connections
<1>3. x \in Connections /\ x.id = s.id /\ x.listening = s.listening /\ x.ear = s.ear /\ x.told = s.told
  BY <1>2 DEF Connections
<1> HIDE DEF x
<1>4. /\ sockets' \subseteq Connections
      /\ \A u \in sockets' : \E t \in sockets : /\ t.listening = u.listening /\ t.id = u.id
                                                /\ t.ear = u.ear /\ t.told = u.told
      /\ \A u, t \in sockets' : u.id = t.id => u = t
      /\ {t.id : t \in sockets} \subseteq {u.id : u \in sockets'}
  BY <1>1, <1>2, <1>3, SocketGoesOn
<1>5. Stands(l, listeners[l], questions, sockets, timers, draining)
  BY <1>2 DEF ListeningHeld, AllStand
<1>6. CASE replaced
  <2>1. L!IsListener(l) /\ listeners[l].ear # L!None /\ listeners[l].at = "Listening"
    BY <1>6 DEF L!Reads, L!IsListener
  <2>2. /\ draining' = draining \union {s.id} /\ L!Again(l)
        /\ draining' \subseteq {u.id : u \in sockets'} /\ draining \subseteq draining'
    BY <1>1, <1>2, <1>4, <1>6
  <2>3. \A q \in questions : ~(q.listening = l /\ q.what = "Locating")
    BY <1>5, <2>1 DEF Stands
  <2>4. \A t \in timers' : t.listening # l
    BY <1>1, <1>5, <2>1 DEF Stands
  <2>5. \A u \in sockets' : u.listening = l => ~u.told /\ u.id \in draining'
    <3>1. ASSUME NEW t \in sockets, t.listening = l PROVE ~t.told /\ t.id \in draining'
      <4>1. ~t.told /\ (t.id \notin draining => listeners[l].on = {t.id})
        BY <1>5, <2>1, <3>1 DEF Stands
      <4> QED
        BY <1>6, <2>2, <4>1
    <3> QED
      BY <1>4, <3>1
  <2> HIDE DEF replaced
  <2> QED
    BY <1>1, <1>2, <1>4, <2>1, <2>2, <2>3, <2>4, <2>5, BeginsAgain
<1>7. CASE ~replaced
  <2>1. UNCHANGED <<draining, listeners, questions>>
    BY <1>1, <1>7
  <2> HIDE DEF replaced
  <2>2. ListeningTyped'
    <3>1. Bounded(L!Ids')
      <4>1. \A y \in questions' \union sockets' \union timers' : y.id \in L!Ids \union {}
        BY <1>1, <1>4, <2>1, AreIds
      <4>2. \A m \in L!Listenings : listeners'[m].on \subseteq L!Ids \union {}
        BY <2>1, AreIds
      <4> QED
        BY <1>2, <4>1, <4>2, BoundedOne, StillBounded
    <3> QED
      BY <1>1, <1>2, <1>4, <2>1, <3>1 DEF ListeningHeld, ListeningTyped
  <2>3. Apart(questions', sockets', timers')
    <3>1. \A q \in questions' : \A y \in sockets' \union timers' : q.id # y.id
      BY <1>1, <1>4, <2>1 DEF ListeningHeld, Apart
    <3> QED
      BY <1>1, <1>4, <2>1, <3>1 DEF ListeningHeld, Apart
  <2>4. Stands(l, listeners'[l], questions', sockets', timers', draining')
    <3>1. \A q \in questions' : q.listening = l /\ q.what = "Locating" => q \in questions
      BY <2>1
    <3>2. \A u \in sockets' : u.listening = l =>
            \E t \in sockets : /\ t.listening = l /\ t.id = u.id /\ t.ear = u.ear /\ t.told = u.told
                               /\ (t.id \in draining => u.id \in draining')
      BY <1>4, <2>1
    <3>3. \A t \in timers' : t.listening = l => t \in timers
      BY <1>1
    <3> QED
      BY <1>5, <2>1, <3>1, <3>2, <3>3, StandsStill
  <2>5. \A u \in sockets' : u.listening # l =>
          \E t \in sockets : /\ t.listening = u.listening /\ t.id = u.id /\ t.ear = u.ear
                             /\ t.told = u.told /\ (t.id \in draining => u.id \in draining')
    BY <1>4, <2>1
  <2> QED
    BY <1>1, <1>2, <2>1, <2>2, <2>3, <2>4, <2>5, OneMoves
<1> QED
  BY <1>6, <1>7

----------------------------------------------------------------------------

\* What a listener leaves open when it stops is told to close.
LEMMA AllTold ==
  ASSUME ListeningHeld, NEW l \in L!Listenings, sockets' = L!ToldToClose({l})
  PROVE  /\ sockets' \subseteq Connections
         /\ \A u \in sockets' : \E t \in sockets : /\ t.listening = u.listening /\ t.id = u.id
                                                   /\ t.ear = u.ear
                                                   /\ u.listening # l => t.told = u.told
         /\ \A u \in sockets' : u.listening = l => u.told
         /\ \A u, t \in sockets' : u.id = t.id => u = t
         /\ draining \subseteq {u.id : u \in sockets'}
<1> DEFINE closed(s) == IF s.listening \in {l} THEN [s EXCEPT !.told = TRUE] ELSE s
<1>1. sockets' = {closed(s) : s \in sockets}
  BY DEF L!ToldToClose
<1>2. /\ sockets \subseteq Connections /\ \A u, t \in sockets : u.id = t.id => u = t
      /\ draining \subseteq {t.id : t \in sockets}
  BY DEF ListeningHeld, ListeningTyped, Apart
<1>3. ASSUME NEW s \in sockets
      PROVE  /\ closed(s) \in Connections /\ closed(s).id = s.id /\ closed(s).listening = s.listening
             /\ closed(s).ear = s.ear /\ (s.listening # l => closed(s).told = s.told)
             /\ (s.listening = l => closed(s).told)
  <2>1. s \in Connections
    BY <1>2
  <2> QED
    BY <2>1 DEF Connections
<1> HIDE DEF closed
<1>4. \A u \in sockets' : \E t \in sockets : u = closed(t)
  BY <1>1
<1>5. \A s \in sockets : closed(s) \in sockets'
  BY <1>1
<1>6. sockets' \subseteq Connections
  BY <1>3, <1>4
<1>7. ASSUME NEW u \in sockets'
      PROVE  \E t \in sockets : /\ t.listening = u.listening /\ t.id = u.id /\ t.ear = u.ear
                                /\ u.listening # l => t.told = u.told
  <2>1. PICK t \in sockets : u = closed(t)
    BY <1>4
  <2> QED
    BY <1>3, <2>1
<1>8. \A u \in sockets' : u.listening = l => u.told
  BY <1>3, <1>4
<1>9. ASSUME NEW u \in sockets', NEW t \in sockets', u.id = t.id PROVE u = t
  <2>1. PICK v \in sockets : u = closed(v)
    BY <1>4
  <2>2. PICK x \in sockets : t = closed(x)
    BY <1>4
  <2>3. v.id = x.id
    BY <1>3, <1>9, <2>1, <2>2
  <2> QED
    BY <1>2, <2>1, <2>2, <2>3
<1>10. ASSUME NEW i \in draining PROVE i \in {u.id : u \in sockets'}
  <2>1. PICK t \in sockets : i = t.id
    BY <1>2
  <2> QED
    BY <1>3, <1>5, <2>1
<1> QED
  BY <1>6, <1>7, <1>8, <1>9, <1>10

LEMMA StopsListening ==
  ASSUME ListeningHeld, NEW l \in L!Listenings,
         app' \in [ear : Ears \union {L!None}, teams : SUBSET Teams], Bounded(app'.teams),
         UNCHANGED <<questions, draining>>, listeners' = L!Stopped(l), timers' \subseteq timers,
         sockets' = L!ToldToClose({l})
  PROVE  ListeningHeld'
<1>1. /\ listeners \in [L!Listenings -> Listeners] /\ questions \subseteq Inquiries
      /\ timers \subseteq Retries /\ Bounded(L!Ids)
  BY DEF ListeningHeld, ListeningTyped
<1>2. /\ sockets' \subseteq Connections
      /\ \A u \in sockets' : \E t \in sockets : /\ t.listening = u.listening /\ t.id = u.id
                                                /\ t.ear = u.ear
                                                /\ u.listening # l => t.told = u.told
      /\ \A u \in sockets' : u.listening = l => u.told
      /\ \A u, t \in sockets' : u.id = t.id => u = t
      /\ draining' \subseteq {u.id : u \in sockets'}
  BY AllTold
<1>3. /\ L!NoListener \in Listeners /\ L!NoListener.on = {} /\ L!NoListener.ear = L!None
      /\ Bounded(L!NoListener.voices)
  BY BoundedOne DEF L!NoListener, Listeners, Ended
<1>4. /\ listeners' \in [L!Listenings -> Listeners] /\ listeners'[l] = L!NoListener
      /\ \A m \in L!Listenings \ {l} : listeners'[m] = listeners[m]
  BY <1>1, <1>3 DEF L!Stopped
<1>5. ListeningTyped'
  <2>1. \A m \in L!Listenings : Bounded(listeners'[m].voices)
    BY <1>3, <1>4 DEF ListeningHeld, ListeningTyped
  <2>2. Bounded(L!Ids')
    <3>1. \A y \in questions' \union sockets' \union timers' : y.id \in L!Ids \union {}
      BY <1>2, AreIds
    <3>2. \A m \in L!Listenings : listeners'[m].on \subseteq L!Ids \union {}
      BY <1>3, <1>4, AreIds
    <3> QED
      BY <1>1, <3>1, <3>2, BoundedOne, StillBounded
  <2> QED
    BY <1>1, <1>2, <1>4, <2>1, <2>2 DEF ListeningTyped
<1>6. Apart(questions', sockets', timers')
  <2>1. \A y \in sockets' \union timers' : \E z \in sockets \union timers : y.id = z.id
    BY <1>2
  <2>2. \A q \in questions : \A z \in sockets \union timers : q.id # z.id
    BY DEF ListeningHeld, Apart
  <2>3. questions' = questions
    OBVIOUS
  <2>4. ASSUME NEW q \in questions, NEW y \in sockets' \union timers' PROVE q.id # y.id
    <3>1. PICK z \in sockets \union timers : y.id = z.id
      BY <2>1
    <3> QED
      BY <2>2, <3>1
  <2> QED
    BY <1>2, <2>3, <2>4 DEF ListeningHeld, Apart
<1>7. Stands(l, listeners'[l], questions', sockets', timers', draining')
  BY <1>2, <1>3, <1>4 DEF Stands
<1>8. \A u \in sockets' : u.listening # l =>
        \E t \in sockets : /\ t.listening = u.listening /\ t.id = u.id /\ t.ear = u.ear
                           /\ t.told = u.told /\ (t.id \in draining => u.id \in draining')
  BY <1>2
<1> QED
  BY <1>3, <1>4, <1>5, <1>6, <1>7, <1>8, OneMoves

LEMMA AppIsListening == L!App \in L!Listenings /\ Projects \subseteq L!Listenings
BY DEF L!Listenings

LEMMA RegisterKeeps ==
  ASSUME ListeningHeld, NEW ear \in Ears, NEW same \in BOOLEAN, L!RegisterChannelApp(ear, same)
  PROVE  ListeningHeld'
<1>1. /\ app' = [ear |-> ear, teams |-> IF same THEN app.teams ELSE {}]
      /\ UNCHANGED <<listeners, questions, sockets, draining, timers>>
  BY DEF L!RegisterChannelApp, L!Moves
<1>2. app' \in [ear : Ears \union {L!None}, teams : SUBSET Teams] /\ Bounded(app'.teams)
  BY <1>1, BoundedOne DEF ListeningHeld, ListeningTyped
<1>3. Bounded(L!Ids')
  <2>1. \A y \in questions' \union sockets' \union timers' : y.id \in L!Ids \union {}
    BY <1>1, AreIds
  <2>2. \A m \in L!Listenings : listeners'[m].on \subseteq L!Ids \union {}
    BY <1>1, AreIds
  <2> QED
    BY <2>1, <2>2, BoundedOne, StillBounded DEF ListeningHeld, ListeningTyped
<1>4. ListeningTyped'
  BY <1>1, <1>2, <1>3 DEF ListeningHeld, ListeningTyped
<1>5. AllStand'
  BY <1>1 DEF ListeningHeld, AllStand
<1> QED
  BY <1>1, <1>4, <1>5 DEF ListeningHeld

LEMMA FewerTimers == ASSUME NEW l PROVE L!TimersWithout(l) \subseteq timers
BY DEF L!TimersWithout

LEMMA ForgetChannelAppKeeps ==
  ASSUME ListeningHeld, L!ForgetChannelApp
  PROVE  ListeningHeld'
<1>1. /\ app' = [ear |-> L!None, teams |-> {}] /\ UNCHANGED <<questions, draining>>
      /\ listeners' = L!Stopped(L!App) /\ timers' = L!TimersWithout(L!App)
      /\ sockets' = L!ToldToClose({L!App})
  BY DEF L!ForgetChannelApp, L!Moves, L!StopApp
<1>2. app' \in [ear : Ears \union {L!None}, teams : SUBSET Teams] /\ Bounded(app'.teams)
  BY <1>1, BoundedOne
<1>3. timers' \subseteq timers
  BY <1>1, FewerTimers
<1>4. L!App \in L!Listenings
  BY AppIsListening
<1> QED
  BY <1>1, <1>2, <1>3, <1>4, StopsListening

LEMMA DroppedKeeps ==
  ASSUME ListeningHeld, NEW team \in Teams, L!WorkspaceDropped(team)
  PROVE  ListeningHeld'
<1> DEFINE l == L!App
           who == listeners[l]
           whom == [[who EXCEPT !.voices = who.voices \ {team}] EXCEPT !.known = who.known \ {team}]
           last == L!IsListener(l) /\ who.voices = {team}
<1>1. /\ app' = [app EXCEPT !.teams = app.teams \ {team}] /\ UNCHANGED <<questions, draining>>
      /\ IF last THEN L!StopApp
         ELSE listeners' = [listeners EXCEPT ![l] = whom] /\ UNCHANGED <<sockets, timers>>
  BY DEF L!WorkspaceDropped, L!Moves
<1>2. /\ listeners \in [L!Listenings -> Listeners] /\ questions \subseteq Inquiries
      /\ timers \subseteq Retries /\ Bounded(L!Ids) /\ l \in L!Listenings /\ who \in Listeners
      /\ Bounded(who.voices)
  BY AppIsListening DEF ListeningHeld, ListeningTyped
<1>3. app' \in [ear : Ears \union {L!None}, teams : SUBSET Teams] /\ Bounded(app'.teams)
  <2>1. app \in [ear : Ears \union {L!None}, teams : SUBSET Teams] /\ Bounded(app.teams)
    BY DEF ListeningHeld, ListeningTyped
  <2>2. Bounded(app.teams \ {team})
    BY <2>1, BoundedWithin
  <2> QED
    BY <1>1, <2>1, <2>2
<1>4. CASE last
  BY <1>1, <1>2, <1>3, <1>4, FewerTimers, StopsListening DEF L!StopApp
<1>5. CASE ~last
  <2>1. listeners' = [listeners EXCEPT ![l] = whom] /\ UNCHANGED <<sockets, timers>>
    BY <1>1, <1>5
  <2>2. /\ whom \in Listeners /\ whom.ear = who.ear /\ whom.at = who.at /\ whom.on = who.on
        /\ whom.voices = who.voices \ {team}
    BY <1>2 DEF Listeners
  <2>3. Bounded(whom.voices)
    BY <1>2, <2>2, BoundedWithin
  <2> HIDE DEF whom, last
  <2>4. /\ listeners' \in [L!Listenings -> Listeners] /\ listeners'[l] = whom
        /\ \A m \in L!Listenings \ {l} : listeners'[m] = listeners[m]
    BY <1>2, <2>1, <2>2
  <2>5. ListeningTyped'
    <3>1. \A m \in L!Listenings : Bounded(listeners'[m].voices)
      BY <2>3, <2>4 DEF ListeningHeld, ListeningTyped
    <3>2. Bounded(L!Ids')
      <4>1. \A y \in questions' \union sockets' \union timers' : y.id \in L!Ids \union {}
        BY <1>1, <2>1, AreIds
      <4>2. \A m \in L!Listenings : listeners'[m].on \subseteq L!Ids \union {}
        BY <2>2, <2>4, AreIds
      <4> QED
        BY <1>2, <4>1, <4>2, BoundedOne, StillBounded
    <3> QED
      BY <1>1, <1>3, <2>1, <2>4, <3>1, <3>2 DEF ListeningHeld, ListeningTyped
  <2>6. Apart(questions', sockets', timers')
    BY <1>1, <2>1 DEF ListeningHeld
  <2>7. Stands(l, listeners'[l], questions', sockets', timers', draining')
    <3>1. Stands(l, who, questions, sockets, timers, draining)
      BY <1>2 DEF ListeningHeld, AllStand
    <3> QED
      BY <1>1, <2>1, <2>2, <2>4, <3>1 DEF Stands
  <2>8. \A u \in sockets' : u.listening # l =>
          \E t \in sockets : /\ t.listening = u.listening /\ t.id = u.id /\ t.ear = u.ear
                             /\ t.told = u.told /\ (t.id \in draining => u.id \in draining')
    BY <1>1, <2>1
  <2>9. listeners'[l].ear = listeners[l].ear
    BY <2>2, <2>4
  <2> HIDE DEF l, who
  <2> QED
    BY <1>1, <1>2, <2>1, <2>4, <2>5, <2>6, <2>7, <2>8, <2>9, OneMoves
<1> QED
  BY <1>4, <1>5

----------------------------------------------------------------------------

\* Who listens with nothing may begin to, with what nobody holds.
Free(ls, l, ear) ==
  ear # L!None /\ ls[l].ear = L!None /\ \A m \in L!Listenings : ls[m].ear # ear

\* What is asked to begin to listen, and by whom.
LEMMA ListensWhereNone ==
  ASSUME NEW ls, NEW l \in L!Listenings, NEW ear \in Ears \union {L!None},
         NEW voices, voices \subseteq Voices, Bounded(voices),
         NEW X, Bounded(X), Bounded(L!Ids), NEW asked, asked = L!Listen(ls, l, ear, voices, X)
  PROVE  /\ Introducing(asked, l, ear, L!Ids \union X)
         /\ asked # {} => Free(ls, l, ear)
<1>1. CASE ear # L!None /\ voices # {} /\ ls[l].ear = L!None /\ L!Holders(ls, ear) = {}
  <2>1. asked = L!IntroducingEach(l, voices, ear, X)
    BY <1>1 DEF L!Listen
  <2>2. Introducing(asked, l, ear, L!Ids \union X)
    BY <2>1, AskedEach
  <2>3. Free(ls, l, ear)
    BY <1>1 DEF L!Holders, Free
  <2> QED
    BY <2>2, <2>3
<1>2. CASE ~(ear # L!None /\ voices # {} /\ ls[l].ear = L!None /\ L!Holders(ls, ear) = {})
  <2>1. asked = {}
    BY <1>2 DEF L!Listen
  <2> QED
    BY <2>1, BoundedOne DEF Introducing, L!IdsOf
<1> QED
  BY <1>1, <1>2

Begins(ms, ls, l, ear, voices, asked) ==
  /\ ms \in [L!Listenings -> Listeners] /\ OneHolder(ms)
  /\ \A m \in L!Listenings : m # l => ms[m] = ls[m]
  /\ asked = {} => ms = ls
  /\ asked # {} => /\ ms[l].ear = ear /\ ms[l].voices = voices
                   /\ ms[l].at = "Introducing" /\ ms[l].on = L!IdsOf(asked)

\* Who begins is one more holder, of what nobody holds.
LEMMA BegunIs ==
  ASSUME NEW ls \in [L!Listenings -> Listeners], NEW l \in L!Listenings,
         NEW ear \in Ears \union {L!None}, NEW voices, voices \subseteq Voices,
         NEW asked, Bounded(L!IdsOf(asked)), asked # {} => Free(ls, l, ear),
         OneHolder(ls), NEW ms, ms = L!Begun(ls, l, ear, voices, asked)
  PROVE  Begins(ms, ls, l, ear, voices, asked)
<1> DEFINE ids == L!IdsOf(asked)
           who == [ear |-> ear, voices |-> voices, known |-> {}, at |-> "Introducing", on |-> ids]
<1>1. CASE asked = {}
  BY <1>1 DEF L!Begun, Begins
<1>2. CASE asked # {}
  <2>1. ids \subseteq Nat
    BY DEF Bounded
  <2>2. ms = [ls EXCEPT ![l] = who]
    BY <1>2 DEF L!Begun
  <2> HIDE DEF ids
  <2>3. /\ who \in Listeners /\ who.ear = ear /\ who.voices = voices /\ who.at = "Introducing"
        /\ who.on = ids
    BY <2>1 DEF Listeners, Ended
  <2> HIDE DEF who
  <2>4. /\ ms \in [L!Listenings -> Listeners] /\ ms[l] = who
        /\ \A m \in L!Listenings : m # l => ms[m] = ls[m]
    BY <2>2, <2>3
  <2>5. OneHolder(ms)
    BY <1>2, <2>3, <2>4 DEF OneHolder, Free
  <2> QED
    BY <1>2, <2>3, <2>4, <2>5 DEF ids, Begins
<1> QED
  BY <1>1, <1>2

LEMMA FreshAreApart ==
  ASSUME ListeningHeld, NEW asked, NEW l, NEW ear, Introducing(asked, l, ear, L!Ids)
  PROVE  /\ \A q \in asked : \A x \in questions \union sockets \union timers : q.id # x.id
         /\ \A q, r \in questions \union asked : q.id = r.id => q = r
<1>1. L!Ids \subseteq Nat
  BY DEF ListeningHeld, ListeningTyped, Bounded
<1>2. \A q \in asked : q.id \in Nat /\ \A i \in L!Ids : i < q.id
  BY DEF Introducing, Inquiries
<1>3. \A q \in asked : \A x \in questions \union sockets \union timers : x.id \in Nat /\ x.id < q.id
  BY <1>1, <1>2, AreIds
<1>4. \A q \in asked : \A x \in questions \union sockets \union timers : q.id # x.id
  BY <1>2, <1>3
<1> QED
  BY <1>4 DEF Introducing, ListeningHeld, Apart

\* A workspace is heard with a voice more, or by the app's first connection.
LEMMA AddedKeeps ==
  ASSUME ListeningHeld, ~Rebinds, NEW team \in Teams, L!WorkspaceAdded(team)
  PROVE  ListeningHeld'
<1> DEFINE l == L!App
           who == listeners[l]
           ear == app.ear
           teams == app.teams \union {team}
           n == L!FreshId({})
           voice == L!Introducing(l, team, n, who.ear)
           asked == L!Listen(listeners, l, ear, teams, {})
           whom == [who EXCEPT !.voices = who.voices \union {team}, !.known = who.known \ {team},
                               !.on = IF who.at = "Introducing" THEN who.on \union {n} ELSE who.on]
<1>1. /\ app' = [app EXCEPT !.teams = teams] /\ UNCHANGED <<draining, sockets, timers>>
      /\ L!IsListener(l) => /\ questions' = questions \union {voice}
                            /\ listeners' = [listeners EXCEPT ![l] = whom]
      /\ ~L!IsListener(l) => /\ questions' = questions \union asked
                             /\ listeners' = L!Begun(listeners, l, ear, teams, asked)
                             /\ L!Quiet(l)
  BY DEF L!WorkspaceAdded, L!Moves, L!Introducing, L!StartsQuietly
<1>2. /\ listeners \in [L!Listenings -> Listeners] /\ questions \subseteq Inquiries
      /\ timers \subseteq Retries /\ Bounded(L!Ids) /\ l \in L!Listenings /\ who \in Listeners
      /\ Bounded(who.voices) /\ ear \in Ears \union {L!None}
  BY AppIsListening DEF ListeningHeld, ListeningTyped
<1>3. /\ app' \in [ear : Ears \union {L!None}, teams : SUBSET Teams] /\ Bounded(app'.teams)
      /\ Bounded(teams) /\ teams \subseteq Voices /\ Bounded({team})
  <2>1. app \in [ear : Ears \union {L!None}, teams : SUBSET Teams] /\ Bounded(app.teams)
    BY DEF ListeningHeld, ListeningTyped
  <2>2. Bounded({team})
    BY ListeningAssumed, BoundedOne
  <2>3. Bounded(teams)
    BY <2>1, <2>2, BoundedTogether
  <2> QED
    BY <1>1, <2>1, <2>2, <2>3 DEF Voices
<1>4. /\ \A u \in sockets' : u.listening # l =>
           \E t \in sockets : /\ t.listening = u.listening /\ t.id = u.id /\ t.ear = u.ear
                              /\ t.told = u.told /\ (t.id \in draining => u.id \in draining')
      /\ \A t \in timers' : t.listening # l => t \in timers
  BY <1>1
<1>5. Stands(l, who, questions, sockets, timers, draining)
  BY <1>2 DEF ListeningHeld, AllStand
<1>6. CASE L!IsListener(l)
  <2>1. n \in Nat /\ \A i \in L!Ids : i < n
    BY <1>2, FreshIsAbove, BoundedOne
  <2> HIDE DEF n
  <2>2. /\ voice \in Inquiries /\ voice.id = n /\ voice.what = "Introducing" /\ voice.listening = l
    BY <1>2, <2>1 DEF L!Introducing, Inquiries, Listeners, Voices
  <2>3. /\ whom \in Listeners /\ whom.ear = who.ear /\ whom.at = who.at
        /\ whom.voices = who.voices \union {team}
    BY <1>2, <2>1 DEF Listeners, Voices
  <2>4. (whom.on = who.on \/ who.at = "Introducing") /\ whom.on \subseteq who.on \union {n}
    <3>1. whom.on = IF who.at = "Introducing" THEN who.on \union {n} ELSE who.on
      BY <1>2 DEF Listeners
    <3> QED
      BY <3>1
  <2>5. listeners' = [listeners EXCEPT ![l] = whom] /\ questions' = questions \union {voice}
    BY <1>1, <1>6
  <2> HIDE DEF whom, voice
  <2>6. /\ listeners' \in [L!Listenings -> Listeners] /\ listeners'[l] = whom
        /\ \A m \in L!Listenings \ {l} : listeners'[m] = listeners[m]
    BY <1>2, <2>3, <2>5
  <2>7. Bounded(whom.voices)
    BY <1>2, <1>3, <2>3, BoundedTogether
  <2>8. Bounded(L!Ids')
    <3>1. \A y \in questions' \union sockets' \union timers' : y.id \in L!Ids \union {n}
      BY <1>1, <2>2, <2>5, AreIds
    <3>2. \A m \in L!Listenings : listeners'[m].on \subseteq L!Ids \union {n}
      BY <2>4, <2>6, AreIds
    <3> QED
      BY <1>2, <2>1, <3>1, <3>2, BoundedOne, StillBounded
  <2>9. ListeningTyped'
    <3>1. \A m \in L!Listenings : Bounded(listeners'[m].voices)
      BY <2>6, <2>7 DEF ListeningHeld, ListeningTyped
    <3>2. questions' \subseteq Inquiries
      BY <1>2, <2>2, <2>5
    <3> QED
      BY <1>1, <1>3, <2>6, <2>8, <3>1, <3>2 DEF ListeningHeld, ListeningTyped
  <2>10. Apart(questions', sockets', timers')
    <3>1. \A x \in questions \union sockets \union timers : x.id \in Nat /\ x.id < n
      BY <1>2, <2>1, AreIds DEF Bounded
    <3>2. \A x \in questions \union sockets \union timers : x.id # n
      BY <2>1, <3>1
    <3> QED
      BY <1>1, <2>2, <2>5, <3>2 DEF ListeningHeld, Apart
  <2>11. Stands(l, listeners'[l], questions', sockets', timers', draining')
    <3>1. \A q \in questions' : q.listening = l /\ q.what = "Locating" => q \in questions
      BY <2>2, <2>5
    <3>2. \A u \in sockets' : u.listening = l =>
            \E t \in sockets : /\ t.listening = l /\ t.id = u.id /\ t.ear = u.ear /\ t.told = u.told
                               /\ (t.id \in draining => u.id \in draining')
      BY <1>1
    <3>3. \A t \in timers' : t.listening = l => t \in timers
      BY <1>1
    <3> QED
      BY <1>5, <2>3, <2>4, <2>6, <3>1, <3>2, <3>3, StandsStill
  <2>12. \A q \in questions' : q.listening # l /\ q.what = "Locating" => q \in questions
    BY <2>2, <2>5
  <2>13. listeners'[l].ear = listeners[l].ear
    BY <2>3, <2>6
  <2> HIDE DEF l, who
  <2> QED
    BY <1>2, <1>4, <2>6, <2>9, <2>10, <2>11, <2>12, <2>13, OneMoves
<1>7. CASE ~L!IsListener(l)
  <2>1. Introducing(asked, l, ear, L!Ids \union {}) /\ (asked # {} => Free(listeners, l, ear))
    <3>1. Bounded({}) /\ Bounded(L!Ids) /\ teams \subseteq Voices /\ Bounded(teams)
      BY <1>2, <1>3, BoundedOne
    <3>2. asked = L!Listen(listeners, l, ear, teams, {})
      OBVIOUS
    <3>3. l \in L!Listenings /\ ear \in Ears \union {L!None}
      BY <1>2
    <3> HIDE DEF l, teams, asked, ear
    <3> QED
      BY <3>1, <3>2, <3>3, ListensWhereNone
  <2>2. /\ questions' = questions \union asked
        /\ listeners' = L!Begun(listeners, l, ear, teams, asked) /\ L!Quiet(l)
    BY <1>1, <1>7
  <2> HIDE DEF asked
  <2>3. Introducing(asked, l, ear, L!Ids) /\ Bounded(L!IdsOf(asked))
    BY <2>1 DEF Introducing
  <2>4. Begins(listeners', listeners, l, ear, teams, asked)
    <3>1. OneHolder(listeners)
      BY DEF ListeningHeld
    <3>2. /\ listeners \in [L!Listenings -> Listeners] /\ l \in L!Listenings
          /\ ear \in Ears \union {L!None} /\ teams \subseteq Voices
      BY <1>2, <1>3
    <3> HIDE DEF teams, l, ear
    <3> QED
      BY <2>1, <2>2, <2>3, <3>1, <3>2, BegunIs
  <2>5. Bounded(L!Ids')
    <3> DEFINE ids == L!IdsOf(asked)
    <3>1. \A y \in questions' \union sockets' \union timers' : y.id \in L!Ids \union ids
      BY <1>1, <2>2, AreIds DEF L!IdsOf
    <3>2. \A m \in L!Listenings : listeners'[m].on \subseteq L!Ids \union ids
      BY <2>4, AreIds DEF Begins
    <3> QED
      BY <1>2, <2>3, <3>1, <3>2, StillBounded
  <2>6. ListeningTyped'
    <3>1. \A m \in L!Listenings : Bounded(listeners'[m].voices)
      BY <1>3, <2>4 DEF ListeningHeld, ListeningTyped, Begins
    <3>2. questions' \subseteq Inquiries
      BY <1>2, <2>2, <2>3 DEF Introducing
    <3> QED
      BY <1>1, <1>3, <2>4, <2>5, <3>1, <3>2 DEF ListeningHeld, ListeningTyped, Begins
  <2>7. Apart(questions', sockets', timers')
    BY <1>1, <2>2, <2>3, FreshAreApart DEF ListeningHeld, Apart
  <2>8. \A q \in questions' : q.what = "Locating" => q \in questions
    BY <2>2, <2>3 DEF Introducing
  <2>9. Stands(l, listeners'[l], questions', sockets', timers', draining')
    BY <1>1, <1>7, <2>1, <2>2, <2>4, <2>8 DEF Stands, L!Quiet, L!IsListener, Begins, Free
  <2>10. ASSUME NEW m \in L!Listenings, m # l
         PROVE  Stands(m, listeners'[m], questions', sockets', timers', draining')
    <3>1. Stands(m, listeners[m], questions, sockets, timers, draining) /\ listeners'[m] = listeners[m]
      BY <2>4, <2>10 DEF ListeningHeld, AllStand, Begins
    <3> QED
      BY <1>1, <2>8, <3>1 DEF Stands
  <2> QED
    BY <2>4, <2>6, <2>7, <2>9, <2>10 DEF ListeningHeld, AllStand, Begins
<1> QED
  BY <1>6, <1>7

\* A project's app is listened with instead: whoever begins does so where
\* nothing is left of an earlier listener.
LEMMA BindKeeps ==
  ASSUME ListeningHeld, ~Rebinds, NEW p \in Projects, NEW tok \in Ears \union {L!None},
         L!Bind(p, tok)
  PROVE  ListeningHeld'
<1> DEFINE a == L!App
           ear == app.ear
           teams == app.teams
           sole == {L!Sole}
           without == L!Stopped(p)
           asked == L!Listen(without, a, ear, teams, {})
           freed == L!Begun(without, a, ear, teams, asked)
           X == L!IdsOf(asked)
           askedOwn == L!Listen(freed, p, tok, sole, X)
<1>1. /\ UNCHANGED <<app, draining>>
      /\ questions' = questions \union asked \union askedOwn
      /\ listeners' = L!Begun(freed, p, tok, sole, askedOwn)
      /\ timers' = L!TimersWithout(p) /\ sockets' = L!ToldToClose({p})
      /\ L!Quiet(p) \/ tok = L!None
      /\ L!IsListener(a) \/ L!Quiet(a)
  BY DEF L!Bind, L!Moves, L!StartsQuietly
<1>2. /\ listeners \in [L!Listenings -> Listeners] /\ questions \subseteq Inquiries
      /\ timers \subseteq Retries /\ Bounded(L!Ids) /\ OneHolder(listeners)
      /\ ear \in Ears \union {L!None} /\ teams \subseteq Voices /\ Bounded(teams)
      /\ app \in [ear : Ears \union {L!None}, teams : SUBSET Teams]
  BY DEF ListeningHeld, ListeningTyped, Voices
<1>3. /\ p \in L!Listenings /\ a \in L!Listenings /\ p # a
      /\ sole \subseteq Voices /\ Bounded(sole) /\ Bounded({})
  <2>1. p \in L!Listenings /\ a \in L!Listenings
    BY AppIsListening
  <2>2. p # a
    BY ServicesAssumption DEF L!ListeningAssumption
  <2>3. sole \subseteq Voices /\ Bounded(sole) /\ Bounded({})
    BY BoundedOne DEF Voices, L!Sole
  <2> QED
    BY <2>1, <2>2, <2>3
<1>4. /\ without \in [L!Listenings -> Listeners] /\ OneHolder(without)
      /\ without[p].ear = L!None /\ without[p].on = {} /\ Bounded(without[p].voices)
      /\ \A m \in L!Listenings : m # p => without[m] = listeners[m]
  <2>1. /\ L!NoListener \in Listeners /\ L!NoListener.on = {} /\ L!NoListener.ear = L!None
        /\ Bounded(L!NoListener.voices)
    BY BoundedOne DEF L!NoListener, Listeners, Ended
  <2>2. /\ without \in [L!Listenings -> Listeners] /\ without[p] = L!NoListener
        /\ \A m \in L!Listenings : m # p => without[m] = listeners[m]
    BY <1>2, <1>3, <2>1 DEF L!Stopped
  <2> HIDE DEF without
  <2>3. \A m \in L!Listenings : without[m].ear \in {listeners[m].ear, L!None}
    BY <2>1, <2>2
  <2>4. OneHolder(without)
    BY <1>2, <2>3, SameHolders
  <2> QED
    BY <2>1, <2>2, <2>4
<1> HIDE DEF without, ear, teams, sole, a
<1>5. Introducing(asked, a, ear, L!Ids \union {}) /\ (asked # {} => Free(without, a, ear))
  <2>1. asked = L!Listen(without, a, ear, teams, {})
    OBVIOUS
  <2> HIDE DEF asked
  <2> QED
    BY <1>2, <1>3, <2>1, ListensWhereNone
<1>6. Begins(freed, without, a, ear, teams, asked)
  <2>1. freed = L!Begun(without, a, ear, teams, asked)
    OBVIOUS
  <2> HIDE DEF freed, asked
  <2>2. Bounded(L!IdsOf(asked))
    BY <1>5 DEF Introducing
  <2> QED
    BY <1>2, <1>3, <1>4, <1>5, <2>1, <2>2, BegunIs
<1> HIDE DEF freed, asked
<1>7. Bounded(X)
  BY <1>5 DEF Introducing
<1>8. Introducing(askedOwn, p, tok, L!Ids \union X) /\ (askedOwn # {} => Free(freed, p, tok))
  <2>1. askedOwn = L!Listen(freed, p, tok, sole, X)
    OBVIOUS
  <2> HIDE DEF askedOwn, X
  <2> QED
    BY <1>2, <1>3, <1>7, <2>1, ListensWhereNone
<1> HIDE DEF askedOwn
<1>9. Begins(listeners', freed, p, tok, sole, askedOwn)
  <2>1. Bounded(L!IdsOf(askedOwn))
    BY <1>8 DEF Introducing
  <2>2. freed \in [L!Listenings -> Listeners] /\ OneHolder(freed)
    BY <1>6 DEF Begins
  <2> QED
    BY <1>1, <1>3, <1>8, <2>1, <2>2, BegunIs
<1>10. Introducing(asked, a, ear, L!Ids) /\ Introducing(askedOwn, p, tok, L!Ids)
  BY <1>5, <1>8 DEF Introducing
<1>11. timers' \subseteq timers
  BY <1>1, FewerTimers
<1>12. /\ sockets' \subseteq Connections
       /\ \A u \in sockets' : \E t \in sockets : /\ t.listening = u.listening /\ t.id = u.id
                                                 /\ t.ear = u.ear
                                                 /\ u.listening # p => t.told = u.told
       /\ \A u \in sockets' : u.listening = p => u.told
       /\ \A u, t \in sockets' : u.id = t.id => u = t
       /\ draining' \subseteq {u.id : u \in sockets'}
  BY <1>1, <1>3, AllTold
<1>13. /\ \A m \in L!Listenings : m # p /\ (m # a \/ asked = {}) => listeners'[m] = listeners[m]
       /\ askedOwn = {} => listeners'[p] = without[p]
  <2>1. \A m \in L!Listenings : m # p => listeners'[m] = freed[m]
    BY <1>9 DEF Begins
  <2>2. \A m \in L!Listenings : m # a \/ asked = {} => freed[m] = without[m]
    BY <1>6 DEF Begins
  <2>3. askedOwn = {} => listeners' = freed
    BY <1>9 DEF Begins
  <2> QED
    BY <1>3, <1>4, <2>1, <2>2, <2>3
<1>14. /\ asked # {} => /\ listeners'[a].ear = ear /\ listeners'[a].voices = teams
                        /\ listeners'[a].on = X /\ ear # L!None /\ L!Quiet(a)
       /\ askedOwn # {} => /\ listeners'[p].ear = tok /\ listeners'[p].voices = sole
                           /\ listeners'[p].on = L!IdsOf(askedOwn) /\ tok # L!None /\ L!Quiet(p)
  <2>1. listeners'[a] = freed[a] /\ without[a] = listeners[a]
    BY <1>3, <1>4, <1>9 DEF Begins
  <2>2. asked # {} => ear # L!None /\ ~L!IsListener(a)
    BY <1>5, <2>1 DEF Free, L!IsListener
  <2>3. asked # {} => /\ freed[a].ear = ear /\ freed[a].voices = teams /\ freed[a].on = X
    BY <1>6 DEF Begins
  <2>4. askedOwn # {} => tok # L!None
    BY <1>8 DEF Free
  <2> QED
    BY <1>1, <1>9, <2>1, <2>2, <2>3, <2>4 DEF Begins
<1> HIDE DEF X
<1>15. Bounded(L!Ids')
  <2> DEFINE Y == L!IdsOf(askedOwn)
             new == X \union Y
  <2>1. Bounded(new)
    <3>1. Bounded(Y)
      BY <1>10 DEF Introducing
    <3> QED
      BY <1>7, <3>1, BoundedTogether
  <2>2. \A y \in questions' : y.id \in L!Ids \union new
    BY <1>1, AreIds DEF L!IdsOf, X
  <2>3. \A y \in sockets' \union timers' : y.id \in L!Ids \union new
    BY <1>11, <1>12, AreIds
  <2>4. ASSUME NEW m \in L!Listenings PROVE listeners'[m].on \subseteq L!Ids \union new
    <3>1. listeners[m].on \subseteq L!Ids
      BY AreIds
    <3>2. CASE m = p
      BY <1>4, <1>13, <1>14, <3>2
    <3>3. CASE m # p
      BY <1>13, <1>14, <3>1, <3>3
    <3> QED
      BY <3>2, <3>3
  <2> HIDE DEF new
  <2> QED
    BY <1>2, <2>1, <2>2, <2>3, <2>4, StillBounded
<1>16. ListeningTyped'
  <2>1. ASSUME NEW m \in L!Listenings PROVE Bounded(listeners'[m].voices)
    <3>1. Bounded(listeners[m].voices)
      BY DEF ListeningHeld, ListeningTyped
    <3>2. CASE m = p
      BY <1>3, <1>4, <1>13, <1>14, <3>2
    <3>3. CASE m # p
      BY <1>2, <1>13, <1>14, <3>1, <3>3
    <3> QED
      BY <3>2, <3>3
  <2>2. questions' \subseteq Inquiries
    BY <1>1, <1>2, <1>10 DEF Introducing
  <2>3. listeners' \in [L!Listenings -> Listeners]
    BY <1>9 DEF Begins
  <2>4. app' = app /\ Bounded(app.teams) /\ timers' \subseteq Retries
    BY <1>1, <1>2, <1>11 DEF ListeningHeld, ListeningTyped
  <2> QED
    BY <1>2, <1>12, <1>15, <2>1, <2>2, <2>3, <2>4 DEF ListeningTyped
<1>17. Apart(questions', sockets', timers')
  <2>1. /\ \A q \in asked : \A x \in questions \union sockets \union timers : q.id # x.id
        /\ \A q, r \in questions \union asked : q.id = r.id => q = r
    BY <1>10, FreshAreApart
  <2>2. /\ \A q \in askedOwn : \A x \in questions \union sockets \union timers : q.id # x.id
        /\ \A q, r \in questions \union askedOwn : q.id = r.id => q = r
    BY <1>10, FreshAreApart
  <2>3. \A q \in asked, r \in askedOwn : q.id # r.id
    <3>1. \A q \in asked, r \in askedOwn : q.id < r.id
      BY <1>8 DEF Introducing, X, L!IdsOf
    <3>2. \A q \in asked : q.id \in Nat
      BY <1>10 DEF Introducing, Inquiries
    <3> QED
      BY <3>1, <3>2
  <2>4. \A y \in sockets' \union timers' : \E x \in sockets \union timers : y.id = x.id
    BY <1>11, <1>12
  <2>5. \A q \in questions : \A x \in sockets \union timers : q.id # x.id
    BY DEF ListeningHeld, Apart
  <2>6. \A q \in questions' : \A y \in sockets' \union timers' : q.id # y.id
    BY <1>1, <2>1, <2>2, <2>4, <2>5
  <2>7. \A q, r \in questions' : q.id = r.id => q = r
    BY <1>1, <2>1, <2>2, <2>3
  <2> QED
    BY <1>12, <2>6, <2>7 DEF Apart
<1>18. \A q \in questions' : q.what = "Locating" => q \in questions
  BY <1>1, <1>10 DEF Introducing
<1>19. ASSUME NEW m \in L!Listenings, m # p, listeners'[m] = listeners[m]
       PROVE  Stands(m, listeners'[m], questions', sockets', timers', draining')
  <2>1. Stands(m, listeners[m], questions, sockets, timers, draining)
    BY DEF ListeningHeld, AllStand
  <2>2. \A q \in questions' : q.listening = m /\ q.what = "Locating" => q \in questions
    BY <1>18
  <2>3. \A u \in sockets' : u.listening = m =>
          \E t \in sockets : /\ t.listening = m /\ t.id = u.id /\ t.ear = u.ear /\ t.told = u.told
                             /\ (t.id \in draining => u.id \in draining')
    <3>1. ASSUME NEW u \in sockets', u.listening = m
          PROVE  \E t \in sockets : /\ t.listening = m /\ t.id = u.id /\ t.ear = u.ear
                                    /\ t.told = u.told /\ (t.id \in draining => u.id \in draining')
      <4>1. PICK t \in sockets : /\ t.listening = u.listening /\ t.id = u.id /\ t.ear = u.ear
                                 /\ u.listening # p => t.told = u.told
        BY <1>12
      <4> QED
        BY <1>1, <1>19, <3>1, <4>1
    <3> QED
      BY <3>1
  <2>4. \A t \in timers' : t.listening = m => t \in timers
    BY <1>11
  <2> QED
    BY <1>19, <2>1, <2>2, <2>3, <2>4, StandsStill
<1>20. ASSUME NEW m \in L!Listenings, L!Quiet(m), listeners'[m].ear # L!None
       PROVE  Stands(m, listeners'[m], questions', sockets', timers', draining')
  BY <1>11, <1>12, <1>18, <1>20 DEF Stands, L!Quiet
<1>21. Stands(p, listeners'[p], questions', sockets', timers', draining')
  <2>1. CASE askedOwn = {}
    BY <1>4, <1>12, <1>13, <2>1 DEF Stands
  <2>2. CASE askedOwn # {}
    BY <1>3, <1>14, <1>20, <2>2
  <2> QED
    BY <2>1, <2>2
<1>22. ASSUME NEW m \in L!Listenings, m # p
       PROVE  Stands(m, listeners'[m], questions', sockets', timers', draining')
  <2>1. CASE m # a \/ asked = {}
    BY <1>13, <1>19, <1>22, <2>1
  <2>2. CASE m = a /\ asked # {}
    BY <1>14, <1>20, <2>2
  <2> QED
    BY <2>1, <2>2
<1> QED
  BY <1>9, <1>16, <1>17, <1>21, <1>22 DEF ListeningHeld, AllStand, Begins

\* Every step keeps every listener where it stands.
LEMMA ListeningKept ==
  ASSUME ~Rebinds, ~LateFails, ListeningHeld, L!Next
  PROVE  ListeningHeld'
<1>1. CASE \E q \in questions : L!CouldNotListen(q)
  BY <1>1, CouldNotListenKeeps
<1>2. CASE L!Answered
  <2>1. PICK q \in questions : L!Introduced(q) \/ L!Located(q)
    BY <1>2 DEF L!Answered
  <2> QED
    BY <2>1, IntroducedKeeps, LocatedKeeps
<1>3. CASE L!Greets
  BY <1>3, GreetedKeeps DEF L!Greets
<1>4. CASE L!Closing
  <2>1. PICK s \in sockets : L!Closes(s)
    BY <1>4 DEF L!Closing
  <2>2. L!Disconnected(s)
    BY <2>1 DEF L!Closes
  <2> QED
    BY <2>2, DisconnectedKeeps
<1>5. CASE L!Tries
  BY <1>5, TryAgainKeeps DEF L!Tries
<1>6. CASE \E s \in sockets : L!Refresh(s) \/ L!Fails(s)
  <2>1. PICK s \in sockets : L!Refresh(s) \/ L!Fails(s)
    BY <1>6
  <2>2. L!Refresh(s) \/ L!Disconnected(s)
    BY <2>1 DEF L!Fails
  <2> QED
    BY <2>2, RefreshKeeps, DisconnectedKeeps
<1>7. CASE \E p \in Projects, tok \in Ears \union {L!None} : L!Bind(p, tok)
  BY <1>7, BindKeeps
<1>8. CASE \E tok \in Ears, same \in BOOLEAN : L!RegisterChannelApp(tok, same)
  BY <1>8, RegisterKeeps
<1>9. CASE L!ForgetChannelApp
  BY <1>9, ForgetChannelAppKeeps
<1>10. CASE \E team \in Teams : L!WorkspaceAdded(team) \/ L!WorkspaceDropped(team)
  <2>1. PICK team \in Teams : L!WorkspaceAdded(team) \/ L!WorkspaceDropped(team)
    BY <1>10
  <2> QED
    BY <2>1, AddedKeeps, DroppedKeeps
<1> QED
  BY <1>1, <1>2, <1>3, <1>4, <1>5, <1>6, <1>7, <1>8, <1>9, <1>10 DEF L!Next

----------------------------------------------------------------------------
(* All of them. *)

\* What the part of this behaviour keeps.
Held ==
  /\ part \in Parts
  /\ part = "Boot" => BootHeld
  /\ part = "Sessions" => S!LinkIsForTheFirst
  /\ part = "Credentials" => CredentialsHeld
  /\ part = "Turns" => TurnsHeld
  /\ part = "World" => FileHeld /\ RequestsHeld
  /\ part = "Calls" => CallsHeld

\* What a step may do to what is on the disk.
Over ==
  /\ part = "Boot" => B!ReadBeforeWritten
  /\ part = "World" => W!FileIsWhole'

LEMMA HeldAtFirst == Init => Held
BY BootBegins, SessionsBegin, CredentialsBegin, TurnsBegin, WorldBegins, CallsBegin
   DEF Init, Held

LEMMA WholeThen == ASSUME FileHeld PROVE W!FileIsWhole
BY DEF FileHeld, W!FileIsWhole

\* Where nothing happens, all is as it was.
LEMMA HeldStill ==
  ASSUME Held, UNCHANGED vars
  PROVE  Held' /\ Over
<1>1. UNCHANGED <<part, boot, signing, credentials, turning, performing, calling>>
  BY DEF vars
<1>2. part = "Boot" => BootHeld' /\ B!ReadBeforeWritten
  BY <1>1, BootStutters DEF Held
<1>3. part = "Sessions" => S!LinkIsForTheFirst'
  BY <1>1 DEF Held, S!LinkIsForTheFirst, signing
<1>4. part = "Credentials" => CredentialsHeld'
  <2>1. TokensTyped => TokensTyped'
    BY <1>1 DEF TokensTyped, credentials
  <2>2. InOnePlace => InOnePlace'
    BY <1>1 DEF InOnePlace, credentials
  <2>3. ForItsReach => ForItsReach'
    BY <1>1 DEF ForItsReach, K!Reached, K!OnInstallation, K!For, credentials
  <2> QED
    BY <2>1, <2>2, <2>3 DEF Held, CredentialsHeld
<1>5. part = "Turns" => TurnsHeld'
  BY <1>1 DEF Held, TurnsHeld, T!WaitsOnABuild, T!ClaimIsCurrent, turning
<1>6. part = "World" => FileHeld' /\ RequestsHeld'
  <2>1. FileHeld => FileHeld'
    BY <1>1 DEF FileHeld, performing
  <2>2. RequestsHeld => RequestsHeld'
    BY <1>1 DEF RequestsHeld, W!IsHeld, performing
  <2> QED
    BY <2>1, <2>2 DEF Held
<1>7. part = "Calls" => CallsHeld'
  BY <1>1, CallsStutter DEF Held
<1>8. UNCHANGED part
  BY <1>1
<1>9. Held'
  BY <1>2, <1>3, <1>4, <1>5, <1>6, <1>7, <1>8 DEF Held
<1> QED
  BY <1>2, <1>8, <1>9, <1>6, WholeThen DEF Over, FileHeld, W!FileIsWhole

\* A step is of one part, and keeps what that part does.
LEMMA HeldNext ==
  ASSUME Held, Next
  PROVE  Held' /\ Over
<1>1. CASE OfBoot /\ B!Next
  BY <1>1, BootKept DEF Held, Over, OfBoot
<1>2. CASE OfSessions /\ S!Next
  BY <1>2, SessionsKept DEF Held, Over, OfSessions
<1>3. CASE OfListening /\ L!Next
  BY <1>3 DEF Held, Over, OfListening
<1>4. CASE OfCredentials /\ K!Next
  BY <1>4, CredentialsKept DEF Held, Over, OfCredentials
<1>5. CASE OfTurns /\ T!Next
  BY <1>5, TurnsKept DEF Held, Over, OfTurns
<1>6. CASE OfWorld /\ W!Next
  BY <1>6, WorldKept DEF Held, Over, OfWorld, FileHeld, W!FileIsWhole
<1>7. CASE OfPage /\ P!Next
  BY <1>7 DEF Held, Over, OfPage
<1>8. CASE OfCalls /\ C!Next
  BY <1>8, CallsKept DEF Held, Over, OfCalls
<1> QED
  BY <1>1, <1>2, <1>3, <1>4, <1>5, <1>6, <1>7, <1>8 DEF Next

\* What each part keeps is kept throughout, whatever the constants.
THEOREM HeldThroughout == Spec => []Held
<1>1. Init => Held
  BY HeldAtFirst
<1>2. Held /\ [Next]_vars => Held'
  BY HeldStill, HeldNext
<1> QED
  BY <1>1, <1>2, PTL DEF Spec

\* Whoever waits is known to what will answer: a wrapper to the minting of its
\* token, a form to its listing, a turn to the build of its image, a visitor to
\* the answer to its request, a call to the write it is answered with.
THEOREM NobodyForgotten == Spec => []NobodyIsForgotten
<1>1. Held => NobodyIsForgotten
  <2>1. Held /\ part = "Credentials" => K!SomethingIsComing
    BY CredentialsAnswer DEF Held
  <2>2. Held /\ part = "Turns" => T!WaitsOnABuild
    BY DEF Held, TurnsHeld
  <2>3. Held /\ part = "World" => W!IsHeld
    BY DEF Held, RequestsHeld
  <2>4. Held /\ part = "Calls" => C!IsHeld
    BY CallsPromise DEF Held
  <2> QED
    BY <2>1, <2>2, <2>3, <2>4 DEF NobodyIsForgotten
<1> QED
  BY <1>1, HeldThroughout, PTL

\* What is kept is withdrawn by what it no longer holds for, where no change
\* of what a project reaches lands while its token is being minted, and "already
\* watching" is not taken for a promise.
THEOREM NothingStale == ~MidMint /\ ~AnyAnswer => (Spec => []NothingIsStale)
<1> SUFFICES ASSUME ~MidMint, ~AnyAnswer PROVE Spec => []NothingIsStale
  OBVIOUS
<1>1. Held => NothingIsStale
  <2>1. Held /\ part = "Credentials" => K!KeptForNow
    BY CredentialsAnswer DEF Held
  <2>2. Held /\ part = "Sessions" => S!LinkIsForTheFirst
    BY DEF Held
  <2>3. Held /\ part = "Turns" => T!ClaimIsCurrent
    BY DEF Held, TurnsHeld
  <2>4. Held /\ part = "Calls" => C!ClaimIsOfItsTurn /\ C!ToldIsKept
    BY CallsPromise DEF Held
  <2> QED
    BY <2>1, <2>2, <2>3, <2>4 DEF NothingIsStale
<1> QED
  BY <1>1, HeldThroughout, PTL

\* What is on the disk is replaced only by what was read of it and changed
\* since, sealed with its own key, and by the whole of it.
THEOREM OverwritesNothing == Spec => NothingOverwritten
<1>1. Held /\ [Next]_vars => Over
  BY HeldStill, HeldNext
<1>2. Over <=> /\ part = "Boot" => B!ReadBeforeWritten
               /\ part = "World" => W!FileIsWhole'
  BY DEF Over
<1> QED
  BY <1>1, <1>2, HeldThroughout, PTL DEF Spec, NothingOverwritten

\* What there is one of, as the part of this behaviour keeps it.
OneHeld ==
  /\ part = "Boot" => KeysHeld
  /\ part = "World" => EndsHeld
  /\ part = "Calls" => WatchedHeld
  /\ part = "Listening" => ListeningHeld

LEMMA OneHeldAtFirst == Init => OneHeld
BY KeysBegin, EndsBegin, WatchedBegins, ListeningBegins DEF Init, OneHeld

LEMMA OneHeldStill ==
  ASSUME OneHeld, UNCHANGED vars
  PROVE  OneHeld'
<1>1. UNCHANGED <<part, boot, listening, performing, calling>>
  BY DEF vars
<1>2. KeysHeld => KeysHeld'
  BY <1>1 DEF KeysHeld, IsKey, B!OneIdentity, B!FilePlace, B!KeyPlace, boot
<1>3. EndsHeld => EndsHeld'
  BY <1>1 DEF EndsHeld, HandlesTyped, W!OneEnd, performing
<1>4. WatchedHeld => WatchedHeld'
  BY <1>1 DEF WatchedHeld, OneWatches, calling
<1>5. ListeningHeld => ListeningHeld'
  <2>1. L!Ids' = L!Ids
    BY <1>1 DEF L!Ids, listening
  <2> QED
    BY <1>1, <2>1 DEF ListeningHeld, ListeningTyped, AllStand, listening
<1> QED
  BY <1>1, <1>2, <1>3, <1>4, <1>5 DEF OneHeld

LEMMA OneHeldNext ==
  ASSUME ~Rebinds, ~LateFails, Held, OneHeld, Next
  PROVE  OneHeld'
<1>1. CASE OfBoot /\ B!Next
  BY <1>1, KeysThroughout DEF Held, OneHeld, OfBoot
<1>2. CASE OfListening /\ L!Next
  BY <1>2, ListeningKept DEF OneHeld, OfListening
<1>3. CASE OfWorld /\ W!Next
  BY <1>3, EndsKept DEF OneHeld, OfWorld
<1>4. CASE OfCalls /\ C!Next
  BY <1>4, WatchedKept DEF Held, OneHeld, OfCalls
<1>5. CASE \/ OfSessions /\ S!Next
           \/ OfCredentials /\ K!Next
           \/ OfTurns /\ T!Next
           \/ OfPage /\ P!Next
  BY <1>5 DEF OneHeld, OfSessions, OfCredentials, OfTurns, OfPage
<1> QED
  BY <1>1, <1>2, <1>3, <1>4, <1>5 DEF Next

\* There is one of what there must be one of: one stream of each app's events,
\* one key for what is sealed, one identity across every start, one end of what
\* is asked or opened, one foreman that watches a room; where nothing is
\* listened with again while something of an earlier listener is left, and no
\* question fails that its connection no longer waits on.
THEOREM OneOfEachAlways == ~Rebinds /\ ~LateFails => (Spec => []OneOfEach)
<1> SUFFICES ASSUME ~Rebinds, ~LateFails PROVE Spec => []OneOfEach
  OBVIOUS
<1>1. Init => OneHeld
  BY OneHeldAtFirst
<1>2. Held /\ OneHeld /\ [Next]_vars => OneHeld'
  BY OneHeldStill, OneHeldNext
<1>3. OneHeld => OneOfEach
  <2>1. OneHeld /\ part = "Boot" => B!KeyIsKept /\ B!OneIdentity
    BY KeysPromise DEF OneHeld
  <2>2. OneHeld /\ part = "World" => W!OneEnd
    BY DEF OneHeld, EndsHeld
  <2>3. OneHeld /\ part = "Calls" => C!WatchedByOne
    BY DEF OneHeld, WatchedHeld, OneWatches, C!WatchedByOne
  <2>4. OneHeld /\ part = "Listening" => L!OneStream
    BY OneStreamFollows DEF OneHeld
  <2> QED
    BY <2>1, <2>2, <2>3, <2>4 DEF OneOfEach
<1> QED
  BY <1>1, <1>2, <1>3, HeldThroughout, PTL DEF Spec
=============================================================================
