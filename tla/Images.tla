------------------------------- MODULE Images -------------------------------
(***************************************************************************)
(* The images containers are made from. An image is named by the recipe it is *)
(* built from, looked for under that name and built where it is not there; what *)
(* a release would not use is removed again, unless a container uses it, which the *)
(* runtime decides. The runtime does what it is told in any order, and may be shared. *)
(*                                                                         *)
(* Building under a name that is held moves the name to another copy and     *)
(* deletes the one before, whatever was made from it: this was measured       *)
(* (docs/decisions/0051).                                                     *)
(***************************************************************************)
EXTENDS Naturals, Sequences, FiniteSets, SequencesExt

CONSTANTS
  Hosts,        (* instances sharing the runtime                            *)
  Turning,      (* whoever has turns: jobs and foremen                      *)
  HostOf,       (* the instance of each                                     *)
  Recipes,      (* by release, the name of the recipe of each's image       *)
  MaxCopies,    (* images built                                             *)
  MaxRestarts,  (* of an instance, as the release it was or the next        *)
  MaxRetired,   (* containers told to go with their job                     *)
  LateLooks,    (* whether answers may arrive out of the order of what they saw *)
  Lingers       (* whether a build goes on when who asked for it is killed  *)

Releases == DOMAIN Recipes
keeping(r) == {Recipes[r][s] : s \in Turning}
Digests == UNION {keeping(r) : r \in Releases}
None == "-"

ImagesAssumption ==
  /\ HostOf \in [Turning -> Hosts] /\ None \notin Hosts \union Turning
  /\ 1 \in Releases /\ Releases = 1..Len(Recipes)
  /\ \A r \in Releases : Recipes[r] \in [Turning -> Nat \ {0}]
  /\ {MaxCopies, MaxRestarts, MaxRetired} \subseteq Nat
  /\ {LateLooks, Lingers} \subseteq BOOLEAN

VARIABLES
  release,    (* each instance's                                            *)
  step,       (* how far each turn is on its way to a container             *)
  halting,    (* turns asked to stop                                        *)
  builds,     (* by instance and image, the turns waiting on its build      *)
  concluded,  (* whose job is over, its container told to go                *)
  runtime,    (* what the runtime was told and has not done                 *)
  replies,    (* what it said to each instance and was not read            *)
  images,     (* the copy held under each name, 0 for none                  *)
  madeof,     (* the copy each container was made from, 0 for no container   *)
  copies, restarts, discards

vars == <<release, step, halting, builds, concluded, runtime, replies, images, madeof,
          copies, restarts, discards>>

Told(kind, by, about, image) == [kind |-> kind, by |-> by, about |-> about, image |-> image]
Asking(kind, s) == Told(kind, HostOf[s], s, Recipes[release[HostOf[s]]][s])

----------------------------------------------------------------------------
(* A turn on its way to a container. *)

\* A turn that needs a container begins by looking for its image.
turn(s) ==
  /\ step[s] = "None" /\ madeof[s] = 0 /\ s \notin concluded
  /\ step' = [step EXCEPT ![s] = "Looking"]
  /\ runtime' = runtime \union {Asking("Present", s)}
  /\ UNCHANGED <<release, halting, builds, concluded, replies, images, madeof, copies, restarts, discards>>

stop_turn(s) ==
  /\ step[s] \in {"Looking", "Building", "Creating"}
  /\ halting' = halting \union {s}
  /\ UNCHANGED <<release, step, builds, concluded, runtime, replies, images, madeof, copies, restarts, discards>>

\* What there is to do with turns whose image is there: those stopped end, for the
\* others a container is asked for.
make(turns) ==
  /\ step' = [s \in Turning |-> IF s \notin turns THEN step[s]
                                ELSE IF s \in halting THEN "None" ELSE "Creating"]
  /\ runtime' = runtime \union {Asking("Create", s) : s \in turns \ halting}
  /\ halting' = halting \ turns

ended(turns) ==
  /\ step' = [s \in Turning |-> IF s \in turns THEN "None" ELSE step[s]]
  /\ halting' = halting \ turns

\* The image is built, or the build of it in flight is waited on.
build(s, image) ==
  /\ step' = [step EXCEPT ![s] = "Building"]
  /\ builds' = [builds EXCEPT ![<<HostOf[s], image>>] = @ \union {s}]
  /\ runtime' = IF builds[<<HostOf[s], image>>] # {} THEN runtime
                ELSE runtime \union {Asking("Build", s)}

looked(reply) == LET s == reply.to.about IN
  IF s \in halting THEN ended({s}) /\ UNCHANGED <<runtime, builds>>
  ELSE IF reply.fine THEN make({s}) /\ UNCHANGED builds
       ELSE build(s, reply.to.image) /\ UNCHANGED halting

built(reply) == LET waiting == builds[<<reply.to.by, reply.to.image>>] IN
  /\ builds' = [builds EXCEPT ![<<reply.to.by, reply.to.image>>] = {}]
  /\ IF reply.fine THEN make(waiting) ELSE ended(waiting) /\ UNCHANGED runtime

\* With its container there the turn goes on, and needs the image no more.
Created(reply) == ended({reply.to.about}) /\ UNCHANGED <<runtime, builds>>

----------------------------------------------------------------------------
(* Removing what nothing needs. *)

\* A mistake: what this release uses goes, and what it does not is kept.
KeptInverted(r, names) == names \intersect keeping(r)

\* Of the images listed, those this release would not use are told to go.
reclaimed(r, names) == names \ keeping(r)

Images(reply) ==
  /\ runtime' = runtime \union {Told("RemoveImage", reply.to.by, None, n) :
                                  n \in reclaimed(release[reply.to.by], reply.names)}
  /\ UNCHANGED <<step, halting, builds>>

\* Its job over, a container is told to go and the images are asked for, at once.
retire(s) ==
  /\ step[s] = "None" /\ madeof[s] # 0 /\ s \notin concluded /\ discards < MaxRetired
  /\ concluded' = concluded \union {s}
  /\ runtime' = runtime \union {Asking("Discard", s), Told("Images", HostOf[s], s, 0)}
  /\ discards' = discards + 1
  /\ UNCHANGED <<release, step, halting, builds, replies, images, madeof, copies, restarts>>

\* What a reply is, read one at a time.
Read ==
  \E i \in Hosts : \E n \in 1..Len(replies[i]) :
    /\ n > 1 => LateLooks
    /\ LET reply == replies[i][n] IN
         \/ reply.to.kind = "Present" /\ looked(reply)
         \/ reply.to.kind = "Build" /\ built(reply)
         \/ reply.to.kind = "Create" /\ Created(reply)
         \/ reply.to.kind = "Images" /\ Images(reply)
         \/ reply.to.kind = "Discard" /\ UNCHANGED <<step, halting, builds, runtime>>
    /\ concluded' = LET to == replies[i][n].to IN
                    IF to.kind = "Discard" THEN concluded \ {to.about} ELSE concluded
    /\ replies' = [replies EXCEPT ![i] = RemoveAt(@, n)]
    /\ UNCHANGED <<release, images, madeof, copies, restarts, discards>>

\* An instance is killed and wakes, as the release it was or the next. No turn of it
\* goes on, what was told to go and has not is told again, and images are asked for.
Restarts(i) ==
  /\ restarts < MaxRestarts
  /\ restarts' = restarts + 1
  /\ \E r \in Releases \intersect {release[i], release[i] + 1} :
       release' = [release EXCEPT ![i] = r]
  /\ LET own == {s \in Turning : HostOf[s] = i}
         gone == {s \in own \intersect concluded : madeof[s] = 0} IN
       /\ ended(own)
       /\ concluded' = concluded \ gone
       /\ runtime' = {c \in runtime : c.by # i}
            \union {[c EXCEPT !.by = None] : c \in {b \in runtime : Lingers /\ b.kind = "Build"}}
            \union {Asking("Discard", s) : s \in (own \intersect concluded) \ gone}
            \union {Told("Images", i, None, 0)}
  /\ builds' = [a \in DOMAIN builds |-> IF a[1] = i THEN {} ELSE builds[a]]
  /\ replies' = [replies EXCEPT ![i] = <<>>]
  /\ UNCHANGED <<images, madeof, copies, discards>>

----------------------------------------------------------------------------
(* What the runtime does. *)

\* The runtime has done a thing, and says so to who asked, where that still is; of an
\* image removed, or refused to be, nothing is made.
Replies(c, fine, names) ==
  /\ runtime' = runtime \ {c}
  /\ replies' = IF c.by = None \/ c.kind = "RemoveImage" THEN replies
                ELSE [replies EXCEPT ![c.by] =
                             Append(@, [to |-> c, fine |-> fine, names |-> names])]
  /\ UNCHANGED <<release, step, halting, builds, concluded, restarts, discards>>

Looks(c) ==
  /\ c.kind = "Present"
  /\ Replies(c, images[c.image] # 0, {})
  /\ UNCHANGED <<images, madeof, copies>>

\* The copy before, if any, is deleted.
Builds(c) ==
  /\ c.kind = "Build"
  /\ \/ /\ copies < MaxCopies
        /\ copies' = copies + 1
        /\ images' = [images EXCEPT ![c.image] = copies + 1]
        /\ Replies(c, TRUE, {})
     \/ Replies(c, FALSE, {}) /\ UNCHANGED <<images, copies>>
  /\ UNCHANGED madeof

Creates(c) ==
  /\ c.kind = "Create"
  /\ madeof' = [madeof EXCEPT ![c.about] = images[c.image]]
  /\ Replies(c, images[c.image] # 0, {})
  /\ UNCHANGED <<images, copies>>

Discards(c) ==
  /\ c.kind = "Discard"
  /\ madeof' = [madeof EXCEPT ![c.about] = 0]
  /\ Replies(c, TRUE, {})
  /\ UNCHANGED <<images, copies>>

Lists(c) ==
  /\ c.kind = "Images"
  /\ Replies(c, TRUE, {n \in Digests : images[n] # 0})
  /\ UNCHANGED <<images, madeof, copies>>

\* Refused while a container uses it: one made from the copy the name has.
Used(n) == images[n] # 0 /\ \E s \in Turning : madeof[s] = images[n]
Removes(c) ==
  /\ c.kind = "RemoveImage"
  /\ images' = IF Used(c.image) THEN images ELSE [images EXCEPT ![c.image] = 0]
  /\ Replies(c, ~Used(c.image), {})
  /\ UNCHANGED <<madeof, copies>>

Does(c) == Looks(c) \/ Builds(c) \/ Creates(c) \/ Discards(c) \/ Lists(c) \/ Removes(c)

Init ==
  /\ release = [i \in Hosts |-> 1]
  /\ step = [s \in Turning |-> "None"]
  /\ halting = {}
  /\ builds = [a \in Hosts \X Digests |-> {}]
  /\ concluded = {}
  /\ runtime = {} /\ replies = [i \in Hosts |-> <<>>]
  /\ images = [n \in Digests |-> 0]
  /\ madeof = [s \in Turning |-> 0]
  /\ copies = 0 /\ restarts = 0 /\ discards = 0

Next ==
  \/ \E s \in Turning : turn(s) \/ stop_turn(s) \/ retire(s)
  \/ \E i \in Hosts : Restarts(i)
  \/ Read
  \/ \E c \in runtime : Does(c)

Spec == Init /\ [][Next]_vars

----------------------------------------------------------------------------

\* What there is to answer, of the turns waiting on a build, by host and image.
BuildOf(a) ==
  {c \in runtime \union {replies[a[1]][n].to : n \in 1..Len(replies[a[1]])} :
     c.kind = "Build" /\ c.by = a[1] /\ c.image = a[2]}

\* Everything is of its kind, and the turns waiting on a build are the turns whose
\* step is to wait, with one build to answer them all.
ImagesTypeOK ==
  /\ release \in [Hosts -> Releases]
  /\ step \in [Turning -> {"None", "Looking", "Building", "Creating"}]
  /\ halting \subseteq {s \in Turning : step[s] # "None"}
  /\ concluded \subseteq Turning
  /\ images \in [Digests -> 0..copies] /\ madeof \in [Turning -> 0..copies]
  /\ UNION {builds[a] : a \in DOMAIN builds} = {s \in Turning : step[s] = "Building"}
  /\ \A a \in DOMAIN builds : Cardinality(BuildOf(a)) = IF builds[a] = {} THEN 0 ELSE 1

\* The image a container was made from stays for as long as the container does: no
\* build moves the name off it and no sweep removes it (agent/src/lib.rs, BUILDING
\* and build; turns.rs, looked and build).
ImageStays == \A s \in Turning : madeof[s] # 0 => \E n \in Digests : images[n] = madeof[s]

\* A container is asked for from an image that is there, and it is still there when
\* the runtime gets to it: no sweep comes between (agent/src/lib.rs, keeping).
ThereWhenMade == \A c \in runtime : c.kind = "Create" => images[c.image] # 0

\* What no container uses and this release would not use is gone once an instance
\* that woke has nothing more to ask (docs/decisions/0051, "after the containers are
\* settled"; sweep.rs, which asks without waiting for them).
Reclaimed ==
  runtime = {} /\ (\A i \in Hosts : replies[i] = <<>>) /\ restarts > 0 /\ concluded = {}
    => \A n \in Digests : images[n] # 0 =>
         Used(n) \/ \E i \in Hosts : n \in keeping(release[i])
=============================================================================
