------------------------------- MODULE Posting -------------------------------
(***************************************************************************)
(* One speaker's room: the chain of posts to it, of which one is out at a    *)
(* time, and the transcript of its turns, whose messages are posted as they *)
(* open and grown by editing.                                               *)
(*                                                                         *)
(* What goes out waits for a write when it is about a record. The platform  *)
(* answers requests in any order, and may refuse one.                       *)
(***************************************************************************)
EXTENDS Integers, Sequences, FiniteSets, SequencesExt

CONSTANTS
  Limit,       (* entries a message holds before it is cut                  *)
  Overlap,     (* whether a turn may begin before the last one's messages   *)
               (* are all shown                                             *)
  MaxTurns,    (* turns                                                     *)
  MaxSaid,     (* entries of a turn                                         *)
  MaxNotices,  (* notices on the instance's own behalf                      *)
  MaxSays,     (* messages the agent asks to have posted                    *)
  MaxFaults    (* requests and writes refused, and rooms lost               *)

ASSUME PostingAssumption ==
  /\ Limit \in Nat \ {0}
  /\ Overlap \in BOOLEAN
  /\ {MaxTurns, MaxSaid, MaxNotices, MaxSays, MaxFaults} \subseteq Nat

\* A piece of narration, blank or not, or a tool call, by where it has got to;
\* each is known by its place in its turn, as a call is by its identifier.
Entry == [nth : Nat, is : {"Words", "Blank", "Running", "Ended", "Interrupted"}]

Narration == {"Words", "Blank"}

Open == [run : Nat, turn : 1..MaxTurns, body : {"Narration", "Working"},
         entries : Seq(Entry), sent : Seq(Entry), message : Nat,
         awaiting : BOOLEAN, pacing : BOOLEAN,
         standing : {"Growing", "Closed", "Lost"},
         at : {"Open", "Closing", "Finishing"}]

\* A request to the platform: a post, numbered as it was asked for, or an edit
\* of the message it names. run and turn are a transcript's, call an agent's.
Request == {r \in [kind : {"Notice", "Saying", "Transcript", "Growing"}, n : Nat,
                   run : Nat, turn : 0..MaxTurns, text : Seq(Entry),
                   message : Nat, call : Nat, after : BOOLEAN] :
              r.kind \in {"Transcript", "Growing"} => r.turn # 0}

\* A write in flight.
Write == [posts : Seq(Request), notice : Nat]

\* A message as the platform shows it.
Message == [kind : {"Notice", "Saying", "Transcript"}, n : Nat,
            turn : 0..MaxTurns, text : Seq(Entry)]

VARIABLES
  turn,      (* the turn there is, or was last                              *)
  on,        (* whether it runs                                             *)
  placed,    (* whether the speaker has the room                            *)
  next,      (* the next message's number in its turn                       *)
  kept,      (* the messages open, closing, and finishing after their turn  *)
  inFlight,  (* whether a post of the room's is on its way                  *)
  waiting,   (* the posts behind it                                         *)
  writes,    (* the writes in flight, with the posts waiting on each and    *)
             (* the notice made by the step that asked for it, if one was   *)
  out,       (* the requests the world was given                            *)
  timers,    (* wakes set to grow a message, by turn and number             *)
  held,      (* calls of the agent's held open for a post                *)
  asked,     (* how many posts were asked for                               *)
  unwritten, (* notices of records no write has put on the disk             *)
  room,      (* what the platform shows, a message's number its place       *)
  said,      (* what each turn's agent said and did                         *)
  failed,    (* the turns of which something was refused, or had no room    *)
  used       (* how much of each bound is spent                             *)

memory == <<next, kept, inFlight, waiting, writes, out, timers, asked>>
vars   == <<turn, on, placed, memory, held, unwritten, room, said, failed, used>>

----------------------------------------------------------------------------
(* A step works on what the instance holds, and leaves what it held at its   *)
(* end.                                                                     *)

Now == [next |-> next, kept |-> kept, inFlight |-> inFlight, waiting |-> waiting,
        writes |-> writes, out |-> out, timers |-> timers, asked |-> asked,
        staged |-> <<>>, notice |-> 0]

\* The step's last act: what it held back waits on the write of what it
\* changed, and goes at once if it changed nothing.
flush(step, changed) == \E m \in {step} :
  /\ next' = m.next /\ kept' = m.kept /\ timers' = m.timers /\ asked' = m.asked
  /\ inFlight' = m.inFlight /\ waiting' = m.waiting
  /\ out' = IF changed THEN m.out ELSE m.out \union Range(m.staged)
  /\ writes' = IF changed THEN Append(m.writes, [posts |-> m.staged, notice |-> m.notice])
                          ELSE m.writes

----------------------------------------------------------------------------
(* The chain of a room's posts. *)

\* A mistake: a post goes whatever is out.
SentAtOnce(m, post) ==
  LET p == [post EXCEPT !.n = m.asked + 1] IN
  IF p.after
    THEN [m EXCEPT !.asked = @ + 1, !.inFlight = TRUE, !.staged = Append(@, p)]
    ELSE [m EXCEPT !.asked = @ + 1, !.inFlight = TRUE, !.out = @ \union {p}]

enqueue(m, post) ==
  LET p == [post EXCEPT !.n = m.asked + 1]
      c == [m EXCEPT !.asked = @ + 1, !.inFlight = TRUE] IN
  CASE m.inFlight -> [c EXCEPT !.waiting = Append(@, p)]
    [] ~m.inFlight /\ p.after -> [c EXCEPT !.staged = Append(@, p)]
    [] ~m.inFlight /\ ~p.after -> [c EXCEPT !.out = @ \union {p}]

\* A post released here waits on every write there is, if it waits on any.
next_post(m) ==
  IF m.waiting = <<>>
    THEN [m EXCEPT !.inFlight = FALSE]
    ELSE LET p == Head(m.waiting)
             c == [m EXCEPT !.waiting = Tail(@)] IN
         IF p.after /\ m.writes # <<>>
           THEN [c EXCEPT !.writes[Len(m.writes)].posts = Append(@, p)]
           ELSE [c EXCEPT !.out = @ \union {p}]

Post(kind, after) == [kind |-> kind, n |-> 0, run |-> 0, turn |-> 0, text |-> <<>>,
                      message |-> 0, call |-> 0, after |-> after]

Notices(m) == [enqueue(m, Post("Notice", TRUE)) EXCEPT !.notice = m.asked + 1]

----------------------------------------------------------------------------
(* The messages of a transcript. *)

IsBlank(entries) == \A i \in 1..Len(entries) : entries[i].is = "Blank"

\* The calls it holds that have not ended, by their places.
Running(o) == {i \in 1..Len(o.entries) : o.entries[i].is = "Running"}

closed(o) == o.standing # "Growing"

settled(o) ==
  ~o.awaiting /\ ~o.pacing /\ (o.standing = "Lost" \/ o.entries = o.sent)

done(o) ==
  closed(o) /\ settled(o) /\ (o.standing = "Lost" \/ Running(o) = {})

\* What is done with, and what is finishing and shown as it reads, is let go.
prune(m) ==
  [m EXCEPT !.kept = {o \in @ : \/ o.at = "Open"
                                \/ o.at = "Closing" /\ ~done(o)
                                \/ o.at = "Finishing" /\ ~settled(o)}]

\* The message numbered: in the turn there is, or among those finishing.
find_run(m, run) ==
  LET mine == {o \in m.kept : o.run = run /\ o.at # "Finishing"} IN
  IF mine # {} THEN mine ELSE {o \in m.kept : o.run = run}

Put(m, o, changed) == [m EXCEPT !.kept = (@ \ {o}) \union {changed}]

AsSent(o) == [o EXCEPT !.sent = o.entries, !.awaiting = TRUE]

Transcribes(o) ==
  [Post("Transcript", FALSE) EXCEPT !.run = o.run, !.turn = o.turn, !.text = o.entries]

Edits(o) ==
  [Post("Growing", FALSE) EXCEPT !.run = o.run, !.turn = o.turn, !.text = o.entries,
                                 !.message = o.message]

\* What one message needs. Nothing while an answer is awaited: that looks again.
Tending(m, o, paced) ==
  CASE o.standing = "Lost" \/ o.awaiting -> m
    [] o.standing # "Lost" /\ ~o.awaiting /\ o.message = 0 /\ IsBlank(o.entries) ->
         IF closed(o) THEN Put(m, o, [o EXCEPT !.standing = "Lost"]) ELSE m
    [] o.standing # "Lost" /\ ~o.awaiting /\ o.message = 0 /\ ~IsBlank(o.entries) ->
         enqueue(Put(m, o, AsSent(o)), Transcribes(o))
    [] OTHER ->
         CASE o.entries = o.sent -> m
           [] o.entries # o.sent /\ (closed(o) \/ paced) ->
                [Put(m, o, AsSent(o)) EXCEPT !.out = @ \union {Edits(o)}]
           [] o.entries # o.sent /\ ~closed(o) /\ ~paced /\ o.pacing -> m
           [] OTHER ->
                [Put(m, o, [o EXCEPT !.pacing = TRUE]) EXCEPT
                    !.timers = @ \union {[turn |-> o.turn, run |-> o.run]}]

tend_after(m, run, paced) ==
  IF ~placed \/ find_run(m, run) = {} THEN m
  ELSE Tending(m, CHOOSE o \in find_run(m, run) : TRUE, paced)

tend(m, run) == tend_after(m, run, FALSE)

\* Each of a turn's messages numbered so, in the order of their numbers.
TendAll(m, runs) ==
  LET tended[i \in 0..m.next] ==
        IF i = 0 THEN m
        ELSE IF i - 1 \in runs THEN tend(tended[i - 1], i - 1) ELSE tended[i - 1]
  IN  tended[m.next]

Opened(m) == {o \in m.kept : o.at = "Open"}

\* Closes the open message, if there is one.
close(m) ==
  [m EXCEPT !.kept =
     {IF o.at # "Open" THEN o
      ELSE [o EXCEPT !.at = "Closing",
                     !.standing = IF @ = "Lost" THEN @ ELSE "Closed"] : o \in @}]

begin(m, body, entries) ==
  [m EXCEPT
     !.next = @ + 1,
     !.kept = @ \union {[run |-> m.next, turn |-> turn, body |-> body,
                         entries |-> entries, sent |-> <<>>, message |-> 0,
                         awaiting |-> FALSE, pacing |-> FALSE,
                         standing |-> "Growing", at |-> "Open"]}]

Kind(entry) == IF entry.is \in Narration THEN "Narration" ELSE "Working"

\* Onto the message it continues, or a new one.
SaidOrWorked(m, entry) ==
  LET same == {o \in Opened(m) : o.body = Kind(entry)} IN
  IF same = {} THEN begin(close(m), Kind(entry), <<entry>>)
  ELSE LET o == CHOOSE o \in same : TRUE IN
       Put(m, o, [o EXCEPT !.entries = Append(@, entry)])

\* A message past the platform's limit is closed at it and continued in the
\* next, unless it is one entry that passes it alone.
fit(m) ==
  LET long == {o \in Opened(m) : Len(o.entries) > Limit} IN
  IF long = {} THEN m
  ELSE LET o == CHOOSE o \in long : TRUE IN
       begin(close(Put(m, o, [o EXCEPT !.entries = Front(@)])),
             o.body, <<Last(o.entries)>>)

\* Which messages a change closed, then opened, then grew.
TendChanged(before, after) ==
  LET shut   == {o.run : o \in {p \in Opened(before) : \A q \in Opened(after) : q.run # p.run}}
      opened == {o.run : o \in {p \in after.kept :
                   p.at # "Finishing" /\ p.run >= before.next}}
      grew   == {o.run : o \in {p \in Opened(after) : p.run < before.next}} IN
  TendAll(TendAll(TendAll(after, shut), opened), grew)

----------------------------------------------------------------------------
(* What a turn does. *)

Spent(bound) == used' = [used EXCEPT ![bound] = @ + 1]

BeginTurn ==
  /\ ~on /\ turn < MaxTurns /\ placed
  /\ Overlap \/ {o \in kept : o.at = "Finishing"} = {}
  /\ on' = TRUE /\ turn' = turn + 1
  /\ next' = 0
  /\ UNCHANGED <<placed, kept, inFlight, waiting, writes, out, timers, asked, held,
                 unwritten, room, said, failed, used>>

\* The agent said or did something.
noticed(what) ==
  /\ on /\ placed /\ Len(said[turn]) < MaxSaid
  /\ LET entry == [nth |-> Len(said[turn]) + 1, is |-> what] IN
       /\ flush(prune(TendChanged(Now, fit(SaidOrWorked(Now, entry)))), FALSE)
       /\ said' = [said EXCEPT ![turn] = Append(@, entry)]
  /\ UNCHANGED <<turn, on, placed, held, unwritten, room, failed, used>>

\* A call ended, wherever it is among the turn's messages.
call_changed ==
  /\ on /\ placed
  /\ \E o \in kept : \E i \in Running(o) :
       /\ o.at # "Finishing"
       /\ flush(prune(tend(Put(Now, o, [o EXCEPT !.entries[i].is = "Ended"]), o.run)), FALSE)
       /\ said' = [said EXCEPT ![turn][o.entries[i].nth].is = "Ended"]
  /\ UNCHANGED <<turn, on, placed, held, unwritten, room, failed, used>>

Interrupt(entries) ==
  [i \in DOMAIN entries |->
     IF entries[i].is = "Running" THEN [entries[i] EXCEPT !.is = "Interrupted"] ELSE entries[i]]

\* A message landed in the turn: no ending will come for a call that runs.
calls_interrupted ==
  /\ on /\ \E i \in 1..Len(said[turn]) : said[turn][i].is = "Running"
  /\ LET cut == {o \in kept : o.at # "Finishing" /\ Running(o) # {}}
         m   == [Now EXCEPT !.kept = (@ \ cut) \union
                   {[o EXCEPT !.entries = Interrupt(@)] : o \in cut}] IN
     flush(TendAll(m, {o.run : o \in cut}), FALSE)
  /\ said' = [said EXCEPT ![turn] = Interrupt(@)]
  /\ UNCHANGED <<turn, on, placed, held, unwritten, room, failed, used>>

\* The turn's messages are kept until they are shown as they read: an earlier
\* one with the same number gives way.
finish(m) ==
  LET mine == {o \in close(m).kept : o.at # "Finishing"}
      runs == {o.run : o \in mine}
      rest == {o \in m.kept : o.at = "Finishing" /\ o.run \notin runs} IN
  TendAll([m EXCEPT !.kept = rest \union {[o EXCEPT !.at = "Finishing"] : o \in mine}], runs)

\* A turn ends, and its outcome is on the record, with a notice or without.
TurnEnds ==
  /\ on
  /\ on' = FALSE
  /\ \/ /\ flush(prune(finish(Now)), TRUE)
        /\ UNCHANGED used
     \/ /\ placed /\ used.notices < MaxNotices
        /\ flush(Notices(prune(finish(Now))), TRUE)
        /\ Spent("notices")
  /\ UNCHANGED <<turn, placed, held, unwritten, room, said, failed>>

\* The agent asks to have a message posted, and waits for its name.
post_for ==
  /\ on /\ placed /\ used.says < MaxSays
  /\ held' = held \union {used.says + 1}
  /\ flush(enqueue(Now, [Post("Saying", FALSE) EXCEPT !.call = used.says + 1]), FALSE)
  /\ Spent("says")
  /\ UNCHANGED <<turn, on, placed, unwritten, room, said, failed>>

\* The instance says something, about a record it changes or not.
say ==
  /\ placed /\ used.notices < MaxNotices
  /\ \E changed \in BOOLEAN : flush(Notices(Now), changed)
  /\ Spent("notices")
  /\ UNCHANGED <<turn, on, placed, held, unwritten, room, said, failed>>

\* The project was forgotten, or its channel taken away.
Forgotten ==
  /\ placed /\ used.faults < MaxFaults
  /\ placed' = FALSE
  /\ failed' = 1..turn
  /\ writes' = Append(writes, [posts |-> <<>>, notice |-> 0])
  /\ Spent("faults")
  /\ UNCHANGED <<turn, on, next, kept, inFlight, waiting, out, timers, asked, held, unwritten, room, said>>

----------------------------------------------------------------------------
(* What the world answers. *)

\* A mistake: the answer is noted, and what came meanwhile not looked at.
NotLookedAtAgain(m, r, message) ==
  LET found == find_run(m, r.run) IN
  IF found = {} THEN m
  ELSE LET o == CHOOSE o \in found : TRUE IN
       prune(Put(m, o, [o EXCEPT !.awaiting = FALSE,
                                 !.message = IF r.kind = "Transcript" THEN message ELSE @,
                                 !.standing = IF message = 0 THEN "Lost" ELSE @]))

\* A post that opened a message, or an edit of it, was answered: with the
\* message's number, or with 0, a refusal.
run_answered(m, r, message) ==
  LET found == find_run(m, r.run) IN
  IF found = {} THEN m
  ELSE LET o == CHOOSE o \in found : TRUE IN
       prune(tend(Put(m, o, [o EXCEPT !.awaiting = FALSE,
                                      !.message = IF r.kind = "Transcript" /\ message # 0
                                                    THEN message ELSE @,
                                      !.standing = IF message = 0 THEN "Lost" ELSE @]),
                  r.run))

\* What follows from an answer to a post, and from one never made.
answered(m, r, message) ==
  CASE r.kind = "Growing" -> run_answered(m, r, message)
    [] r.kind = "Transcript" -> next_post(run_answered(m, r, message))
    [] r.kind \in {"Notice", "Saying"} -> next_post(m)

Refusals(r) == IF r.kind \in {"Transcript", "Growing"} THEN failed \union {r.turn} ELSE failed

\* The platform did as asked.
Shows(r) ==
  IF r.kind = "Growing"
    THEN room' = [room EXCEPT ![r.message].text = r.text]
    ELSE room' = Append(room, [kind |-> r.kind, n |-> r.n, turn |-> r.turn, text |-> r.text])

responded ==
  /\ \E r \in out :
       /\ Shows(r)
       /\ LET message == IF r.kind = "Growing" THEN r.message ELSE Len(room) + 1 IN
          flush(answered([Now EXCEPT !.out = @ \ {r}], r, message), FALSE)
       /\ held' = held \ {r.call}
  /\ UNCHANGED <<turn, on, placed, unwritten, said, failed, used>>

\* It refused, could not be reached, or did as asked and was not heard.
Failed ==
  /\ used.faults < MaxFaults
  /\ \E r \in out :
       /\ Shows(r) \/ UNCHANGED room
       /\ flush(answered([Now EXCEPT !.out = @ \ {r}], r, 0), FALSE)
       /\ held' = held \ {r.call}
       /\ failed' = Refusals(r)
  /\ Spent("faults")
  /\ UNCHANGED <<turn, on, placed, unwritten, said>>

Landed ==
  /\ writes # <<>>
  /\ flush([Now EXCEPT !.writes = Tail(@), !.out = @ \union Range(Head(writes).posts)], FALSE)
  /\ unwritten' = {}
  /\ UNCHANGED <<turn, on, placed, held, room, said, failed, used>>

\* A mistake: what waited on the write is dropped, and no more.
DroppedOnly(m, r) == m

\* What waited on a write that failed is never sent, and answered so.
unsent(m, r) == answered(m, r, 0)

Unsent(m, posts) ==
  LET dropped[i \in 0..Len(posts)] ==
        IF i = 0 THEN m ELSE unsent(dropped[i - 1], posts[i])
  IN  dropped[Len(posts)]

WriteFailed ==
  /\ writes # <<>> /\ used.faults < MaxFaults
  /\ flush(Unsent([Now EXCEPT !.writes = Tail(@)], Head(writes).posts), FALSE)
  /\ held' = held \ {r.call : r \in Range(Head(writes).posts)}
  /\ unwritten' = unwritten \union ({Head(writes).notice} \ {0})
  /\ Spent("faults")
  /\ UNCHANGED <<turn, on, placed, room, said, failed>>

\* The pace came round for a message.
grow ==
  /\ \E t \in timers :
       LET found == find_run(Now, t.run)
           m     == [Now EXCEPT !.timers = @ \ {t}]
           eased == IF found = {} THEN m
                    ELSE LET o == CHOOSE o \in found : TRUE IN
                         Put(m, o, [o EXCEPT !.pacing = FALSE]) IN
       flush(prune(tend_after(eased, t.run, TRUE)), FALSE)
  /\ UNCHANGED <<turn, on, placed, held, unwritten, room, said, failed, used>>

----------------------------------------------------------------------------

Init ==
  /\ turn = 0 /\ on = FALSE /\ placed = TRUE
  /\ next = 0 /\ kept = {} /\ inFlight = FALSE /\ waiting = <<>>
  /\ writes = <<>> /\ out = {} /\ timers = {} /\ held = {} /\ asked = 0
  /\ unwritten = {}
  /\ room = <<>> /\ said = [t \in 1..MaxTurns |-> <<>>] /\ failed = {}
  /\ used = [notices |-> 0, says |-> 0, faults |-> 0]

TurnSteps ==
  \/ BeginTurn
  \/ \E what \in {"Words", "Blank", "Running"} : noticed(what)
  \/ call_changed
  \/ calls_interrupted
  \/ TurnEnds
  \/ post_for

WorldSteps ==
  \/ responded
  \/ Failed
  \/ Landed
  \/ WriteFailed
  \/ grow

Next ==
  \/ TurnSteps
  \/ say
  \/ Forgotten
  \/ WorldSteps

Spec == Init /\ [][Next]_vars

----------------------------------------------------------------------------

TypeOK ==
  /\ turn \in 0..MaxTurns /\ on \in BOOLEAN /\ placed \in BOOLEAN
  /\ on => turn # 0
  /\ next \in Nat /\ kept \subseteq Open
  /\ inFlight \in BOOLEAN /\ waiting \in Seq(Request)
  /\ writes \in Seq(Write) /\ out \subseteq Request
  /\ timers \subseteq [turn : 1..MaxTurns, run : Nat]
  /\ held \subseteq 1..MaxSays /\ asked \in Nat
  /\ unwritten \subseteq Nat
  /\ room \in Seq(Message) /\ said \in [1..MaxTurns -> Seq(Entry)]
  /\ failed \subseteq 1..MaxTurns
  /\ used \in [notices : 0..MaxNotices, says : 0..MaxSays, faults : 0..MaxFaults]
  /\ \A o, p \in kept : o.at = "Open" /\ p.at = "Open" => o = p

\* Posts appear in a room in the order they were asked for, the notices that
\* wait for writes among them (channel.rs:300, :320).
LandInOrder ==
  \A i, j \in 1..Len(room) : i < j => room[i].n < room[j].n

\* The messages a room shows of a turn. They hold all that the turn's agent said
\* and did but blanks, and nothing else, each as it finally read and one after
\* another as they were said.
OfTurn(t) == {x \in 1..Len(room) : room[x].turn = t}

Whole(t) ==
  /\ \A i \in 1..Len(said[t]) :
       \/ said[t][i].is = "Blank"
       \/ \E x \in OfTurn(t) : \E k \in 1..Len(room[x].text) : room[x].text[k] = said[t][i]
  /\ \A x, y \in OfTurn(t) : \A k \in 1..Len(room[x].text), l \in 1..Len(room[y].text) :
       LET p == room[x].text[k]
           q == room[y].text[l] IN
       /\ p.nth \in 1..Len(said[t]) /\ p = said[t][p.nth]
       /\ x < y \/ (x = y /\ k < l) => p.nth < q.nth

Quiet == ~on /\ out = {} /\ writes = <<>> /\ timers = {}

\* Once nothing is on its way, a room shows the whole of what each turn's agent
\* said and did, in that order and as it finally read, however the entries
\* came between a post and its answer, an edit and its answer, and the end of
\* the turn; unless the platform refused some of it (transcript.rs:485, :559).
ShownWhole ==
  Quiet => \A t \in (1..turn) \ failed : Whole(t)

\* The room's chain goes on: while one post is out or waits for a write it says
\* so, and nothing waits behind none; and a call of the agent's that is held
\* open has its post in that chain, whichever posts are refused, or dropped
\* with the write they waited for (channel.rs:300, :782).
ChainGoesOn ==
  LET posts == {r \in out : r.kind # "Growing"}
               \union UNION {Range(writes[i].posts) : i \in 1..Len(writes)} IN
  /\ Cardinality(posts) = (IF inFlight THEN 1 ELSE 0)
  /\ waiting # <<>> => inFlight
  /\ held \subseteq {r.call : r \in posts \union Range(waiting)}

\* Nothing is said of a record that is not on the disk (lib.rs:1196,
\* channel.rs:245).
SaidOfRecords == \A i \in 1..Len(room) : room[i].n \notin unwritten

=============================================================================
