------------------------------ MODULE Wording ------------------------------
(***************************************************************************)
(* What the program puts into words that others carry, and what it takes    *)
(* them to mean when they come back: a command for the runtime, a call of a  *)
(* channel, a job's name wherever it is met, a repository's address, what an *)
(* agent refers to, a text longer than a post, and the thread an agent is shown. *)
(*                                                                         *)
(* A behaviour is of one meaning: it is put into words, whoever carries the  *)
(* words may spell them another way that means the same, and they are taken. *)
(* A name or a text is a sequence of characters; a word of an argument list,  *)
(* and what is never taken apart, the strings it is composed of.              *)
(***************************************************************************)
EXTENDS Integers, Sequences, SequencesExt, FiniteSets

CONSTANTS
  Carried,                      (* names of the variables a container is handed *)
  MaxTitle, MaxText, MaxThread, (* the longest title, text and thread           *)
  TitleAtMost, SuffixChars,     (* caps of a job's name                         *)
  ProjectAtMost, NameAtMost, IdentifierChars,   (* of a room's                  *)
  PostAtMost, DescriptionAtMost,                (* of a post, and of a purpose  *)
  HostnameLimit, LabelLimit                     (* of a machine's name          *)

VARIABLES
  meant,   (* what is meant                                                  *)
  words,   (* the words it was put into                                      *)
  taken,   (* what they are taken to mean                                    *)
  at       (* how far it has come                                            *)

vars == <<meant, words, taken, at>>

None == "None"

WordingAssumption ==
  /\ IsFiniteSet(Carried)
  /\ {MaxTitle, MaxText, MaxThread, SuffixChars, ProjectAtMost, IdentifierChars,
      DescriptionAtMost, HostnameLimit, LabelLimit} \subseteq Nat
  /\ TitleAtMost \in Nat \ {0} /\ PostAtMost \in Nat \ {0, 1}
  /\ NameAtMost \in Nat /\ NameAtMost >= ProjectAtMost + TitleAtMost + SuffixChars + 4

Largest(S)  == CHOOSE n \in S : \A k \in S : k <= n
Smallest(S) == CHOOSE n \in S : \A k \in S : n <= k
UpTo(S, n)  == UNION {[1..k -> S] : k \in 0..n}
Strings(s)  == [i \in DOMAIN s |-> <<s[i]>>]
Before(s, i) == SubSeq(s, 1, i - 1)
After(s, i)  == SubSeq(s, i + 1, Len(s))
Where(s, c)  == {i \in DOMAIN s : s[i] = c}
Starts(s, c) == s # <<>> /\ Head(s) = c
Ends(s, c)   == s # <<>> /\ Last(s) = c

\* What is left of s without every c at its end, and without those at either.
TrimEnd(s, c) == SubSeq(s, 1, Largest({0} \union {i \in DOMAIN s : s[i] # c}))
Trim(s, c) == LET kept == TrimEnd(s, c)
              IN  SubSeq(kept, Smallest({Len(kept) + 1} \union {i \in DOMAIN kept : kept[i] # c}), Len(kept))

----------------------------------------------------------------------------
(* A container runtime's commands.                                           *)

Owner == "stageman.job"
key(label) == IF label = "Instance" THEN "stageman.instance" ELSE "stageman.agent"
checkout_script(platform, acting) == <<IF platform = None THEN "git" ELSE IF acting THEN "gh as app" ELSE "gh">>

Commands ==
  LET Handed == UpTo(Carried, 2)
  IN  [ask : {"Version", "Images"}]
      \union [ask : {"Containers"}, running_only : BOOLEAN]
      \union [ask : {"Label"}, name : {"box"}, label : {"Instance", "Agent"}]
      \union [ask : {"Halt", "Discard", "Port", "Start", "Wrap"}, name : {"box"}]
      \union [ask : {"RemoveImage", "Present", "Build"}, image : {"image"}]
      \union [ask : {"Create"}, name : {"box"}, image : {"image"}, agent : {"claude"},
              instance : {"id"}, variables : Handed]
      \union [ask : {"Checkout"}, name : {"box"}, repository : {"address"},
              platform : {"GitHub", None}, actor : {"bot", None}]
      \union [ask : {"Exec"}, name : {"box"}, forwarded : Handed, cleared : Handed]

Flagging(flag, names) == FlattenSeq([i \in DOMAIN names |-> Strings(<<flag, names[i]>>)])

Creating == Strings(<<"create", "--interactive", "--init", "--add-host", "gateway", "--publish",
                      "47201", "--name">>)

create_arguments(c) ==
  Creating \o <<<<c.name>>, <<"--label">>, <<Owner, c.name>>, <<"--label">>, <<key("Agent"), c.agent>>,
               <<"--label">>, <<key("Instance"), c.instance>>>>
  \o Flagging("--env", c.variables) \o <<<<c.image>>>>

exec_arguments(c) ==
  Strings(<<"exec", "--interactive">>) \o Flagging("--env", c.forwarded) \o <<<<c.name>>>>
  \o (IF c.cleared = <<>> THEN <<>> ELSE <<<<"env">>>> \o Flagging("-u", c.cleared))
  \o <<<<"agent">>>>

arguments(c) ==
  CASE c.ask = "Version"     -> Strings(<<"version">>)
    [] c.ask = "Containers"  -> Strings(<<"ps">>) \o (IF c.running_only THEN <<>> ELSE Strings(<<"--all">>))
                                \o <<<<"--filter">>, <<"label", Owner>>, <<"--format">>, <<"names">>>>
    [] c.ask = "Label"       -> <<<<"inspect">>, <<"--format">>, <<"index", key(c.label)>>, <<c.name>>>>
    [] c.ask = "Halt"        -> Strings(<<"stop", c.name>>)
    [] c.ask = "Discard"     -> Strings(<<"rm", "--force", c.name>>)
    [] c.ask = "Port"        -> Strings(<<"port", c.name, "47201">>)
    [] c.ask = "Images"      -> <<<<"images">>, <<"--filter">>, <<"reference", "ours">>, <<"--format">>, <<"tags">>>>
    [] c.ask = "RemoveImage" -> Strings(<<"rmi", c.image>>)
    [] c.ask = "Present"     -> Strings(<<"image", "inspect", "--format", "id", c.image>>)
    [] c.ask = "Build"       -> Strings(<<"build", "--quiet", "--tag", c.image, "-">>)
    [] c.ask = "Create"      -> create_arguments(c)
    [] c.ask = "Start"       -> Strings(<<"start", c.name>>)
    [] c.ask = "Wrap"        -> Strings(<<"exec", "--interactive", c.name, "sh", "-c", "wrap">>)
    [] c.ask = "Checkout"    ->
         <<<<"exec">>, <<"--env">>, <<"REPOSITORY", c.repository>>>>
         \o (IF c.actor = None THEN <<>> ELSE <<<<"--env">>, <<"ACTOR", c.actor>>>>)
         \o <<<<c.name>>, <<"sh">>, <<"-c">>, checkout_script(c.platform, c.actor # None)>>
    [] OTHER                 -> exec_arguments(c)

Nothing == [ask |-> "Nothing"]
Free == <<>>
Fits(w, shape) == Len(w) = Len(shape) /\ \A i \in DOMAIN w : shape[i] \in {Free, w[i]}
Begins(w, shape) == Len(w) >= Len(shape) /\ Fits(SubSeq(w, 1, Len(shape)), shape)
Labels(w, known) == Len(w) = 2 /\ Head(w) = known

\* How many values are given at the start of w, each after its flag.
Given(w, flag) ==
  Largest({n \in 0..(Len(w) \div 2) : \A i \in 1..n : w[2 * i - 1] = <<flag>>})
Values(w, n) == [i \in 1..n |-> w[2 * i][1]]

exec_parsed(w) ==
  LET n == Given(w, "--env")
      named == After(w, 2 * n)
      rest == After(named, 1)
      clears == Starts(rest, <<"env">>)
      of == IF clears THEN Tail(rest) ELSE rest
      k == IF clears THEN Given(of, "-u") ELSE 0
  IN  IF named # <<>> /\ (clears => k > 0) /\ After(of, 2 * k) = <<<<"agent">>>>
      THEN [ask |-> "Exec", name |-> named[1][1], forwarded |-> Values(w, n), cleared |-> Values(of, k)]
      ELSE Nothing

checkout_parsed(repository, actor, name, script) ==
  LET Made == {p \in {"GitHub", None} : script = checkout_script(p, actor # None)}
  IN  IF Labels(repository, "REPOSITORY") /\ Made # {}
      THEN [ask |-> "Checkout", name |-> name[1], repository |-> repository[2],
            platform |-> IF "GitHub" \in Made THEN "GitHub" ELSE None, actor |-> actor]
      ELSE Nothing

create_parsed(w) ==
  LET rest == After(w, 15)
      forwarded == Front(rest)
      n == Given(forwarded, "--env")
  IN  IF /\ w[11] = <<Owner, w[9][1]>> /\ Labels(w[13], key("Agent")) /\ Labels(w[15], key("Instance"))
         /\ rest # <<>> /\ Len(forwarded) = 2 * n
      THEN [ask |-> "Create", name |-> w[9][1], image |-> Last(rest)[1], agent |-> w[13][2],
            instance |-> w[15][2], variables |-> Values(forwarded, n)]
      ELSE Nothing

parse_turn(w) ==
  CASE Fits(w, Strings(<<"image", "inspect", "--format", "id">>) \o <<Free>>) -> [ask |-> "Present", image |-> w[5][1]]
    [] Fits(w, <<<<"build">>, <<"--quiet">>, <<"--tag">>, Free, <<"-">>>>) -> [ask |-> "Build", image |-> w[4][1]]
    [] Begins(w, Creating \o <<Free, <<"--label">>, Free, <<"--label">>, Free, <<"--label">>, Free>>) -> create_parsed(w)
    [] Fits(w, <<<<"start">>, Free>>) -> [ask |-> "Start", name |-> w[2][1]]
    [] Fits(w, <<<<"exec">>, <<"--env">>, Free, Free, <<"sh">>, <<"-c">>, Free>>) ->
         checkout_parsed(w[3], None, w[4], w[7])
    [] Fits(w, <<<<"exec">>, <<"--env">>, Free, <<"--env">>, Free, Free, <<"sh">>, <<"-c">>, Free>>) ->
         IF Labels(w[5], "ACTOR") THEN checkout_parsed(w[3], w[5][2], w[6], w[9]) ELSE Nothing
    [] Fits(w, <<<<"exec">>, <<"--interactive">>, Free, <<"sh">>, <<"-c">>, <<"wrap">>>>) ->
         [ask |-> "Wrap", name |-> w[3][1]]
    [] Begins(w, Strings(<<"exec", "--interactive">>)) -> exec_parsed(After(w, 2))
    [] OTHER -> Nothing

parse(w) ==
  LET Listing == <<<<"--filter">>, <<"label", Owner>>, <<"--format">>, <<"names">>>>
  IN  CASE w = Strings(<<"version">>) -> [ask |-> "Version"]
        [] w = Strings(<<"ps", "--all">>) \o Listing -> [ask |-> "Containers", running_only |-> FALSE]
        [] w = Strings(<<"ps">>) \o Listing -> [ask |-> "Containers", running_only |-> TRUE]
        [] Fits(w, <<<<"inspect">>, <<"--format">>, Free, Free>>) ->
             IF \E l \in {"Instance", "Agent"} : w[3] = <<"index", key(l)>>
             THEN [ask |-> "Label", name |-> w[4][1],
                   label |-> CHOOSE l \in {"Instance", "Agent"} : w[3] = <<"index", key(l)>>]
             ELSE Nothing
        [] Fits(w, <<<<"stop">>, Free>>) -> [ask |-> "Halt", name |-> w[2][1]]
        [] Fits(w, <<<<"rm">>, <<"--force">>, Free>>) -> [ask |-> "Discard", name |-> w[3][1]]
        [] Fits(w, <<<<"port">>, Free, <<"47201">>>>) -> [ask |-> "Port", name |-> w[2][1]]
        [] w = <<<<"images">>, <<"--filter">>, <<"reference", "ours">>, <<"--format">>, <<"tags">>>> -> [ask |-> "Images"]
        [] Fits(w, <<<<"rmi">>, Free>>) -> [ask |-> "RemoveImage", image |-> w[2][1]]
        [] OTHER -> parse_turn(w)

----------------------------------------------------------------------------
(* A channel's calls.                                                        *)

Texts == {<<"c">>, <<"c", "c", "c", "c">>}

Calls ==
  [call : {"WhoAmI", "OpenSocket"}]
  \union [call : {"Exchange"}, code : {"code"}]
  \union [call : {"Post"}, room : {"C"}, text : Texts, thread : {"1.2", None}]
  \union [call : {"Replies"}, room : {"C"}, thread : {"1.2"}, at_most : {50}]
  \union [call : {"Update"}, room : {"C"}, message : {"1.2"}, text : Texts]
  \union [call : {"CreateRoom"}, name : {"name"}]
  \union [call : {"SetPurpose"}, room : {"C"}, purpose : Texts]
  \union [call : {"SetTopic"}, room : {"C"}, topic : Texts]
  \union [call : {"Invite"}, room : {"C"}, user : {"U"}]
  \union [call : {"Archive"}, room : {"C"}]
  \union [call : {"React"}, room : {"C"}, message : {"1.2"}, reaction : {"Seen", "Done"}]

fitting(text) == SubSeq(text, 1, IF Len(text) < DescriptionAtMost THEN Len(text) ELSE DescriptionAtMost)
spelled(reaction) == IF reaction = "Seen" THEN "eyes" ELSE "white_check_mark"

telling(url, fields) == [method |-> "POST", url |-> url, fields |-> fields]
asking(url) == telling(url, [field \in {} |-> None])

Request(c) ==
  CASE c.call = "WhoAmI"     -> asking("auth.test")
    [] c.call = "OpenSocket" -> asking("connections.open")
    [] c.call = "Exchange"   -> telling("oauth.access", [code |-> c.code])
    [] c.call = "Post"       -> telling("chat.post", IF c.thread = None
                                  THEN [channel |-> c.room, markdown_text |-> c.text]
                                  ELSE [channel |-> c.room, markdown_text |-> c.text, thread_ts |-> c.thread])
    [] c.call = "Replies"    -> [method |-> "GET", url |-> "replies",
                                 fields |-> [channel |-> c.room, ts |-> c.thread, limit |-> c.at_most]]
    [] c.call = "Update"     -> telling("chat.update", [channel |-> c.room, ts |-> c.message, markdown_text |-> c.text])
    [] c.call = "CreateRoom" -> telling("rooms.create", [name |-> c.name])
    [] c.call = "SetPurpose" -> telling("rooms.purpose", [channel |-> c.room, purpose |-> fitting(c.purpose)])
    [] c.call = "SetTopic"   -> telling("rooms.topic", [channel |-> c.room, topic |-> fitting(c.topic)])
    [] c.call = "Invite"     -> telling("rooms.invite", [channel |-> c.room, users |-> c.user])
    [] c.call = "Archive"    -> telling("rooms.archive", [channel |-> c.room])
    [] OTHER                 -> telling("reactions.add",
                                  [channel |-> c.room, timestamp |-> c.message, name |-> spelled(c.reaction)])

Says(request, fields) == fields \subseteq DOMAIN request.fields

read_call(r) ==
  IF r.url = "replies" /\ Says(r, {"channel", "ts", "limit"})
  THEN [call |-> "Replies", room |-> r.fields.channel, thread |-> r.fields.ts, at_most |-> r.fields.limit]
  ELSE Nothing

\* What an address is told, which its request is nothing without.
Needs(url) ==
  CASE url = "oauth.access"  -> {"code"}
    [] url = "chat.post"     -> {"channel", "markdown_text"}
    [] url = "chat.update"   -> {"channel", "ts", "markdown_text"}
    [] url = "rooms.create"  -> {"name"}
    [] url = "rooms.purpose" -> {"channel", "purpose"}
    [] url = "rooms.topic"   -> {"channel", "topic"}
    [] url = "rooms.invite"  -> {"channel", "users"}
    [] url = "rooms.archive" -> {"channel"}
    [] url = "reactions.add" -> {"channel", "timestamp", "name"}
    [] OTHER                 -> {}

call(r) ==
  LET f == r.fields
  IN  CASE r.method = "GET" -> read_call(r)
        [] r.method # "GET" /\ ~Says(r, Needs(r.url)) -> Nothing
        [] r.url = "auth.test"        -> [call |-> "WhoAmI"]
        [] r.url = "connections.open" -> [call |-> "OpenSocket"]
        [] r.url = "oauth.access"     -> [call |-> "Exchange", code |-> f.code]
        [] r.url = "rooms.create"     -> [call |-> "CreateRoom", name |-> f.name]
        [] r.url = "rooms.purpose"    -> [call |-> "SetPurpose", room |-> f.channel, purpose |-> f.purpose]
        [] r.url = "rooms.topic"      -> [call |-> "SetTopic", room |-> f.channel, topic |-> f.topic]
        [] r.url = "rooms.invite"     -> [call |-> "Invite", room |-> f.channel, user |-> f.users]
        [] r.url = "rooms.archive"    -> [call |-> "Archive", room |-> f.channel]
        [] r.url = "reactions.add" /\ f.name \in {"eyes", "white_check_mark"} ->
             [call |-> "React", room |-> f.channel, message |-> f.timestamp,
              reaction |-> IF f.name = "eyes" THEN "Seen" ELSE "Done"]
        [] r.url = "chat.update"      -> [call |-> "Update", room |-> f.channel, message |-> f.ts, text |-> f.markdown_text]
        [] r.url = "chat.post"        -> [call |-> "Post", room |-> f.channel, text |-> f.markdown_text,
                                          thread |-> IF Says(r, {"thread_ts"}) THEN f.thread_ts ELSE None]
        [] OTHER                      -> Nothing

----------------------------------------------------------------------------
(* A job's name, and where it is met.                                        *)

Letters == {"a", "b", "e", "f", "j", "m", "n", "o", "r", "1"}
Lowered(c) == IF c = "A" THEN "a" ELSE c
Raised(c)  == IF c = "a" THEN "A" ELSE c

\* Text as a piece of a name: what is no letter or digit parts words, and is one hyphen.
Folded(text) ==
  FoldLeft(LAMBDA kept, c : IF Lowered(c) \in Letters THEN Append(kept, Lowered(c))
                            ELSE IF kept # <<>> /\ ~Ends(kept, "-") THEN Append(kept, "-") ELSE kept,
           <<>>, text)

slug(text, at_most) ==
  LET folded == Folded(text)
      cut == SubSeq(folded, 1, at_most)
      breaks == Where(cut, "-")
  IN  TrimEnd(IF Len(folded) <= at_most THEN folded
              ELSE IF folded[at_most + 1] # "-" /\ ~Ends(cut, "-") /\ breaks # {}
              THEN Before(cut, Largest(breaks)) ELSE cut, "-")

Separator == <<"-", "-">>
AtMost == TitleAtMost + Len(Separator) + SuffixChars
Job     == <<"j", "o", "b">>
Foreman == <<"f", "o", "r", "e", "m", "a", "n">>

\* A project's identifier, what is minted for a job, and an older job's whole name.
Ids    == {<<"1", "a", "b">>}
Minted == <<"b", "1", "a">>
Older  == <<"1", "-", "b">>

named(title, minted) ==
  LET name == slug(title, TitleAtMost)
  IN  (IF name = <<>> THEN Job ELSE name) \o Separator \o SubSeq(minted, 1, SuffixChars)

IsJobId(text) ==
  /\ text # <<>> /\ Len(text) <= AtMost /\ ~Starts(text, "-") /\ ~Ends(text, "-")
  /\ ToSet(text) \subseteq Letters \union {"-"}

JobParse(text) == IF IsJobId(text) THEN text ELSE <<None>>

room_name(project, job) ==
  LET part == slug(project, ProjectAtMost)
  IN  IF part = <<>> THEN job ELSE part \o Separator \o job

foreman_room_name(project, id) ==
  LET part == slug(project, ProjectAtMost)
      spent == Len(part) + IdentifierChars + Len(Separator) + (IF part = <<>> THEN 0 ELSE Len(Separator))
      title == slug(Foreman, NameAtMost - spent)
      kept == SelectSeq(<<part, title>>, LAMBDA piece : piece # <<>>)
  IN  FlattenSeq([i \in DOMAIN kept |-> kept[i] \o Separator]) \o SubSeq(id, 1, IdentifierChars)

\* A container is named for its job or for its foreman's project, and says so.
container(job) == <<"stageman-job-">> \o job
foreman_container(project) == <<"stageman-foreman-">> \o project
job_of(name) == IF Starts(name, "stageman-job-") THEN JobParse(Tail(name)) ELSE <<None>>
project_of(name) == IF Starts(name, "stageman-foreman-") /\ Tail(name) \in Ids THEN Tail(name) ELSE <<None>>

\* Labels of a name of a machine, between its dots.
IsLabelled(name) ==
  LET dots == Where(name, ".") \union {0, Len(name) + 1}
  IN  \A i, k \in dots : i < k /\ (\A j \in dots : j <= i \/ k <= j) =>
        LET label == SubSeq(name, i + 1, k - 1)
        IN  /\ label # <<>> /\ Len(label) <= LabelLimit
            /\ ~Starts(label, "-") /\ ~Ends(label, "-")
            /\ ToSet(label) \subseteq Letters \union {"-"}

\* The name a person says the instance is on, whatever was pasted with it.
domain_parse(text) ==
  LET trimmed == Trim(text, " ")
      bare == IF Starts(trimmed, "https://") \/ Starts(trimmed, "http://") THEN Tail(trimmed) ELSE trimmed
      named_only == Before(bare, Smallest({Len(bare) + 1} \union Where(bare, "/")))
      name == TrimEnd([i \in DOMAIN named_only |-> Lowered(named_only[i])], ".")
  IN  IF name # <<>> /\ Len(name) <= HostnameLimit /\ IsLabelled(name) THEN name ELSE <<None>>

\* A job's page is on a name under the instance's.
Domain == <<"localhost">>
address(job) == job \o <<".">> \o Domain

hostname(host) ==
  LET trimmed == Trim(host, " ")
      bare == Before(trimmed, Smallest({Len(trimmed) + 1} \union Where(trimmed, ":")))
  IN  [i \in DOMAIN TrimEnd(bare, ".") |-> Lowered(bare[i])]

decode(host) ==
  LET name == hostname(host)
      label == Before(name, Len(name) - 1)
  IN  CASE name = <<>> \/ ~Ends(name, Domain[1]) -> <<"Dashboard">>
        [] Ends(name, Domain[1]) /\ ~Ends(Front(name), ".") -> <<"Dashboard">>
        [] OTHER -> JobParse(label)

----------------------------------------------------------------------------
(* What is referred to: a repository, a message, a room.                     *)

https(repository) == <<"https://", "github.com", "/", repository.owner, "/", repository.name>>

NoAddress == [owner |-> None, name |-> None]

RepositoryParse(text) ==
  LET trimmed == Trim(text, " ")
      path == TrimEnd(After(trimmed, 3), "/")
      bare == IF Ends(path, ".git") THEN Front(path) ELSE path
  IN  IF /\ Starts(trimmed, "https://") /\ Len(trimmed) > 3
         /\ trimmed[2] \in {"github.com", "GitHub.com", "www.github.com"} /\ trimmed[3] = "/"
         /\ Len(bare) = 3 /\ bare[2] = "/" /\ "/" \notin {bare[1], bare[3]}
      THEN [owner |-> bare[1], name |-> bare[3]]
      ELSE NoAddress

reference(message) == <<message.room, "/", message.id>>
NoMessage == [room |-> None, id |-> None]

referenced(text) ==
  LET trimmed == Trim(text, " ")
      slashes == Where(trimmed, "/")
  IN  IF Len(trimmed) = 3 /\ slashes = {2} THEN [room |-> trimmed[1], id |-> trimmed[3]] ELSE NoMessage

room_link(room) == <<"<#", room, ">">>

room_referenced(text) ==
  LET trimmed == Trim(text, " ")
      inner == IF Starts(trimmed, "<#") /\ Ends(trimmed, ">") THEN Tail(Front(trimmed)) ELSE trimmed
      id == Before(inner, Smallest({Len(inner) + 1} \union Where(inner, "|")))
  IN  IF id = <<"C">> THEN id[1] ELSE None

----------------------------------------------------------------------------
(* A text longer than a post holds, and a thread.                            *)

\* Where a character is in bytes: "w" is wider than a byte, "n" ends a line.
Offset(text, i) == i - 1 + Cardinality(Where(Before(text, i), "w"))

\* How many characters the next post takes; 0 when it takes what there is.
cut_point(rest) ==
  LET limit == Offset(rest, PostAtMost + 1)
      breaks == {i \in 1..PostAtMost : rest[i] = "n" /\ Offset(rest, i) >= limit \div 2}
  IN  IF Len(rest) <= PostAtMost THEN 0
      ELSE IF breaks = {} THEN PostAtMost ELSE Largest(breaks) - 1

pieces(text) ==
  LET from[i \in 1..Len(text) + 1] ==
        LET rest == SubSeq(text, i, Len(text))
            next == i + cut_point(rest)
        IN  IF cut_point(rest) = 0 THEN <<rest>>
            ELSE <<SubSeq(text, i, next - 1)>>
                 \o from[IF Starts(SubSeq(text, next, Len(text)), "n") THEN next + 1 ELSE next]
  IN  from[1]

\* A thread as the platform has it: who said each message, and whether it names us.
Messages == {[by |-> "Person", names_us |-> TRUE], [by |-> "Person", names_us |-> FALSE],
             [by |-> "App", names_us |-> TRUE], [by |-> "Us", names_us |-> TRUE]}

Threads == [said : UpTo(Messages, MaxThread), handling : 1..MaxThread + 1, whole : BOOLEAN]

\* What is read of it, if it can be: which of its messages mention us.
Unread == {0}
thread_read(thread) ==
  {i \in DOMAIN thread.said : thread.said[i].by = "Person" /\ thread.said[i].names_us}

\* Handed to us: a person's mention, or an app's message in an app's thread.
IsGiven(thread, mentioning, i) ==
  \/ i \in mentioning
  \/ /\ thread.said[i].by = "App"
     /\ thread.handling \in DOMAIN thread.said /\ thread.said[thread.handling].by = "App"

Earlier(thread) == {i \in DOMAIN thread.said : i < thread.handling}

\* What is shown of it before the message in hand: all, or from where the agent was
\* last brought in, and how it began.
thread_context(thread, mentioning) ==
  LET ours == {i \in Earlier(thread) : thread.said[i].by = "Us"}
      asked == {i \in Earlier(thread) : ours # {} /\ i < Largest(ours) /\ IsGiven(thread, mentioning, i)}
  IN  IF mentioning = Unread THEN Unread
      ELSE {i \in Earlier(thread) : thread.whole \/ asked = {} \/ i = 1 \/ i >= Largest(asked)}

----------------------------------------------------------------------------
(* A meaning put into words, carried, and taken.                             *)

About(subject, things) == [of : {subject}, it : things]

Namings == [title : UpTo({"a", "A", " "}, MaxTitle), older : BOOLEAN,
          project : {<<>>, <<"a">>, <<"a", "b", " ", "m", "n", "o">>}, id : Ids]

Meanings ==
  About("Command", Commands) \union About("Call", Calls) \union About("Job", Namings)
  \union About("Repository", [owner : {"owner"}, name : {"name"}])
  \union About("Message", [room : {"C"}, id : {"1.2"}]) \union About("Room", {"C"})
  \union About("Domain", {name \in UpTo({"a", "-", "."}, HostnameLimit) : domain_parse(name) = name})
  \union About("Text", UpTo({"c", "w", "n"}, MaxText)) \union About("Thread", Threads)

NameOf(it) == IF it.older THEN Older ELSE named(it.title, Minted)

Put(m) ==
  CASE m.of = "Command"    -> arguments(m.it)
    [] m.of = "Call"       -> Request(m.it)
    [] m.of = "Job"        -> address(NameOf(m.it))
    [] m.of = "Repository" -> https(m.it)
    [] m.of = "Message"    -> reference(m.it)
    [] m.of = "Room"       -> room_link(m.it)
    [] m.of = "Domain"     -> m.it
    [] m.of = "Text"       -> pieces(m.it)
    [] m.of = "Thread"     -> thread_read(m.it)

Take(m, w) ==
  CASE m.of = "Command"    -> parse(w)
    [] m.of = "Call"       -> call(w)
    [] m.of = "Job"        -> decode(w)
    [] m.of = "Repository" -> RepositoryParse(w)
    [] m.of = "Message"    -> referenced(w)
    [] m.of = "Room"       -> room_referenced(w)
    [] m.of = "Domain"     -> domain_parse(w)
    [] m.of = "Text"       -> FlattenSeq(w)
    [] m.of = "Thread"     -> thread_context(m.it, w)

\* What whoever carries the words may make of them, and mean the same: a person who
\* pastes, a browser, an agent, a platform. A thread may not be read at all.
Spaced(w) == <<" ">> \o w \o <<" ">>

Spellings(m, w) ==
  CASE m.of = "Job" -> {Spaced([i \in DOMAIN w |-> Raised(w[i])] \o <<".">>), w \o <<":", "1">>}
    [] m.of = "Repository" ->
         {Spaced([w EXCEPT ![2] = host] \o tail) : host \in {"GitHub.com", "www.github.com"},
                                                   tail \in {<<"/">>, <<".git">>, <<".git", "/">>}}
    [] m.of = "Message" -> {Spaced(w)}
    [] m.of = "Room" -> {Spaced(w), <<"<#", m.it, "|", "name", ">">>, <<m.it>>}
    [] m.of = "Domain" -> {Spaced(<<"https://">> \o [i \in DOMAIN w |-> Raised(w[i])] \o <<"/", "a">>), w \o <<".">>}
    [] m.of = "Thread" -> {Unread}
    [] OTHER -> {}

Init == meant \in Meanings /\ words = {} /\ taken = {} /\ at = "Meant"

Puts == at = "Meant" /\ at' = "Put" /\ words' = Put(meant) /\ UNCHANGED <<meant, taken>>

Carries ==
  /\ at = "Put" /\ at' = "Carried"
  /\ words' \in Spellings(meant, words)
  /\ UNCHANGED <<meant, taken>>

Takes ==
  /\ at \in {"Put", "Carried"} /\ at' = "Taken"
  /\ taken' = Take(meant, words)
  /\ UNCHANGED <<meant, words>>

Next == Puts \/ Carries \/ Takes

Spec == Init /\ [][Next]_vars

----------------------------------------------------------------------------
TypeOK == meant \in Meanings /\ at \in {"Meant", "Put", "Carried", "Taken"}

Is(subject) == at = "Taken" /\ meant.of = subject

\* A purpose and a topic are set as far as the platform takes them.
AsSent(c) == IF c.call = "SetPurpose" THEN [c EXCEPT !.purpose = fitting(@)]
             ELSE IF c.call = "SetTopic" THEN [c EXCEPT !.topic = fitting(@)] ELSE c

\* What comes back is what was meant: a command, a call, a repository, a domain, a
\* message and a room are read from their words, however those were spelled on the
\* way, as they were (Command::parse, Call::parse, RepositoryAddress::parse,
\* Domain::parse, referenced).
TakenAsMeant ==
  /\ \A subject \in {"Command", "Repository", "Domain", "Message", "Room"} : Is(subject) => taken = meant.it
  /\ Is("Call") => taken = AsSent(meant.it)

\* The longest whole words of a title that fit, and of a longer word what fits.
WholeWords(folded, n) ==
  LET fitting_words == {i \in DOMAIN folded : i <= n /\ folded[i] # "-" /\ (i = Len(folded) \/ folded[i + 1] = "-")}
  IN  IF fitting_words # {} THEN SubSeq(folded, 1, Largest(fitting_words))
      ELSE SubSeq(folded, 1, IF Len(folded) < n THEN Len(folded) ELSE n)

\* A job's name is the same wherever it is met: its page and its container lead back
\* to it and to no foreman, its room fits with its name whole, and what it keeps of a
\* title is whole words (JobId, slug, room_name, decode, job_of).
NamesLeadBack ==
  Is("Job") =>
    LET name == NameOf(meant.it)
        room == room_name(meant.it.project, name)
        office == foreman_room_name(meant.it.project, meant.it.id)
    IN  /\ taken = name /\ job_of(container(name)) = name /\ project_of(container(name)) = <<None>>
        /\ project_of(foreman_container(meant.it.id)) = meant.it.id
        /\ job_of(foreman_container(meant.it.id)) = <<None>>
        /\ \A r \in {room, office} : Len(r) <= NameAtMost /\ ToSet(r) \subseteq Letters \union {"-"}
        /\ IsSuffix(name, room) /\ IsSuffix(SubSeq(meant.it.id, 1, IdentifierChars), office)
        /\ slug(meant.it.title, TitleAtMost) = WholeWords(Folded(meant.it.title), TitleAtMost)

\* A text reaches its room whole: each post holds what the platform takes, and together
\* they say the text but for a line's end where one follows another (pieces).
PostedWhole ==
  Is("Text") =>
    LET Said(text) == SelectSeq(text, LAMBDA c : c # "n")
    IN  /\ \A i \in DOMAIN words : Len(words[i]) <= PostAtMost
        /\ Said(taken) = Said(meant.it)
        /\ Len(meant.it) - Len(taken) < Len(words)

\* An agent is shown what was asked of it in a thread and not answered there, with
\* all that followed up to the message in hand, which it is not shown twice
\* (thread_context).
AskedIsShown ==
  Is("Thread") /\ words # Unread =>
    /\ taken \subseteq Earlier(meant.it)
    /\ \A i \in Earlier(meant.it) :
         /\ IsGiven(meant.it, words, i)
         /\ \A k \in Earlier(meant.it) : k > i => meant.it.said[k].by # "Us"
         => {k \in Earlier(meant.it) : k >= i} \subseteq taken
=============================================================================
