------------------------------- MODULE CodexTurn -------------------------------
(***************************************************************************)
(* One agent turn of skivolve/codex_app_server.py: the JSON-RPC session     *)
(* with the Codex app server, from initialize to the outcome.  The client   *)
(* has one request outstanding at a time; whatever else it reads while it   *)
(* waits is a notification, which may be about anything and come before     *)
(* the response of the request that caused it.  The client turns this       *)
(* stream into one outcome, or fails.                                       *)
(*                                                                         *)
(* The server is external: it answers, runs the turn, and tells of changes  *)
(* to skills and rate limits as they happen, through a pipe that keeps      *)
(* order.  A server that deviates repeats a frame, sends frames of another  *)
(* thread or turn, an answer the client must not accept, or a forbidden     *)
(* frame.  Whether one field of an answer is right is not told apart from   *)
(* the next: an answer passes all its comparisons, or it is a "refusal".    *)
(***************************************************************************)
EXTENDS Naturals, Sequences, FiniteSets, SequencesExt, TLC

CONSTANTS
  Skills,          \* skills the app server brings along
  Buckets,         \* rate-limit buckets
  MaxBuckets,      \* the client's limit on buckets
  MaxPages,        \* the client's limit on pages of one listing
  MaxMessages,     \* the client's limit on agent messages, which the server keeps to
  MaxNotices,      \* bound on changes of skills and limits
  MaxChannel,      \* bound on frames in the pipe
  MaxDeviations    \* bound on deviations of the server

ASSUME BoundsAssumption ==
  {MaxBuckets, MaxPages, MaxMessages, MaxNotices, MaxChannel, MaxDeviations} \subseteq Nat

VARIABLES
  stage, asked,     \* the request the client is at, and whether it was sent
  listing,          \* what _paged has read of the current listing
  todo,             \* enabled skills _disable_skills has yet to write
  id,               \* thread and turn: announced, and from the response
  messages, usage,  \* completed agent messages, last token usage
  rolling,          \* rate limits, by bucket, kept up to date
  outcome,          \* what run returns
  why,              \* why it has failed
  request,          \* the request the server has not answered yet
  channel,          \* frames on their way to the client
  enabled, limits,  \* the server's skills and rate limits
  turn,             \* the server's turn: how far it is, its messages and tokens
  tainted,          \* history: a skill was enabled during the turn
  notices, deviations

client == <<stage, asked, listing, todo, id, messages, usage, rolling, outcome, why>>
server == <<enabled, limits, turn, tainted>>
counts == <<notices, deviations>>
vars   == <<client, request, channel, server, counts>>

Fields == {"primary", "secondary"}
Phases == {"none", "commentary", "final_answer"}

Requests == {"initialize", "models", "profiles", "account", "before", "list", "write",
             "relist", "thread", "turn", "after"}
Ended    == {"done", "failed"}

-----------------------------------------------------------------------------
(* Frames *)

Response(kind, body) == [kind |-> kind, body |-> body]

\* A frame with the thread and the turn it names.
Scoped(kind, th, tu, body) == [kind |-> kind, thread |-> th, turn |-> tu, body |-> body]
Own(kind, body) == Scoped(kind, "own", "own", body)

\* Nobody reads any more when the client has ended.
Send(frames) ==
  /\ stage \notin Ended
  /\ Len(channel) + Len(frames) <= MaxChannel
  /\ channel' = channel \o frames

Unread == [pages |-> 0, cursors |-> {}, matches |-> 0]

Init ==
  /\ stage = "initialize" /\ asked = FALSE /\ listing = Unread /\ todo = {}
  /\ id = [announced_thread |-> "none", thread |-> "none", announced_turn |-> "none",
           turn |-> "none"]
  /\ messages = <<>> /\ usage = 0 /\ rolling = << >> /\ outcome = << >> /\ why = "none"
  /\ request = "none" /\ channel = <<>>
  /\ enabled \in SUBSET Skills
  /\ limits \in [{b \in Buckets : b = CHOOSE c \in Buckets : TRUE} -> [Fields -> {0}]]
  /\ turn = [state |-> "none", said |-> <<>>, tokens |-> 0]
  /\ tainted = FALSE /\ notices = 0 /\ deviations = 0

-----------------------------------------------------------------------------
(* The client: requests *)

Fail(reason) ==
  /\ stage' = "failed" /\ why' = reason
  /\ UNCHANGED <<asked, listing, todo, id, messages, usage, rolling, outcome>>

\* A request is sent; turn/start is accounted at once, and fails if that does.
Ask ==
  /\ stage \in Requests /\ ~asked
  /\ request' = stage
  /\ \/ /\ asked' = TRUE
        /\ UNCHANGED <<stage, listing, todo, id, messages, usage, rolling, outcome, why>>
     \/ stage = "turn" /\ Fail("dispatch")
  /\ UNCHANGED <<channel, server, counts>>

\* The deadline, an I/O error, or more frames than the limit.
GiveUp ==
  /\ stage \notin Ended
  /\ Fail("deadline")
  /\ UNCHANGED <<request, channel, server, counts>>

Reads(kind) ==
  /\ stage \notin Ended /\ (asked \/ stage = "wait")
  /\ channel # <<>> /\ Head(channel).kind = kind
  /\ channel' = Tail(channel)
  /\ UNCHANGED <<request, server, counts>>

Frame == Head(channel)

\* The client goes on to the next request.
Proceed(next) == stage' = next /\ asked' = FALSE /\ UNCHANGED why

\* A malformed response, an error, an unknown id, or one that differs from what
\* was asked for; a response nobody waits for.
ReadRefusal == Reads("refusal") /\ Fail("refused")

ReadInitialized ==
  /\ Reads("initialized") /\ Proceed("models")
  /\ UNCHANGED <<listing, todo, id, messages, usage, rolling, outcome>>

ReadAccount ==
  /\ Reads("account") /\ Proceed("before")
  /\ UNCHANGED <<listing, todo, id, messages, usage, rolling, outcome>>

\* The pinned model, or the permission profile, is listed once.
Wanted(matches) == matches = 1

\* _paged: pages until one has no cursor; a cursor may not come twice, nor too many
\* pages, and exactly one entry must be the one looked for.
ReadPage ==
  /\ Reads("page")
  /\ LET page    == Frame.body
         matches == listing.matches + page.matches
         last    == page.cursor = 0
     IN IF \/ page.cursor \in listing.cursors
           \/ ~last /\ listing.pages + 1 = MaxPages
           \/ last /\ ~Wanted(matches)
          THEN Fail("refused")
          ELSE /\ listing' = IF last THEN Unread
                             ELSE [pages   |-> listing.pages + 1,
                                   cursors |-> listing.cursors \cup {page.cursor},
                                   matches |-> matches]
               /\ Proceed(IF ~last THEN stage
                          ELSE IF stage = "models" THEN "profiles" ELSE "account")
               /\ UNCHANGED <<todo, id, messages, usage, rolling, outcome>>

\* The first reading starts the rolling limits; the last one completes the outcome.
ReadLimits ==
  /\ Reads("limits")
  /\ IF Cardinality(DOMAIN Frame.body) > MaxBuckets THEN Fail("limits")
     ELSE IF stage = "before"
       THEN /\ Proceed("list") /\ rolling' = Frame.body
            /\ UNCHANGED <<listing, todo, id, messages, usage, outcome>>
     ELSE IF usage = 0 THEN Fail("final")
     ELSE /\ Proceed("done")
          /\ outcome' = [text |-> Last(messages).key, tokens |-> usage,
                         rolling |-> rolling, after |-> Frame.body]
          /\ UNCHANGED <<listing, todo, id, messages, usage, rolling>>

\* _disable_skills: list, write every enabled one, list again.
ReadSkills ==
  /\ Reads("skills")
  /\ IF stage = "relist" /\ Frame.body # {} THEN Fail("skills")
     ELSE /\ todo' = Frame.body
          /\ Proceed(IF stage = "relist" THEN "thread"
                     ELSE IF Frame.body = {} THEN "relist" ELSE "write")
          /\ UNCHANGED <<listing, id, messages, usage, rolling, outcome>>

\* The skill whose turn it is (the code sorts the paths).
NextSkill == CHOOSE s \in todo : TRUE

ReadWritten ==
  /\ Reads("written")
  /\ todo' = todo \ {NextSkill}
  /\ Proceed(IF todo' = {} THEN "relist" ELSE "write")
  /\ UNCHANGED <<listing, id, messages, usage, rolling, outcome>>

\* Mutant of Agrees: a response needs an announcement before it.
AgreesStrict(announced) == id[announced] = Frame.body

\* The id of a response must be the one announced before it, if there was any.
Agrees(announced) == id[announced] \in {"none", Frame.body}

ReadThread ==
  /\ Reads("thread")
  /\ IF Agrees("announced_thread")
       THEN /\ Proceed("turn") /\ id' = [id EXCEPT !.thread = Frame.body]
            /\ UNCHANGED <<listing, todo, messages, usage, rolling, outcome>>
       ELSE Fail("scope")

ReadTurn ==
  /\ Reads("turn")
  /\ IF Agrees("announced_turn")
       THEN /\ Proceed("wait") /\ id' = [id EXCEPT !.turn = Frame.body]
            /\ UNCHANGED <<listing, todo, messages, usage, rolling, outcome>>
       ELSE Fail("scope")

-----------------------------------------------------------------------------
(* The client: notifications *)

\* Reroutes, errors, requests of the server, forbidden and unknown notifications.
ReadForbidden == Reads("forbidden") /\ Fail("refused")

Merge(current, update) == update @@ current

\* account/rateLimits/updated: merged into its bucket, once there is something to merge
\* with.  (The snapshot that is not of a bucket is merged in the same way.)
ReadLimitsUpdated ==
  /\ Reads("limits_updated")
  /\ LET b     == Frame.bucket
         known == IF b \in DOMAIN rolling THEN rolling[b] ELSE << >>
     IN IF rolling = << >>
          THEN UNCHANGED client
          ELSE IF b \notin DOMAIN rolling /\ Cardinality(DOMAIN rolling) >= MaxBuckets
          THEN Fail("limits")
          ELSE /\ rolling' = (b :> Merge(known, Frame.body)) @@ rolling
               /\ UNCHANGED <<stage, asked, listing, todo, id, messages, usage, outcome, why>>

\* Mutant of Disabling: changes are accepted until the thread is there.
DisablingLonger == stage \in {"list", "write", "relist", "thread"}
Disabling == stage \in {"list", "write", "relist"}

ReadSkillsChanged ==
  /\ Reads("skills_changed")
  /\ IF Disabling THEN UNCHANGED client ELSE Fail("skills")

\* thread/started and turn/started: once each; a turn must be of the known thread.
ReadThreadStarted ==
  /\ Reads("thread_started")
  /\ IF id.announced_thread # "none" THEN Fail("twice")
     ELSE /\ id' = [id EXCEPT !.announced_thread = Frame.thread]
          /\ UNCHANGED <<stage, asked, listing, todo, messages, usage, rolling, outcome, why>>

ReadTurnStarted ==
  /\ Reads("turn_started")
  /\ IF Frame.thread # id.thread THEN Fail("scope")
     ELSE IF id.announced_turn # "none" THEN Fail("twice")
     ELSE /\ id' = [id EXCEPT !.announced_turn = Frame.turn]
          /\ UNCHANGED <<stage, asked, listing, todo, messages, usage, rolling, outcome, why>>

\* Mutant of MatchesTurn: only the thread is compared.
MatchesThread == Frame.thread = id.thread

\* The frame is of this thread and this turn, and both are known.
MatchesTurn == Frame.thread = id.thread /\ Frame.turn = id.turn

ReadUsage ==
  /\ Reads("usage")
  /\ IF ~MatchesTurn THEN Fail("scope")
     ELSE /\ usage' = Frame.body
          /\ UNCHANGED <<stage, asked, listing, todo, id, messages, rolling, outcome, why>>

\* Items other than agent messages, and what is ignored but must be in scope.
ReadItem ==
  /\ Reads("item")
  /\ IF MatchesTurn THEN UNCHANGED client ELSE Fail("scope")

\* thread/status/changed names a thread only.
ReadStatus ==
  /\ Reads("status")
  /\ IF Frame.thread = id.thread THEN UNCHANGED client ELSE Fail("scope")

ReadMessage ==
  /\ Reads("message")
  /\ IF ~MatchesTurn THEN Fail("scope")
     ELSE IF Len(messages) >= MaxMessages THEN Fail("refused")
     ELSE /\ messages' = Append(messages, Frame.body)
          /\ UNCHANGED <<stage, asked, listing, todo, id, usage, rolling, outcome, why>>

\* Mutant of FinalAnswer: the phases of the messages are not looked at.
FinalAnswerAny(said, view, items) == said # <<>> /\ (view = "full" => items = said)

\* _finalize_turn: what was heard is what the turn says of itself, no message comes twice,
\* and the last one is the only final answer, or nothing but the last one.
FinalAnswer(said, view, items) ==
  /\ said # <<>>
  /\ view = "full" => items = said
  /\ \A i, j \in DOMAIN said : said[i].key = said[j].key => i = j
  /\ Last(said).phase # "commentary"
  /\ \A i \in DOMAIN said : said[i].phase = "final_answer" => i = Len(said)

\* turn/completed, after which the turn is finalized before anything else is read.
ReadCompleted ==
  /\ Reads("completed")
  /\ LET end == Frame.body IN
     IF Frame.thread # id.thread \/ Frame.turn # id.turn THEN Fail("scope")
     ELSE IF stage # "wait" THEN Fail("twice")
     ELSE IF end.status # "completed" \/ ~FinalAnswer(messages, end.view, end.items)
     THEN Fail("final")
     ELSE /\ Proceed("after")
          /\ UNCHANGED <<listing, todo, id, messages, usage, rolling, outcome>>

-----------------------------------------------------------------------------
(* The server *)

Answers(to) == request \in to /\ request' = "none" /\ UNCHANGED <<client, counts>>

AnswerSimple ==
  /\ Answers({"initialize", "account"})
  /\ Send(<<Response(IF request = "account" THEN "account" ELSE "initialized", "none")>>)
  /\ UNCHANGED server

\* The entry looked for is on the last page.
AnswerPage ==
  /\ Answers({"models", "profiles"})
  /\ \E more \in BOOLEAN :
       /\ more => listing.pages + 1 < MaxPages
       /\ Send(<<Response("page", [matches |-> IF more THEN 0 ELSE 1,
                                   cursor  |-> IF more THEN listing.pages + 1 ELSE 0])>>)
  /\ UNCHANGED server

AnswerLimits ==
  /\ Answers({"before", "after"})
  /\ Send(<<Response("limits", limits)>>)
  /\ UNCHANGED server

AnswerSkills ==
  /\ Answers({"list", "relist"})
  /\ Send(<<Response("skills", enabled)>>)
  /\ UNCHANGED server

\* Writing the configuration is itself a change that is told.
AnswerWrite ==
  /\ Answers({"write"})
  /\ enabled' = enabled \ {NextSkill}
  /\ Send(<<[kind |-> "skills_changed"], Response("written", "none")>>)
  /\ UNCHANGED <<limits, turn, tainted>>

\* Announcement and response, in either order; the announcement may be missing.
EitherOrder(a, b) == {<<a, b>>, <<b, a>>, <<b>>}

AnswerThread ==
  /\ Answers({"thread"})
  /\ \E frames \in EitherOrder(Own("thread_started", "none"), Response("thread", "own")) :
       Send(frames)
  /\ UNCHANGED server

AnswerTurn ==
  /\ Answers({"turn"})
  /\ \E frames \in EitherOrder(Own("turn_started", "none"), Response("turn", "own")) :
       Send(frames)
  /\ turn' = [turn EXCEPT !.state = "running"]
  /\ tainted' = (enabled # {})
  /\ UNCHANGED <<enabled, limits>>

Running == turn.state = "running" /\ UNCHANGED <<client, request, enabled, limits, tainted, counts>>

\* A message is completed; its tokens are told with it, or not.
Say ==
  /\ Running /\ Len(turn.said) < MaxMessages
  /\ \E phase \in Phases :
       LET m == [key |-> Len(turn.said) + 1, phase |-> phase]
           n == turn.tokens + 1
       IN \E tell \in {<<>>, <<Own("usage", n)>>} :
            /\ turn' = [turn EXCEPT !.said = Append(@, m),
                                    !.tokens = IF tell = <<>> THEN @ ELSE n]
            /\ Send(<<Own("message", m)>> \o tell)

Work ==
  /\ Running
  /\ \E f \in {Own("item", "none"), Own("status", "none")} : Send(<<f>>)
  /\ UNCHANGED turn

EndTurn ==
  /\ Running
  /\ turn' = [turn EXCEPT !.state = "ended"]
  /\ \E status \in {"completed", "failed"}, view \in {"full", "notLoaded"} :
       Send(<<Own("completed", [status |-> status, view |-> view,
                                items |-> IF view = "full" THEN turn.said ELSE <<>>])>>)

\* A skill is switched on or off at any time.
ChangeSkill ==
  /\ notices < MaxNotices /\ notices' = notices + 1
  /\ \E s \in Skills : enabled' = IF s \in enabled THEN enabled \ {s} ELSE enabled \cup {s}
  /\ tainted' = (tainted \/ (turn.state = "running" /\ enabled' # {}))
  /\ Send(<<[kind |-> "skills_changed"]>>)
  /\ UNCHANGED <<client, request, limits, turn, deviations>>

\* One field of a bucket changes, or a bucket appears; only what has changed is told.
ChangeLimits ==
  /\ notices < MaxNotices /\ notices' = notices + 1
  /\ \E b \in Buckets, f \in Fields :
       LET new    == IF b \in DOMAIN limits THEN [limits[b] EXCEPT ![f] = @ + 1]
                     ELSE [g \in Fields |-> 0]
           update == IF b \in DOMAIN limits THEN f :> new[f] ELSE new
       IN /\ limits' = (b :> new) @@ limits
          /\ Send(<<[kind |-> "limits_updated", bucket |-> b, body |-> update]>>)
  /\ UNCHANGED <<client, request, enabled, turn, tainted, deviations>>

Foreign ==
  {Scoped(k, th, tu, 9) : k \in {"usage", "item", "turn_started"},
                          th \in {"own", "other"}, tu \in {"other"}}
  \cup {Scoped("message", "own", "other", [key |-> 9, phase |-> "final_answer"]),
        Scoped("completed", "own", "other",
               [status |-> "completed", view |-> "notLoaded", items |-> <<>>]),
        Scoped("thread_started", "other", "other", "none")}

Notifications == {"thread_started", "turn_started", "usage", "item", "status", "message",
                  "completed", "limits_updated", "skills_changed"}

\* A frame that does not belong here.  (A response that comes twice is a refusal the second
\* time: its id is not the pending one.)
Deviate ==
  /\ deviations < MaxDeviations /\ deviations' = deviations + 1
  /\ \/ \E f \in Foreign \cup {[kind |-> "forbidden"], [kind |-> "refusal"]} : Send(<<f>>)
     \/ /\ channel # <<>> /\ Last(channel).kind \in Notifications
        /\ Send(<<Last(channel)>>)
  /\ UNCHANGED <<client, request, server, notices>>

-----------------------------------------------------------------------------
Client ==
  \/ Ask \/ GiveUp \/ ReadRefusal \/ ReadInitialized \/ ReadAccount \/ ReadPage
  \/ ReadLimits \/ ReadSkills \/ ReadWritten \/ ReadThread \/ ReadTurn \/ ReadForbidden
  \/ ReadLimitsUpdated \/ ReadSkillsChanged \/ ReadThreadStarted \/ ReadTurnStarted
  \/ ReadUsage \/ ReadItem \/ ReadStatus \/ ReadMessage \/ ReadCompleted

Server ==
  \/ AnswerSimple \/ AnswerPage \/ AnswerLimits \/ AnswerSkills \/ AnswerWrite
  \/ AnswerThread \/ AnswerTurn \/ Say \/ Work \/ EndTurn \/ ChangeSkill \/ ChangeLimits
  \/ Deviate

Next == Client \/ Server
Spec == Init /\ [][Next]_vars

-----------------------------------------------------------------------------
(* Properties *)

\* An outcome is the last message and the last token count of the turn the server ran
\* for this request, ended and with a proper final answer, whatever frames of other
\* threads and turns, and whatever repetitions, were among the client's.
OutcomeIsOwnTurn ==
  stage = "done" =>
    /\ turn.state = "ended" /\ outcome.tokens = turn.tokens
    /\ turn.said # <<>> /\ outcome.text = Len(turn.said)
    /\ Last(turn.said).phase # "commentary"
    /\ \A i \in 1..(Len(turn.said) - 1) : turn.said[i].phase # "final_answer"

\* No outcome comes from a turn during which a skill was enabled at any moment, though
\* skills may be switched at any time, between any two requests.
SkillsStayDisabled == stage = "done" => ~tainted

\* A server that does not deviate is never refused for the order of its frames: the
\* client fails only for want of time, of accounting, of a proper end, of room for
\* buckets, or because a skill has changed.
HonestIsHeard ==
  stage = "failed" /\ deviations = 0 =>
    why \in {"deadline", "dispatch", "skills", "limits", "final"}
=============================================================================
