---------------------------- MODULE CodexTurnProofs ----------------------------
(* The safety of CodexTurn for any skills, buckets and limits, and for any    *)
(* number of notices, frames in the pipe and deviations of the server.        *)
EXTENDS CodexTurn, TLAPS

-----------------------------------------------------------------------------
(* The inductive invariant *)

\* The stages of the session before its thread, before its turn, and with it.
Early   == {"initialize", "models", "profiles", "account", "before", "list", "write", "relist"}
Turning == {"wait", "after"}
Stages  == Early \cup {"thread", "turn"} \cup Turning \cup Ended

Responses == {"initialized", "account", "page", "limits", "skills", "written", "thread", "turn"}
ScopedKinds == {"thread_started", "turn_started", "usage", "item", "status", "message", "completed"}
Kinds == Responses \cup Notifications \cup {"forbidden", "refusal"}

Message == [key : Nat, phase : Phases]

Names == {"none", "own", "other"}

\* At which stages a response is waited for.
StagesOf(kind) ==
  CASE kind = "initialized" -> {"initialize"}
    [] kind = "account"     -> {"account"}
    [] kind = "page"        -> {"models", "profiles"}
    [] kind = "limits"      -> {"before", "after"}
    [] kind = "skills"      -> {"list", "relist"}
    [] kind = "written"     -> {"write"}
    [] kind = "thread"      -> {"thread"}
    [] kind = "turn"        -> {"turn"}

\* What is in a frame, as far as it is looked at.
Fine(f) ==
  /\ f.kind \in Kinds
  /\ f.kind \in ScopedKinds => f.thread \in {"own", "other"} /\ f.turn \in {"own", "other"}
  /\ f.kind = "message" => f.body \in Message
  /\ f.kind = "usage" => f.body \in Nat
  /\ f.kind \in {"thread", "turn"} => f.body = "own"

\* A frame of the turn that the server runs.
IsOwn(f, kind) == f.kind = kind /\ f.thread = "own" /\ f.turn = "own"

Places == 1..Len(channel)

TypeOK ==
  /\ stage \in Stages /\ asked \in BOOLEAN /\ request \in Requests \cup {"none"}
  /\ id \in [announced_thread : Names, thread : {"none", "own"},
             announced_turn : Names, turn : {"none", "own"}]
  /\ messages \in Seq(Message) /\ usage \in Nat
  /\ turn \in [state : {"none", "running", "ended"}, said : Seq(Message), tokens : Nat]
  /\ enabled \subseteq Skills /\ tainted \in BOOLEAN /\ deviations \in Nat
  /\ channel \in Seq(Range(channel))

FramesInv == \A i \in Places : Fine(channel[i])

\* One request is outstanding at a time, and has one response.
RequestInv ==
  /\ request # "none" =>
       asked /\ request = stage /\ \A i \in Places : channel[i].kind \notin Responses
  /\ \A i \in Places : channel[i].kind \in Responses =>
       /\ asked /\ stage \in StagesOf(channel[i].kind)
       /\ \A j \in Places : channel[j].kind \in Responses => j = i

\* The turn begins with the answer to its request.
Unborn == stage \in Early \cup {"thread"} \/ (stage = "turn" /\ ~asked) \/ request = "turn"

TurnInv ==
  /\ Unborn <=> turn.state = "none"
  /\ stage \in Turning => id.thread = "own"
  /\ id.turn = "own" <=> stage \in Turning
  /\ stage = "turn" => id.thread = "own"
  /\ stage = "after" => turn.state = "ended"
  /\ turn.state = "none" =>
       /\ ~tainted /\ messages = <<>> /\ usage = 0
       /\ turn.said = <<>> /\ turn.tokens = 0
       /\ \A i \in Places : ~IsOwn(channel[i], "completed")

\* Once the server has answered the request for the turn, its answer is on its way.
AwaitedInv ==
  stage = "turn" /\ asked /\ request # "turn" => \E i \in Places : channel[i].kind = "turn"

\* Nothing is said after the turn has ended.
EndInv ==
  /\ \A i \in Places : IsOwn(channel[i], "completed") =>
       /\ turn.state = "ended"
       /\ \A j \in Places : IsOwn(channel[j], "message") \/ IsOwn(channel[j], "usage") => j < i
  /\ stage = "after" =>
       \A i \in Places : ~IsOwn(channel[i], "message") /\ ~IsOwn(channel[i], "usage")

\* The messages that are read and those on their way are what the server has said, in order;
\* once one is heard twice there will be no outcome.
Twice == \E i, j \in DOMAIN messages : messages[i].key = messages[j].key /\ i # j

SpokenInv ==
  /\ \A k \in DOMAIN turn.said : turn.said[k].key = k
  /\ \A i \in Places : IsOwn(channel[i], "message") =>
       LET m == channel[i].body IN m.key \in DOMAIN turn.said /\ m = turn.said[m.key]

HeardInv ==
  Twice \/
    /\ Len(messages) <= Len(turn.said)
    /\ \A k \in DOMAIN messages : messages[k] = turn.said[k]
    /\ \A i \in Places : IsOwn(channel[i], "message") =>
         /\ channel[i].body.key >= Len(messages)
         /\ \A k \in DOMAIN turn.said : Len(messages) < k /\ k < channel[i].body.key =>
              \E j \in Places : j < i /\ IsOwn(channel[j], "message") /\ channel[j].body.key = k
         /\ \A j \in Places : IsOwn(channel[j], "message") /\ i < j =>
              channel[i].body.key <= channel[j].body.key
    /\ \A k \in DOMAIN turn.said : Len(messages) < k =>
         \E i \in Places : IsOwn(channel[i], "message") /\ channel[i].body.key = k

\* So are the tokens.
UsageInv ==
  /\ \A i \in Places : IsOwn(channel[i], "usage") =>
       /\ usage <= channel[i].body /\ channel[i].body <= turn.tokens
       /\ \A j \in Places : IsOwn(channel[j], "usage") /\ i < j => channel[i].body <= channel[j].body
  /\ usage = turn.tokens \/ \E i \in Places : IsOwn(channel[i], "usage") /\ channel[i].body = turn.tokens

\* Once the turn has been read to its end, its last message is a final answer.
FinalInv ==
  stage = "after" =>
    /\ messages # <<>> /\ ~Twice /\ ~tainted
    /\ Last(messages).phase # "commentary"
    /\ \A i \in DOMAIN messages : messages[i].phase = "final_answer" => i = Len(messages)

\* From the second listing on, a skill that is enabled is told of; and so is one that was
\* enabled during the turn, before the turn has ended.
Listed ==
  \/ stage \in {"thread", "turn"} \cup Turning
  \/ stage = "relist" /\ \E i \in Places : channel[i].kind = "skills" /\ channel[i].body = {}

SkillsInv ==
  /\ Listed /\ enabled # {} =>
       \E i \in Places : /\ channel[i].kind = "skills_changed"
                         /\ \A j \in Places : i < j => channel[j].kind # "skills"
  /\ stage \in {"turn", "wait"} /\ tainted =>
       \E i \in Places : /\ channel[i].kind = "skills_changed"
                         /\ \A j \in Places : j < i => ~IsOwn(channel[j], "completed")

\* A server that does not deviate: every frame is its own,
OnlyOwn(f) ==
  /\ f.kind \notin {"forbidden", "refusal"}
  /\ f.kind \in ScopedKinds => f.thread = "own" /\ f.turn = "own"

\* thread and turn are announced once,
AnnouncedInv ==
  /\ id.announced_thread # "other" /\ id.announced_turn # "other"
  /\ \A i \in Places : channel[i].kind = "thread_started" =>
       /\ id.announced_thread = "none"
       /\ \A j \in Places : channel[j].kind = "thread_started" => i = j
  /\ stage \in Early \/ (stage = "thread" /\ (~asked \/ request = "thread")) =>
       id.announced_thread = "none" /\ \A i \in Places : channel[i].kind # "thread_started"
  /\ \A i \in Places : channel[i].kind = "turn_started" =>
       /\ id.announced_turn = "none" /\ turn.state # "none"
       /\ \A j \in Places : channel[j].kind = "turn_started" => i = j
  /\ turn.state = "none" => id.announced_turn = "none"

\* what is of the turn comes after the response, and once,
OrderInv ==
  /\ \A i \in Places : channel[i].kind \in {"usage", "item", "status", "message", "completed"} =>
       /\ turn.state # "none"
       /\ id.turn = "own" \/ \E j \in Places : j < i /\ channel[j].kind = "turn"
  /\ \A i, j \in Places : channel[i].kind = "completed" /\ channel[j].kind = "completed" => i = j
  /\ stage = "after" => \A i \in Places : channel[i].kind # "completed"
  /\ ~Twice
  /\ Len(turn.said) <= MaxMessages
  /\ \A i \in Places : channel[i].kind = "message" =>
       /\ Len(messages) < channel[i].body.key
       /\ \A j \in Places : channel[j].kind = "message" /\ i < j =>
            channel[i].body.key < channel[j].body.key

\* and the pages of a listing are in order.
PagesInv ==
  /\ listing.pages \in Nat /\ listing.matches = 0 /\ listing.cursors \subseteq 1..listing.pages
  /\ \A i \in Places : channel[i].kind = "page" =>
       LET page == channel[i].body
       IN  \/ page.cursor = 0 /\ page.matches = 1
           \/ /\ page.cursor = listing.pages + 1 /\ page.matches = 0
              /\ listing.pages + 1 < MaxPages

HonestInv ==
  deviations = 0 =>
    (\A i \in Places : OnlyOwn(channel[i])) /\ AnnouncedInv /\ OrderInv /\ PagesInv

\* Of the frames on their way, while somebody reads them.
PipeInv ==
  stage \notin Ended =>
    /\ FramesInv /\ RequestInv /\ TurnInv /\ EndInv /\ SpokenInv /\ HeardInv /\ UsageInv
    /\ FinalInv /\ SkillsInv /\ AwaitedInv /\ HonestInv

IInv == TypeOK /\ PipeInv /\ OutcomeIsOwnTurn /\ SkillsStayDisabled /\ HonestIsHeard


-----------------------------------------------------------------------------
(* The pipe *)

\* A frame is taken from it.
Shifts ==
  /\ Len(channel) \in Nat \ {0} /\ Len(channel') = Len(channel) - 1
  /\ \A i \in 1..Len(channel') : channel'[i] = channel[i + 1]

\* Frames are added to it.
Joins(frames) ==
  /\ Len(channel) \in Nat /\ Len(frames) \in Nat
  /\ Len(channel') = Len(channel) + Len(frames)
  /\ \A i \in Places : channel'[i] = channel[i]
  /\ \A i \in 1..Len(frames) : channel'[Len(channel) + i] = frames[i]

\* A sequence over any set is one over its own elements.
LEMMA OwnRange ==
  ASSUME NEW S, NEW s \in Seq(S)
  PROVE  s \in Seq(Range(s))
<1>1. s = [i \in 1..Len(s) |-> s[i]] /\ Len(s) \in Nat
  OBVIOUS
<1>2. \A i \in 1..Len(s) : s[i] \in Range(s)
  BY <1>1 DEF Range
<1>3. QED
  BY <1>1, <1>2

\* Reading takes the first frame.
LEMMA ReadShifts ==
  ASSUME TypeOK, NEW kind, Reads(kind)
  PROVE  /\ Shifts /\ channel' \in Seq(Range(channel'))
         /\ channel[1] = Frame /\ channel[1].kind = kind
         /\ stage \notin Ended /\ (asked \/ stage = "wait")
         /\ request' = request /\ deviations' = deviations
         /\ enabled' = enabled /\ turn' = turn /\ tainted' = tainted
<1>1. channel \in Seq(Range(channel)) /\ channel # <<>> /\ channel' = Tail(channel)
  BY DEF TypeOK, Reads
<1>2. Shifts
  BY <1>1 DEF Shifts
<1>3. channel' \in Seq(Range(channel'))
  <2>1. Tail(channel) \in Seq(Range(channel))
    BY <1>1
  <2>2. QED
    BY <1>1, <2>1, OwnRange
<1>4. channel[1] = Frame
  BY <1>1 DEF Frame
<1>5. QED
  BY <1>2, <1>3, <1>4 DEF Reads, Frame, server, counts

\* Sending adds at the end.
LEMMA SendJoins ==
  ASSUME TypeOK, NEW S, NEW frames \in Seq(S), Send(frames)
  PROVE  Joins(frames) /\ channel' \in Seq(Range(channel')) /\ stage \notin Ended
<1>1. channel \in Seq(Range(channel)) /\ channel' = channel \o frames /\ stage \notin Ended
  BY DEF TypeOK, Send
<1>2. channel \in Seq(Range(channel) \cup S) /\ frames \in Seq(Range(channel) \cup S)
  BY <1>1
<1>3. channel' \in Seq(Range(channel) \cup S)
  BY <1>1, <1>2
<1>4. Joins(frames)
  BY <1>1, <1>2 DEF Joins, Places
<1>5. QED
  BY <1>1, <1>3, <1>4, OwnRange

\* What is in the pipe after a frame was taken was behind it.
LEMMA ShiftPlaces ==
  ASSUME Shifts
  PROVE  /\ 1 \in Places /\ Places \subseteq Nat /\ Places' \subseteq Nat
         /\ \A i \in Places' : i + 1 \in Places /\ channel'[i] = channel[i + 1]
         /\ \A i \in Places : i # 1 => i - 1 \in Places' /\ channel'[i - 1] = channel[i]
  BY DEF Shifts, Places

\* What is in the pipe after frames were added was there, or is one of them.
LEMMA JoinPlaces ==
  ASSUME NEW frames, Joins(frames)
  PROVE  /\ Places \subseteq Nat /\ Places' \subseteq Nat
         /\ \A i \in Places : i \in Places' /\ channel'[i] = channel[i]
         /\ \A i \in Places' : i \in Places \/
              (i > Len(channel) /\ \E k \in 1..Len(frames) : i = Len(channel) + k /\ channel'[i] = frames[k])
         /\ \A k \in 1..Len(frames) : Len(channel) + k \in Places' /\ channel'[Len(channel) + k] = frames[k]
         /\ \A i \in Places : i <= Len(channel)
<1>1. \A i \in Places' : i \in Places \/
        (i > Len(channel) /\ \E k \in 1..Len(frames) : i = Len(channel) + k /\ channel'[i] = frames[k])
  <2>1. SUFFICES ASSUME NEW i \in Places', i \notin Places
                 PROVE  i > Len(channel) /\ \E k \in 1..Len(frames) : i = Len(channel) + k /\ channel'[i] = frames[k]
    OBVIOUS
  <2>2. i > Len(channel) /\ i - Len(channel) \in 1..Len(frames)
    BY <2>1 DEF Joins, Places
  <2>3. channel'[Len(channel) + (i - Len(channel))] = frames[i - Len(channel)]
    BY <2>2 DEF Joins
  <2>4. i = Len(channel) + (i - Len(channel))
    BY <2>1 DEF Joins, Places
  <2>5. QED
    BY <2>2, <2>3, <2>4
<1>2. QED
  BY <1>1 DEF Joins, Places


-----------------------------------------------------------------------------
(* What a frame that is read leaves *)

\* Nothing is in the pipe that was not there.
LEMMA TailFrames == ASSUME Shifts, FramesInv PROVE FramesInv'
  BY ShiftPlaces DEF FramesInv

\* What the messages on their way are does not change with the first frame.
LEMMA TailSpoken == ASSUME Shifts, SpokenInv, turn' = turn PROVE SpokenInv'
<1>0. /\ \A i \in Places' : i + 1 \in Places /\ channel'[i] = channel[i + 1]
      /\ \A i \in Places : i # 1 => i - 1 \in Places' /\ channel'[i - 1] = channel[i]
      /\ Places \subseteq Nat /\ Places' \subseteq Nat
  BY ShiftPlaces
<1>1. \A k \in DOMAIN turn'.said : turn'.said[k].key = k
  BY DEF SpokenInv
<1>2. ASSUME NEW i \in Places', IsOwn(channel'[i], "message")
      PROVE  channel'[i].body.key \in DOMAIN turn'.said
             /\ channel'[i].body = turn'.said[channel'[i].body.key]
  <2>1. i + 1 \in Places /\ channel'[i] = channel[i + 1]
    BY <1>0
  <2>2. QED
    BY <1>2, <2>1 DEF SpokenInv
<1>3. QED
  BY <1>1, <1>2 DEF SpokenInv

\* A frame that is no message leaves the messages in order.
LEMMA TailHeard ==
  ASSUME Shifts, HeardInv, UNCHANGED <<turn, messages>>, ~IsOwn(channel[1], "message")
  PROVE  HeardInv'
<1>0. /\ \A i \in Places' : i + 1 \in Places /\ channel'[i] = channel[i + 1]
      /\ \A i \in Places : i # 1 => i - 1 \in Places' /\ channel'[i - 1] = channel[i]
      /\ Places \subseteq Nat /\ Places' \subseteq Nat
  BY ShiftPlaces
<1>1. CASE Twice
  BY <1>1 DEF HeardInv, Twice
<1>2. CASE ~Twice
  <2>1. Len(messages') <= Len(turn'.said) /\ \A k \in DOMAIN messages' : messages'[k] = turn'.said[k]
    BY <1>2 DEF HeardInv
  <2>2. ASSUME NEW i \in Places', IsOwn(channel'[i], "message")
        PROVE  /\ channel'[i].body.key >= Len(messages')
               /\ \A k \in DOMAIN turn'.said : Len(messages') < k /\ k < channel'[i].body.key =>
                    \E j \in Places' : /\ j < i /\ IsOwn(channel'[j], "message")
                                       /\ channel'[j].body.key = k
               /\ \A j \in Places' : IsOwn(channel'[j], "message") /\ i < j =>
                    channel'[i].body.key <= channel'[j].body.key
    <3>1. i + 1 \in Places /\ channel'[i] = channel[i + 1]
      BY <1>0
    <3>2. channel[i + 1].body.key >= Len(messages)
      BY <1>2, <2>2, <3>1 DEF HeardInv
    <3>3. ASSUME NEW k \in DOMAIN turn.said, Len(messages) < k, k < channel[i + 1].body.key
          PROVE  \E j \in Places' : /\ j < i /\ IsOwn(channel'[j], "message")
                                    /\ channel'[j].body.key = k
      <4>1. PICK j \in Places : /\ j < i + 1 /\ IsOwn(channel[j], "message")
                                /\ channel[j].body.key = k
        BY <1>2, <2>2, <3>1, <3>3 DEF HeardInv
      <4>2. j # 1
        BY <4>1
      <4>3. j - 1 \in Places' /\ channel'[j - 1] = channel[j] /\ j - 1 < i
        BY <1>0, <4>1, <4>2
      <4>4. QED
        BY <4>1, <4>3
    <3>4. ASSUME NEW j \in Places', IsOwn(channel'[j], "message"), i < j
          PROVE  channel'[i].body.key <= channel'[j].body.key
      <4>1. j + 1 \in Places /\ channel'[j] = channel[j + 1] /\ i + 1 < j + 1
        BY <1>0, <3>4
      <4>2. QED
        BY <1>2, <2>2, <3>1, <3>4, <4>1 DEF HeardInv
    <3>5. QED
      BY <3>1, <3>2, <3>3, <3>4
  <2>3. ASSUME NEW k \in DOMAIN turn'.said, Len(messages') < k
        PROVE  \E i \in Places' : IsOwn(channel'[i], "message") /\ channel'[i].body.key = k
    <3>1. PICK i \in Places : IsOwn(channel[i], "message") /\ channel[i].body.key = k
      BY <1>2, <2>3 DEF HeardInv
    <3>2. i - 1 \in Places' /\ channel'[i - 1] = channel[i]
      BY <1>0, <3>1
    <3>3. QED
      BY <3>1, <3>2
  <2>4. QED
    BY <2>1, <2>2, <2>3 DEF HeardInv
<1>3. QED
  BY <1>1, <1>2

\* A frame that tells no tokens leaves the tokens in order.
LEMMA TailUsage ==
  ASSUME Shifts, UsageInv, UNCHANGED <<turn, usage>>, ~IsOwn(channel[1], "usage")
  PROVE  UsageInv'
<1>0. /\ \A i \in Places' : i + 1 \in Places /\ channel'[i] = channel[i + 1]
      /\ \A i \in Places : i # 1 => i - 1 \in Places' /\ channel'[i - 1] = channel[i]
      /\ Places \subseteq Nat /\ Places' \subseteq Nat
  BY ShiftPlaces
<1>1. ASSUME NEW i \in Places', IsOwn(channel'[i], "usage")
      PROVE  /\ usage' <= channel'[i].body /\ channel'[i].body <= turn'.tokens
             /\ \A j \in Places' : IsOwn(channel'[j], "usage") /\ i < j =>
                  channel'[i].body <= channel'[j].body
  <2>1. i + 1 \in Places /\ channel'[i] = channel[i + 1]
    BY <1>0
  <2>2. ASSUME NEW j \in Places', IsOwn(channel'[j], "usage"), i < j
        PROVE  channel'[i].body <= channel'[j].body
    <3>1. j + 1 \in Places /\ channel'[j] = channel[j + 1] /\ i + 1 < j + 1
      BY <1>0, <2>2
    <3>2. QED
      BY <1>1, <2>1, <2>2, <3>1 DEF UsageInv
  <2>3. QED
    BY <1>1, <2>1, <2>2 DEF UsageInv
<1>2. usage' = turn'.tokens \/ \E i \in Places' : IsOwn(channel'[i], "usage") /\ channel'[i].body = turn'.tokens
  <2>1. CASE usage = turn.tokens
    BY <2>1
  <2>2. CASE \E i \in Places : IsOwn(channel[i], "usage") /\ channel[i].body = turn.tokens
    <3>1. PICK i \in Places : IsOwn(channel[i], "usage") /\ channel[i].body = turn.tokens
      BY <2>2
    <3>2. i - 1 \in Places' /\ channel'[i - 1] = channel[i]
      BY <1>0, <3>1
    <3>3. QED
      BY <3>1, <3>2
  <2>3. QED
    BY <2>1, <2>2 DEF UsageInv
<1>3. QED
  BY <1>1, <1>2 DEF UsageInv

\* What comes before the end of the turn still does.
LEMMA TailEnd ==
  ASSUME Shifts, EndInv, turn' = turn, stage' = "after" => stage = "after"
  PROVE  EndInv'
<1>1. \A i \in Places' : i + 1 \in Places /\ channel'[i] = channel[i + 1]
  BY ShiftPlaces
<1>2. Places' \subseteq Nat
  BY ShiftPlaces
<1>3. ASSUME NEW i \in Places', IsOwn(channel'[i], "completed")
      PROVE  /\ turn'.state = "ended"
             /\ \A j \in Places' : IsOwn(channel'[j], "message") \/ IsOwn(channel'[j], "usage") => j < i
  <2>1. i + 1 \in Places /\ channel'[i] = channel[i + 1]
    BY <1>1
  <2>2. ASSUME NEW j \in Places', IsOwn(channel'[j], "message") \/ IsOwn(channel'[j], "usage")
        PROVE  j < i
    <3>1. j + 1 \in Places /\ channel'[j] = channel[j + 1]
      BY <1>1
    <3>2. j + 1 < i + 1
      BY <1>3, <2>1, <2>2, <3>1 DEF EndInv
    <3>3. QED
      BY <1>2, <3>2
  <2>3. QED
    BY <1>3, <2>1, <2>2 DEF EndInv
<1>4. ASSUME stage' = "after", NEW i \in Places'
      PROVE  ~IsOwn(channel'[i], "message") /\ ~IsOwn(channel'[i], "usage")
  BY <1>1, <1>4 DEF EndInv
<1>5. QED
  BY <1>3, <1>4 DEF EndInv

\* A notification leaves the request that is outstanding.
LEMMA TailRequest ==
  ASSUME Shifts, RequestInv, UNCHANGED <<request, asked, stage>>
  PROVE  RequestInv'
<1>1. \A i \in Places' : i + 1 \in Places /\ channel'[i] = channel[i + 1]
  BY ShiftPlaces
<1>2. Places' \subseteq Nat
  BY ShiftPlaces
<1>3. request' # "none" =>
        asked' /\ request' = stage' /\ \A i \in Places' : channel'[i].kind \notin Responses
  BY <1>1 DEF RequestInv
<1>4. ASSUME NEW i \in Places', channel'[i].kind \in Responses
      PROVE  /\ asked' /\ stage' \in StagesOf(channel'[i].kind)
             /\ \A j \in Places' : channel'[j].kind \in Responses => j = i
  <2>1. i + 1 \in Places /\ channel'[i] = channel[i + 1]
    BY <1>1
  <2>2. asked /\ stage \in StagesOf(channel[i + 1].kind)
    BY <1>4, <2>1 DEF RequestInv
  <2>3. ASSUME NEW j \in Places', channel'[j].kind \in Responses PROVE j = i
    <3>1. j + 1 \in Places /\ channel'[j] = channel[j + 1]
      BY <1>1
    <3>2. j + 1 = i + 1
      BY <1>4, <2>1, <2>3, <3>1 DEF RequestInv
    <3>3. QED
      BY <1>2, <3>2
  <2>4. QED
    BY <2>1, <2>2, <2>3
<1>5. QED
  BY <1>3, <1>4 DEF RequestInv

\* A response ends it: there is no other.
LEMMA TailResponse ==
  ASSUME Shifts, RequestInv, channel[1].kind \in Responses, request' = request
  PROVE  /\ request = "none" /\ asked /\ stage \in StagesOf(channel[1].kind)
         /\ \A i \in Places' : channel'[i].kind \notin Responses
         /\ RequestInv'
<1>1. 1 \in Places /\ Places' \subseteq Nat \ {0}
  BY ShiftPlaces DEF Places
<1>2. request = "none" /\ asked /\ stage \in StagesOf(channel[1].kind)
  BY <1>1 DEF RequestInv
<1>3. ASSUME NEW i \in Places' PROVE channel'[i].kind \notin Responses
  <2>1. i + 1 \in Places /\ channel'[i] = channel[i + 1] /\ i + 1 # 1
    BY <1>1, ShiftPlaces
  <2>2. QED
    BY <1>1, <2>1 DEF RequestInv
<1>4. QED
  BY <1>2, <1>3 DEF RequestInv

\* The notices of skills that are behind a frame stay there.
LEMMA TailSkills ==
  ASSUME Shifts, SkillsInv, channel[1].kind # "skills_changed", enabled' = enabled,
         tainted' = tainted, Listed' => Listed,
         stage' \in {"turn", "wait"} /\ tainted => stage \in {"turn", "wait"}
  PROVE  SkillsInv'
<1>1. /\ \A i \in Places' : i + 1 \in Places /\ channel'[i] = channel[i + 1]
      /\ \A i \in Places : i # 1 => i - 1 \in Places' /\ channel'[i - 1] = channel[i]
      /\ Places \subseteq Nat /\ Places' \subseteq Nat
  BY ShiftPlaces
<1>2. ASSUME Listed', enabled' # {}
      PROVE  \E i \in Places' : /\ channel'[i].kind = "skills_changed"
                                /\ \A j \in Places' : i < j => channel'[j].kind # "skills"
  <2>1. PICK i \in Places : /\ channel[i].kind = "skills_changed"
                            /\ \A j \in Places : i < j => channel[j].kind # "skills"
    BY <1>2 DEF SkillsInv
  <2>2. i - 1 \in Places' /\ channel'[i - 1] = channel[i]
    BY <1>1, <2>1
  <2>3. ASSUME NEW j \in Places', i - 1 < j PROVE channel'[j].kind # "skills"
    <3>1. j + 1 \in Places /\ channel'[j] = channel[j + 1] /\ i < j + 1
      BY <1>1, <2>3
    <3>2. QED
      BY <2>1, <3>1
  <2>4. QED
    BY <2>1, <2>2, <2>3
<1>3. ASSUME stage' \in {"turn", "wait"}, tainted'
      PROVE  \E i \in Places' : /\ channel'[i].kind = "skills_changed"
                                /\ \A j \in Places' : j < i => ~IsOwn(channel'[j], "completed")
  <2>1. PICK i \in Places : /\ channel[i].kind = "skills_changed"
                            /\ \A j \in Places : j < i => ~IsOwn(channel[j], "completed")
    BY <1>3 DEF SkillsInv
  <2>2. i - 1 \in Places' /\ channel'[i - 1] = channel[i]
    BY <1>1, <2>1
  <2>3. ASSUME NEW j \in Places', j < i - 1 PROVE ~IsOwn(channel'[j], "completed")
    <3>1. j + 1 \in Places /\ channel'[j] = channel[j + 1] /\ j + 1 < i
      BY <1>1, <2>3
    <3>2. QED
      BY <2>1, <3>1
  <2>4. QED
    BY <2>1, <2>2, <2>3
<1>4. QED
  BY <1>2, <1>3 DEF SkillsInv


\* What an honest server has sent stays its own, and announced once.
LEMMA TailOwn ==
  ASSUME Shifts, \A i \in Places : OnlyOwn(channel[i])
  PROVE  \A i \in Places' : OnlyOwn(channel'[i])
  BY ShiftPlaces

\* The thread is announced after the request for it.
ThreadUnborn == stage \in Early \/ (stage = "thread" /\ (~asked \/ request = "thread"))

\* An announcement that is read is not on its way any more.
LEMMA TailAnnounced ==
  ASSUME Shifts, AnnouncedInv, turn' = turn, id'.announced_thread \in {"none", "own"},
         id'.announced_turn \in {"none", "own"}, ThreadUnborn' => ThreadUnborn,
         id'.announced_thread = id.announced_thread \/ channel[1].kind = "thread_started",
         id'.announced_turn = id.announced_turn \/ channel[1].kind = "turn_started"
  PROVE  AnnouncedInv'
<1>1. /\ \A i \in Places' : i + 1 \in Places /\ channel'[i] = channel[i + 1]
      /\ 1 \in Places /\ Places' \subseteq Nat \ {0}
  BY ShiftPlaces DEF Places
<1>2. ASSUME NEW i \in Places', channel'[i].kind = "thread_started"
      PROVE  /\ id'.announced_thread = "none"
             /\ \A j \in Places' : channel'[j].kind = "thread_started" => i = j
  <2>1. i + 1 \in Places /\ channel[i + 1].kind = "thread_started" /\ i + 1 # 1
    BY <1>1, <1>2
  <2>2. id.announced_thread = "none" /\ channel[1].kind # "thread_started"
    BY <1>1, <2>1 DEF AnnouncedInv
  <2>3. ASSUME NEW j \in Places', channel'[j].kind = "thread_started" PROVE i = j
    <3>1. j + 1 \in Places /\ channel[j + 1].kind = "thread_started"
      BY <1>1, <2>3
    <3>2. i + 1 = j + 1
      BY <2>1, <3>1 DEF AnnouncedInv
    <3>3. QED
      BY <1>1, <3>2
  <2>4. QED
    BY <2>2, <2>3
<1>3. ASSUME NEW i \in Places', channel'[i].kind = "turn_started"
      PROVE  /\ id'.announced_turn = "none" /\ turn'.state # "none"
             /\ \A j \in Places' : channel'[j].kind = "turn_started" => i = j
  <2>1. i + 1 \in Places /\ channel[i + 1].kind = "turn_started" /\ i + 1 # 1
    BY <1>1, <1>3
  <2>2. id.announced_turn = "none" /\ turn.state # "none" /\ channel[1].kind # "turn_started"
    BY <1>1, <2>1 DEF AnnouncedInv
  <2>3. ASSUME NEW j \in Places', channel'[j].kind = "turn_started" PROVE i = j
    <3>1. j + 1 \in Places /\ channel[j + 1].kind = "turn_started"
      BY <1>1, <2>3
    <3>2. i + 1 = j + 1
      BY <2>1, <3>1 DEF AnnouncedInv
    <3>3. QED
      BY <1>1, <3>2
  <2>4. QED
    BY <2>2, <2>3
<1>4. ThreadUnborn' =>
        id'.announced_thread = "none" /\ \A i \in Places' : channel'[i].kind # "thread_started"
  <2>1. SUFFICES ASSUME ThreadUnborn'
                 PROVE  id'.announced_thread = "none"
                        /\ \A i \in Places' : channel'[i].kind # "thread_started"
    OBVIOUS
  <2>2. id.announced_thread = "none" /\ \A i \in Places : channel[i].kind # "thread_started"
    BY <2>1 DEF AnnouncedInv, ThreadUnborn
  <2>3. QED
    BY <1>1, <2>2
<1>5. turn'.state = "none" => id'.announced_turn = "none"
  BY <1>1 DEF AnnouncedInv
<1>6. QED
  BY <1>2, <1>3, <1>4, <1>5 DEF AnnouncedInv, ThreadUnborn

\* The response of the turn is read before what is of the turn.
LEMMA TailOrder ==
  ASSUME Shifts, OrderInv, turn' = turn,
         \/ messages' = messages
         \/ ~Twice' /\ \A i \in Places' : channel'[i].kind = "message" => Len(messages') < channel'[i].body.key,
         channel[1].kind = "turn" \/ id.turn = "own" => id'.turn = "own",
         stage' = "after" => stage = "after" \/ channel[1].kind = "completed"
  PROVE  OrderInv'
<1>1. /\ \A i \in Places' : i + 1 \in Places /\ channel'[i] = channel[i + 1]
      /\ \A i \in Places : i # 1 => i - 1 \in Places' /\ channel'[i - 1] = channel[i]
      /\ 1 \in Places /\ Places \subseteq Nat \ {0} /\ Places' \subseteq Nat \ {0}
  BY ShiftPlaces DEF Places
<1>2. ASSUME NEW i \in Places',
             channel'[i].kind \in {"usage", "item", "status", "message", "completed"}
      PROVE  /\ turn'.state # "none"
             /\ id'.turn = "own" \/ \E j \in Places' : j < i /\ channel'[j].kind = "turn"
  <2>1. /\ turn.state # "none"
        /\ id.turn = "own" \/ \E j \in Places : j < i + 1 /\ channel[j].kind = "turn"
    BY <1>1, <1>2 DEF OrderInv
  <2>2. CASE id.turn = "own"
    BY <2>1, <2>2
  <2>3. ASSUME NEW j \in Places, j < i + 1, channel[j].kind = "turn"
        PROVE  id'.turn = "own" \/ \E k \in Places' : k < i /\ channel'[k].kind = "turn"
    <3>1. CASE j = 1
      BY <2>3, <3>1
    <3>2. CASE j # 1
      <4>1. j - 1 \in Places' /\ channel'[j - 1].kind = "turn" /\ j - 1 < i
        BY <1>1, <2>3, <3>2
      <4>2. QED
        BY <4>1
    <3>3. QED
      BY <3>1, <3>2
  <2>4. QED
    BY <2>1, <2>2, <2>3
<1>3. ASSUME NEW i \in Places', NEW j \in Places',
             channel'[i].kind = "completed", channel'[j].kind = "completed"
      PROVE  i = j
  <2>1. i + 1 = j + 1
    BY <1>1, <1>3 DEF OrderInv
  <2>2. QED
    BY <1>1, <2>1
<1>4. ASSUME stage' = "after", NEW i \in Places' PROVE channel'[i].kind # "completed"
  <2>1. i + 1 \in Places /\ channel'[i] = channel[i + 1] /\ i + 1 # 1
    BY <1>1
  <2>2. CASE stage = "after"
    BY <2>1, <2>2 DEF OrderInv
  <2>3. CASE channel[1].kind = "completed"
    BY <1>1, <2>1, <2>3 DEF OrderInv
  <2>4. QED
    BY <1>4, <2>2, <2>3
<1>5. ASSUME NEW i \in Places', channel'[i].kind = "message"
      PROVE  /\ Len(messages') < channel'[i].body.key
             /\ \A j \in Places' : channel'[j].kind = "message" /\ i < j =>
                  channel'[i].body.key < channel'[j].body.key
  <2>1. i + 1 \in Places /\ channel'[i] = channel[i + 1]
    BY <1>1
  <2>2. ASSUME NEW j \in Places', channel'[j].kind = "message", i < j
        PROVE  channel'[i].body.key < channel'[j].body.key
    <3>1. j + 1 \in Places /\ channel'[j] = channel[j + 1] /\ i + 1 < j + 1
      BY <1>1, <2>2
    <3>2. QED
      BY <1>5, <2>1, <2>2, <3>1 DEF OrderInv
  <2>3. Len(messages') < channel'[i].body.key
    BY <1>5, <2>1 DEF OrderInv
  <2>4. QED
    BY <2>2, <2>3
<1>6. ~Twice' /\ Len(turn'.said) <= MaxMessages
  BY DEF OrderInv, Twice
<1>7. QED
  BY <1>2, <1>3, <1>4, <1>5, <1>6 DEF OrderInv

\* A page that is not read yet is still in its place.
LEMMA TailPages ==
  ASSUME Shifts, PagesInv, listing' = listing
  PROVE  PagesInv'
<1>1. \A i \in Places' : i + 1 \in Places /\ channel'[i] = channel[i + 1]
  BY ShiftPlaces
<1>2. QED
  BY <1>1 DEF PagesInv

\* A failure needs only its reason: nobody reads what is left in the pipe.
Excused == {"deadline", "dispatch", "skills", "limits", "final"}

LEMMA FailKeeps ==
  ASSUME TypeOK, NEW reason, Fail(reason), deviations = 0 => reason \in Excused,
         channel' \in Seq(Range(channel')), request' \in Requests \cup {"none"},
         UNCHANGED server, deviations' = deviations
  PROVE  IInv'
<1>1. stage' = "failed" /\ why' = reason
      /\ UNCHANGED <<asked, listing, todo, id, messages, usage, rolling, outcome>>
  BY DEF Fail
<1>2. UNCHANGED <<enabled, limits, turn, tainted>>
  BY DEF server
<1>3. "failed" \in Stages /\ "failed" \in Ended
  BY DEF Stages, Ended
<1>4. TypeOK'
  BY <1>1, <1>2, <1>3 DEF TypeOK
<1>5. PipeInv'
  BY <1>1, <1>3 DEF PipeInv
<1>6. OutcomeIsOwnTurn' /\ SkillsStayDisabled'
  BY <1>1 DEF OutcomeIsOwnTurn, SkillsStayDisabled
<1>7. HonestIsHeard'
  BY <1>1 DEF HonestIsHeard, Excused
<1>8. QED
  BY <1>4, <1>5, <1>6, <1>7 DEF IInv

\* While the session is open there is neither outcome nor failure.
LEMMA OpenKeeps ==
  ASSUME TypeOK', PipeInv', stage' \notin Ended
  PROVE  IInv'
  BY DEF IInv, OutcomeIsOwnTurn, SkillsStayDisabled, HonestIsHeard, Ended


-----------------------------------------------------------------------------
(* The client reads *)

\* What holds while the session is open.
LEMMA OpenParts ==
  ASSUME IInv, stage \notin Ended
  PROVE  /\ TypeOK /\ FramesInv /\ RequestInv /\ TurnInv /\ EndInv /\ SpokenInv /\ HeardInv
         /\ UsageInv /\ FinalInv /\ SkillsInv /\ AwaitedInv
         /\ deviations = 0 =>
              (\A i \in Places : OnlyOwn(channel[i])) /\ AnnouncedInv /\ OrderInv /\ PagesInv
  BY DEF IInv, PipeInv, HonestInv

\* A failure to read a frame needs only its reason.
LEMMA ReadFails ==
  ASSUME IInv, NEW kind, Reads(kind), NEW reason, Fail(reason),
         deviations = 0 => reason \in Excused
  PROVE  IInv'
<1>1. TypeOK
  BY DEF IInv
<1>2. channel' \in Seq(Range(channel')) /\ request' = request /\ deviations' = deviations
  BY <1>1, ReadShifts
<1>3. UNCHANGED server
  BY DEF Reads
<1>4. request' \in Requests \cup {"none"}
  BY <1>1, <1>2 DEF TypeOK
<1>5. QED
  BY <1>1, <1>2, <1>3, <1>4, FailKeeps

\* The names of the stages and their parts, spelled out.
LEMMA AllStages ==
  /\ Early \subseteq Stages /\ Turning \subseteq Stages /\ {"thread", "turn"} \subseteq Stages
  /\ Early \cap (Turning \cup Ended \cup {"thread", "turn"}) = {}
  /\ Turning \cap (Ended \cup {"thread", "turn"}) = {}
  /\ "wait" \in Turning /\ "after" \in Turning
  /\ Requests = Early \cup {"thread", "turn", "after"}
  BY DEF Early, Turning, Stages, Ended, Requests

\* The stages at which each response is waited for, spelled out.
LEMMA StagesAre ==
  /\ StagesOf("initialized") = {"initialize"} /\ StagesOf("account") = {"account"}
  /\ StagesOf("page") = {"models", "profiles"} /\ StagesOf("limits") = {"before", "after"}
  /\ StagesOf("skills") = {"list", "relist"} /\ StagesOf("written") = {"write"}
  /\ StagesOf("thread") = {"thread"} /\ StagesOf("turn") = {"turn"}
  /\ \A kind \in Responses : StagesOf(kind) \subseteq Requests
  BY DEF StagesOf, Responses, Requests

\* The response to a request before the thread.
LEMMA EarlyKeeps ==
  ASSUME IInv, NEW kind \in Responses, Reads(kind), stage \in Early, kind # "turn",
         stage' \in Early \cup {"thread"}, asked' = FALSE, UNCHANGED <<id, messages, usage>>,
         Listed' => Listed, deviations = 0 => PagesInv'
  PROVE  IInv'
<1>1. TypeOK
  BY DEF IInv
<1>2. /\ Shifts /\ channel' \in Seq(Range(channel')) /\ channel[1].kind = kind
      /\ stage \notin Ended /\ request' = request /\ deviations' = deviations
      /\ enabled' = enabled /\ turn' = turn /\ tainted' = tainted
  BY <1>1, ReadShifts
<1>3. /\ FramesInv /\ RequestInv /\ TurnInv /\ EndInv /\ SpokenInv /\ HeardInv
      /\ UsageInv /\ FinalInv /\ SkillsInv
      /\ deviations = 0 =>
           (\A i \in Places : OnlyOwn(channel[i])) /\ AnnouncedInv /\ OrderInv /\ PagesInv
  BY <1>2, OpenParts
<1>4. stage' \in Stages /\ stage' \notin Ended \cup Turning \cup {"turn"} /\ stage \notin Turning
  BY AllStages DEF Ended, Early
<1>5. /\ ~IsOwn(channel[1], "message") /\ ~IsOwn(channel[1], "usage")
      /\ kind \notin {"skills_changed", "thread_started", "turn_started", "completed"}
  BY <1>2 DEF IsOwn, Responses
<1>6. TypeOK'
  BY <1>1, <1>2, <1>4 DEF TypeOK
<1>7. FramesInv' /\ SpokenInv' /\ HeardInv' /\ UsageInv'
  BY <1>2, <1>3, <1>5, TailFrames, TailSpoken, TailHeard, TailUsage
<1>8. EndInv' /\ FinalInv'
  <2>1. stage' # "after"
    BY <1>4 DEF Turning
  <2>2. QED
    BY <1>2, <1>3, <2>1, TailEnd DEF FinalInv
<1>9. RequestInv'
  BY <1>2, <1>3, TailResponse
<1>10. TurnInv'
  <2>1. turn.state = "none" /\ id.turn # "own"
    BY <1>3, <1>4 DEF TurnInv, Unborn
  <2>2. Unborn'
    BY DEF Unborn
  <2>3. \A i \in Places' : ~IsOwn(channel'[i], "completed")
    BY <1>2, <1>3, <2>1, ShiftPlaces DEF TurnInv
  <2>4. ~tainted /\ messages = <<>> /\ usage = 0 /\ turn.said = <<>> /\ turn.tokens = 0
    BY <1>3, <2>1 DEF TurnInv
  <2>5. stage' \notin Turning /\ stage' # "turn" /\ stage' # "after"
    BY <1>4 DEF Turning
  <2>6. QED
    BY <1>2, <2>1, <2>2, <2>3, <2>4, <2>5 DEF TurnInv
<1>11. SkillsInv'
  <2>1. stage' \notin {"turn", "wait"}
    BY <1>4 DEF Turning
  <2>2. QED
    BY <1>2, <1>3, <1>5, <2>1, TailSkills
<1>12. HonestInv'
  <2>1. SUFFICES ASSUME deviations = 0
                 PROVE  (\A i \in Places : OnlyOwn(channel[i]))' /\ AnnouncedInv' /\ OrderInv' /\ PagesInv'
    BY <1>2 DEF HonestInv
  <2>2. (\A i \in Places : OnlyOwn(channel[i]))'
    BY <1>2, <1>3, <2>1, TailOwn
  <2>3. AnnouncedInv'
    <3>1. ThreadUnborn
      BY DEF ThreadUnborn
    <3>2. id.announced_thread \in {"none", "own"} /\ id.announced_turn \in {"none", "own"}
      BY <1>1, <1>3, <2>1 DEF AnnouncedInv, TypeOK, Names
    <3>3. QED
      BY <1>2, <1>3, <2>1, <3>1, <3>2, TailAnnounced
  <2>4. OrderInv'
    <3>1. stage' # "after"
      BY <1>4 DEF Turning
    <3>2. QED
      BY <1>2, <1>3, <2>1, <3>1, TailOrder
  <2>5. QED
    BY <2>1, <2>2, <2>3, <2>4
<1>13. AwaitedInv'
  BY <1>4 DEF AwaitedInv
<1>14. PipeInv'
  BY <1>7, <1>8, <1>9, <1>10, <1>11, <1>12, <1>13 DEF PipeInv
<1>15. QED
  BY <1>4, <1>6, <1>14, OpenKeeps

\* What is read before the thread, but for pages and skills.
LEMMA ReadSimpleKeeps ==
  ASSUME IInv, ReadInitialized \/ ReadAccount \/ ReadWritten \/ (ReadLimits /\ stage = "before")
  PROVE  IInv'
<1>1. TypeOK
  BY DEF IInv
<1>2. ASSUME NEW kind \in {"initialized", "account", "written", "limits"}, Reads(kind), stage # "after",
             stage' \in Early, asked' = FALSE, UNCHANGED <<listing, id, messages, usage>>
      PROVE  IInv'
  <2>1. /\ Shifts /\ channel[1].kind = kind /\ stage \notin Ended /\ request' = request
        /\ deviations' = deviations
    BY <1>1, <1>2, ReadShifts
  <2>2. kind \in Responses /\ kind # "turn"
    BY DEF Responses
  <2>3. RequestInv
    BY <2>1, OpenParts
  <2>4. stage \in StagesOf(kind) /\ \A i \in Places' : channel'[i].kind \notin Responses
    BY <2>1, <2>2, <2>3, TailResponse
  <2>5. stage \in Early
    BY <1>2, <2>4, StagesAre DEF Early
  <2>6. ~Listed'
    <3>1. stage' \notin {"thread", "turn"} \cup Turning
      BY <1>2, AllStages
    <3>2. "skills" \in Responses
      BY DEF Responses
    <3>3. QED
      BY <2>4, <3>1, <3>2 DEF Listed
  <2>7. deviations = 0 => PagesInv'
    <3>1. deviations = 0 => PagesInv
      BY <2>1, OpenParts
    <3>2. QED
      BY <1>2, <2>1, <3>1, TailPages
  <2>8. QED
    BY <1>2, <2>2, <2>5, <2>6, <2>7, EarlyKeeps
<1>3. CASE ReadInitialized
  <2>1. Reads("initialized") /\ stage' = "models" /\ asked' = FALSE /\ UNCHANGED <<listing, id, messages, usage>>
    BY <1>3 DEF ReadInitialized, Proceed
  <2>2. stage # "after"
    <3>1. /\ Shifts /\ channel[1].kind = "initialized" /\ stage \notin Ended /\ request' = request
      BY <1>1, <2>1, ReadShifts
    <3>2. stage \in StagesOf("initialized")
      BY <3>1, OpenParts, TailResponse DEF Responses
    <3>3. QED
      BY <3>2, StagesAre
  <2>3. stage' \in Early
    BY <2>1 DEF Early
  <2>4. QED
    BY <1>2, <2>1, <2>2, <2>3
<1>4. CASE ReadAccount
  <2>1. Reads("account") /\ stage' = "before" /\ asked' = FALSE /\ UNCHANGED <<listing, id, messages, usage>>
    BY <1>4 DEF ReadAccount, Proceed
  <2>2. stage # "after"
    <3>1. /\ Shifts /\ channel[1].kind = "account" /\ stage \notin Ended /\ request' = request
      BY <1>1, <2>1, ReadShifts
    <3>2. stage \in StagesOf("account")
      BY <3>1, OpenParts, TailResponse DEF Responses
    <3>3. QED
      BY <3>2, StagesAre
  <2>3. stage' \in Early
    BY <2>1 DEF Early
  <2>4. QED
    BY <1>2, <2>1, <2>2, <2>3
<1>5. CASE ReadWritten
  <2>1. Reads("written") /\ stage' \in {"relist", "write"} /\ asked' = FALSE /\ UNCHANGED <<listing, id, messages, usage>>
    BY <1>5 DEF ReadWritten, Proceed
  <2>2. stage # "after"
    <3>1. /\ Shifts /\ channel[1].kind = "written" /\ stage \notin Ended /\ request' = request
      BY <1>1, <2>1, ReadShifts
    <3>2. stage \in StagesOf("written")
      BY <3>1, OpenParts, TailResponse DEF Responses
    <3>3. QED
      BY <3>2, StagesAre
  <2>3. stage' \in Early
    BY <2>1 DEF Early
  <2>4. QED
    BY <1>2, <2>1, <2>2, <2>3
<1>6. CASE ReadLimits /\ stage = "before"
  <2>1. Reads("limits")
    BY <1>6 DEF ReadLimits
  <2>2. CASE Fail("limits")
    BY <2>1, <2>2, ReadFails DEF Excused
  <2>3. CASE ~Fail("limits")
    <3>1. stage' = "list" /\ asked' = FALSE /\ UNCHANGED <<listing, id, messages, usage>>
      BY <1>6, <2>3 DEF ReadLimits, Proceed
    <3>2. stage' \in Early /\ stage # "after"
      BY <1>6, <3>1 DEF Early
    <3>3. QED
      BY <1>2, <2>1, <3>1, <3>2
  <2>4. QED
    BY <2>2, <2>3
<1>7. QED
  BY <1>3, <1>4, <1>5, <1>6

\* A page of an honest server is in its place.
LEMMA ReadPageKeeps == ASSUME IInv, ReadPage PROVE IInv'
<1> DEFINE page    == Frame.body
           matches == listing.matches + page.matches
           last    == page.cursor = 0
           refused == \/ page.cursor \in listing.cursors
                      \/ ~last /\ listing.pages + 1 = MaxPages
                      \/ last /\ ~Wanted(matches)
<1>1. TypeOK /\ Reads("page")
  BY DEF IInv, ReadPage
<1>2. /\ Shifts /\ channel[1] = Frame /\ channel[1].kind = "page" /\ stage \notin Ended
      /\ request' = request /\ deviations' = deviations
  BY <1>1, ReadShifts
<1>3. RequestInv /\ (deviations = 0 => PagesInv)
  BY <1>2, OpenParts
<1>4. /\ stage \in {"models", "profiles"}
      /\ \A i \in Places' : channel'[i].kind \notin Responses
  BY <1>2, <1>3, TailResponse, StagesAre DEF Responses
<1>5. deviations = 0 => /\ page.cursor = 0 /\ page.matches = 1
                        \/ /\ page.cursor = listing.pages + 1 /\ page.matches = 0
                           /\ listing.pages + 1 < MaxPages
  BY <1>2, <1>3, ShiftPlaces DEF PagesInv
<1>6. deviations = 0 => ~refused
  <2>1. SUFFICES ASSUME deviations = 0 PROVE ~refused
    OBVIOUS
  <2>2. listing.pages \in Nat /\ listing.matches = 0 /\ listing.cursors \subseteq 1..listing.pages
    BY <1>3, <2>1 DEF PagesInv
  <2>3. CASE page.cursor = 0 /\ page.matches = 1
    BY <2>2, <2>3 DEF Wanted
  <2>4. CASE page.cursor = listing.pages + 1 /\ page.matches = 0 /\ listing.pages + 1 < MaxPages
    <3>1. MaxPages \in Nat
      BY BoundsAssumption
    <3>2. QED
      BY <2>2, <2>4, <3>1
  <2>5. QED
    BY <1>5, <2>1, <2>3, <2>4
<1>7. CASE refused
  <2>1. Fail("refused")
    BY <1>7 DEF ReadPage
  <2>2. QED
    BY <1>1, <1>6, <1>7, <2>1, ReadFails
<1>8. CASE ~refused
  <2>1. /\ listing' = IF last THEN Unread
                      ELSE [pages |-> listing.pages + 1, cursors |-> listing.cursors \cup {page.cursor},
                            matches |-> matches]
        /\ stage' = (IF ~last THEN stage ELSE IF stage = "models" THEN "profiles" ELSE "account")
        /\ asked' = FALSE /\ UNCHANGED <<id, messages, usage>>
    BY <1>8 DEF ReadPage, Proceed
  <2>2. stage \in Early /\ stage' \in Early
    BY <1>4, <2>1 DEF Early
  <2>3. ~Listed'
    <3>1. stage' \notin {"thread", "turn"} \cup Turning
      BY <2>2, AllStages
    <3>2. "skills" \in Responses
      BY DEF Responses
    <3>3. QED
      BY <1>4, <3>1, <3>2 DEF Listed
  <2>4. ASSUME deviations = 0 PROVE PagesInv'
    <3>1. \A i \in Places' : channel'[i].kind # "page"
      BY <1>4 DEF Responses
    <3>2. listing.pages \in Nat /\ listing.matches = 0 /\ listing.cursors \subseteq 1..listing.pages
      BY <1>3, <2>4 DEF PagesInv
    <3>3. CASE last
      BY <2>1, <3>1, <3>3 DEF PagesInv, Unread
    <3>4. CASE ~last
      <4>1. page.cursor = listing.pages + 1 /\ page.matches = 0
        BY <1>5, <2>4, <3>4
      <4>2. /\ listing'.pages = listing.pages + 1 /\ listing'.matches = 0
            /\ listing'.cursors = listing.cursors \cup {listing.pages + 1}
        BY <2>1, <3>2, <3>4, <4>1
      <4>3. listing'.cursors \subseteq 1..listing'.pages /\ listing'.pages \in Nat
        BY <3>2, <4>2
      <4>4. QED
        BY <3>1, <4>2, <4>3 DEF PagesInv
    <3>5. QED
      BY <3>3, <3>4
  <2>5. "page" \in Responses
    BY DEF Responses
  <2>6. QED
    BY <1>1, <2>1, <2>2, <2>3, <2>4, <2>5, EarlyKeeps
<1>9. QED
  BY <1>7, <1>8

\* From the second listing on, an enabled skill is told of behind the listing.
LEMMA ReadSkillsKeeps == ASSUME IInv, ReadSkills PROVE IInv'
<1>1. TypeOK /\ Reads("skills")
  BY DEF IInv, ReadSkills
<1>2. /\ Shifts /\ channel[1] = Frame /\ channel[1].kind = "skills" /\ stage \notin Ended
      /\ request' = request /\ deviations' = deviations
  BY <1>1, ReadShifts
<1>3. RequestInv /\ (deviations = 0 => PagesInv)
  BY <1>2, OpenParts
<1>4. /\ stage \in {"list", "relist"}
      /\ \A i \in Places' : channel'[i].kind \notin Responses
  BY <1>2, <1>3, TailResponse, StagesAre DEF Responses
<1>5. CASE stage = "relist" /\ Frame.body # {}
  <2>1. Fail("skills")
    BY <1>5 DEF ReadSkills
  <2>2. QED
    BY <1>1, <2>1, ReadFails DEF Excused
<1>6. CASE ~(stage = "relist" /\ Frame.body # {})
  <2>1. /\ stage' = (IF stage = "relist" THEN "thread" ELSE IF Frame.body = {} THEN "relist" ELSE "write")
        /\ asked' = FALSE /\ UNCHANGED <<listing, id, messages, usage>>
    BY <1>6 DEF ReadSkills, Proceed
  <2>2. stage \in Early /\ stage' \in Early \cup {"thread"}
    BY <1>4, <2>1 DEF Early
  <2>3. Listed' => Listed
    <3>1. CASE stage = "relist"
      <4>1. 1 \in Places
        BY <1>2, ShiftPlaces
      <4>2. channel[1].kind = "skills" /\ channel[1].body = {}
        BY <1>2, <1>6, <3>1
      <4>3. QED
        BY <3>1, <4>1, <4>2 DEF Listed
    <3>2. CASE stage # "relist"
      <4>1. stage' \in {"relist", "write"}
        BY <2>1, <3>2
      <4>2. stage' \notin {"thread", "turn"} \cup Turning
        BY <4>1 DEF Turning
      <4>3. "skills" \in Responses
        BY DEF Responses
      <4>4. QED
        BY <1>4, <4>2, <4>3 DEF Listed
    <3>3. QED
      BY <3>1, <3>2
  <2>4. deviations = 0 => PagesInv'
    BY <1>2, <1>3, <2>1, TailPages
  <2>5. "skills" \in Responses
    BY DEF Responses
  <2>6. QED
    BY <1>1, <2>1, <2>2, <2>3, <2>4, <2>5, EarlyKeeps
<1>7. QED
  BY <1>5, <1>6


\* A read leaves all but what it is about.
LEMMA ReadRest ==
  ASSUME IInv, NEW kind, Reads(kind), stage' \notin Ended, TypeOK', RequestInv', TurnInv', EndInv',
         HeardInv', UsageInv', FinalInv', SkillsInv', AwaitedInv',
         deviations = 0 => AnnouncedInv' /\ OrderInv' /\ PagesInv'
  PROVE  IInv'
<1>1. TypeOK
  BY DEF IInv
<1>2. /\ Shifts /\ stage \notin Ended /\ deviations' = deviations /\ turn' = turn
  BY <1>1, ReadShifts
<1>3. FramesInv /\ SpokenInv /\ (deviations = 0 => \A i \in Places : OnlyOwn(channel[i]))
  BY <1>2, OpenParts
<1>4. FramesInv' /\ SpokenInv'
  BY <1>2, <1>3, TailFrames, TailSpoken
<1>5. deviations = 0 => (\A i \in Places : OnlyOwn(channel[i]))'
  BY <1>2, <1>3, TailOwn
<1>6. HonestInv'
  BY <1>2, <1>5 DEF HonestInv
<1>7. PipeInv'
  BY <1>4, <1>6 DEF PipeInv
<1>8. QED
  BY <1>7, OpenKeeps

\* The second listing is still on its way behind another frame.
LEMMA TailListed ==
  ASSUME Shifts, stage' = stage
  PROVE  Listed' => Listed
<1>1. SUFFICES ASSUME Listed' PROVE Listed
  OBVIOUS
<1>2. CASE stage \in {"thread", "turn"} \cup Turning
  BY <1>2 DEF Listed
<1>3. CASE stage' = "relist" /\ \E i \in Places' : channel'[i].kind = "skills" /\ channel'[i].body = {}
  <2>1. PICK i \in Places' : channel'[i].kind = "skills" /\ channel'[i].body = {}
    BY <1>3
  <2>2. i + 1 \in Places /\ channel[i + 1] = channel'[i]
    BY ShiftPlaces
  <2>3. QED
    BY <1>3, <2>1, <2>2 DEF Listed
<1>4. QED
  BY <1>1, <1>2, <1>3 DEF Listed

\* So is the response of the turn.
LEMMA TailAwaited ==
  ASSUME Shifts, AwaitedInv, UNCHANGED <<stage, asked, request>>, channel[1].kind # "turn"
  PROVE  AwaitedInv'
<1>1. SUFFICES ASSUME stage' = "turn", asked', request' # "turn"
               PROVE  \E i \in Places' : channel'[i].kind = "turn"
  BY DEF AwaitedInv
<1>2. PICK i \in Places : channel[i].kind = "turn"
  BY <1>1 DEF AwaitedInv
<1>3. i - 1 \in Places' /\ channel'[i - 1] = channel[i]
  BY <1>2, ShiftPlaces
<1>4. QED
  BY <1>2, <1>3

\* The client is where it was with the turn.
LEMMA TailTurn ==
  ASSUME Shifts, TurnInv, UNCHANGED <<stage, asked, request, turn, tainted>>,
         id'.thread = id.thread, id'.turn = id.turn,
         turn.state = "none" => messages' = <<>> /\ usage' = 0
  PROVE  TurnInv'
<1>1. \A i \in Places' : i + 1 \in Places /\ channel'[i] = channel[i + 1]
  BY ShiftPlaces
<1>2. Unborn' <=> Unborn
  BY DEF Unborn
<1>3. turn'.state = "none" => \A i \in Places' : ~IsOwn(channel'[i], "completed")
  BY <1>1 DEF TurnInv
<1>4. QED
  BY <1>2, <1>3 DEF TurnInv

\* A notification that leaves the messages and the tokens.
LEMMA NoticeKeeps ==
  ASSUME IInv, NEW kind \in {"item", "status", "limits_updated", "thread_started", "turn_started"},
         Reads(kind), UNCHANGED <<stage, asked, listing, messages, usage>>,
         id' \in [announced_thread : Names, thread : {"none", "own"},
                  announced_turn : Names, turn : {"none", "own"}],
         id'.thread = id.thread, id'.turn = id.turn,
         id'.announced_thread = id.announced_thread \/ kind = "thread_started",
         id'.announced_turn = id.announced_turn \/ kind = "turn_started",
         deviations = 0 => id'.announced_thread # "other" /\ id'.announced_turn # "other"
  PROVE  IInv'
<1>1. TypeOK
  BY DEF IInv
<1>2. /\ Shifts /\ channel' \in Seq(Range(channel')) /\ channel[1].kind = kind
      /\ stage \notin Ended /\ request' = request /\ deviations' = deviations
      /\ enabled' = enabled /\ turn' = turn /\ tainted' = tainted
  BY <1>1, ReadShifts
<1>3. /\ FramesInv /\ RequestInv /\ TurnInv /\ EndInv /\ SpokenInv /\ HeardInv
      /\ UsageInv /\ FinalInv /\ SkillsInv /\ AwaitedInv
      /\ deviations = 0 =>
           (\A i \in Places : OnlyOwn(channel[i])) /\ AnnouncedInv /\ OrderInv /\ PagesInv
  BY <1>2, OpenParts
<1>4. ~IsOwn(channel[1], "message") /\ ~IsOwn(channel[1], "usage")
  BY <1>2 DEF IsOwn
<1>5. TypeOK'
  BY <1>1, <1>2 DEF TypeOK
<1>6. RequestInv' /\ AwaitedInv' /\ EndInv'
  BY <1>2, <1>3, TailRequest, TailAwaited, TailEnd
<1>7. HeardInv' /\ UsageInv'
  BY <1>2, <1>3, <1>4, TailHeard, TailUsage
<1>8. TurnInv'
  <2>1. turn.state = "none" => messages' = <<>> /\ usage' = 0
    BY <1>3 DEF TurnInv
  <2>2. QED
    BY <1>2, <1>3, <2>1, TailTurn
<1>9. FinalInv'
  BY <1>2, <1>3 DEF FinalInv, Twice
<1>10. SkillsInv'
  <2>1. Listed' => Listed
    BY <1>2, TailListed
  <2>2. QED
    BY <1>2, <1>3, <2>1, TailSkills
<1>11. ASSUME deviations = 0 PROVE AnnouncedInv' /\ OrderInv' /\ PagesInv'
  <2>1. id'.announced_thread \in {"none", "own"} /\ id'.announced_turn \in {"none", "own"}
    BY <1>11 DEF Names
  <2>2. ThreadUnborn' => ThreadUnborn
    BY <1>2 DEF ThreadUnborn
  <2>3. AnnouncedInv'
    BY <1>2, <1>3, <1>11, <2>1, <2>2, TailAnnounced
  <2>4. OrderInv'
    BY <1>2, <1>3, <1>11, TailOrder
  <2>5. PagesInv'
    BY <1>2, <1>3, <1>11, TailPages
  <2>6. QED
    BY <2>3, <2>4, <2>5
<1>12. QED
  BY <1>2, <1>5, <1>6, <1>7, <1>8, <1>9, <1>10, <1>11, ReadRest

\* What an honest server sends of its turn comes when the client knows the turn.
LEMMA InScope ==
  ASSUME IInv, NEW kind, Reads(kind), deviations = 0
  PROVE  /\ kind \notin {"forbidden", "refusal"}
         /\ kind \in ScopedKinds => Frame.thread = "own" /\ Frame.turn = "own"
         /\ kind \in {"usage", "item", "status", "message", "completed"} =>
              id.thread = "own" /\ id.turn = "own" /\ stage \in Turning
         /\ kind = "turn_started" => id.thread = "own" /\ id.announced_turn = "none"
         /\ kind = "thread_started" => id.announced_thread = "none"
<1>1. TypeOK
  BY DEF IInv
<1>2. Shifts /\ channel[1] = Frame /\ channel[1].kind = kind /\ stage \notin Ended
  BY <1>1, ReadShifts
<1>3. 1 \in Places /\ \A i \in Places : ~(i < 1)
  BY <1>2, ShiftPlaces DEF Places
<1>4. TurnInv /\ (\A i \in Places : OnlyOwn(channel[i])) /\ AnnouncedInv /\ OrderInv
  BY <1>2, OpenParts
<1>5. OnlyOwn(Frame) /\ Frame.kind = kind
  BY <1>2, <1>3, <1>4
<1>6. ASSUME kind \in {"usage", "item", "status", "message", "completed"}
      PROVE  id.thread = "own" /\ id.turn = "own" /\ stage \in Turning
  <2>1. id.turn = "own"
    BY <1>2, <1>3, <1>4, <1>6 DEF OrderInv
  <2>2. QED
    BY <1>4, <2>1 DEF TurnInv
<1>7. ASSUME kind = "turn_started" PROVE id.thread = "own" /\ id.announced_turn = "none"
  <2>1. turn.state # "none" /\ id.announced_turn = "none"
    BY <1>2, <1>3, <1>4, <1>7 DEF AnnouncedInv
  <2>2. stage \in {"turn"} \cup Turning
    BY <1>1, <1>2, <1>4, <2>1 DEF TurnInv, Unborn, TypeOK, Stages
  <2>3. QED
    BY <1>4, <2>1, <2>2 DEF TurnInv
<1>8. kind = "thread_started" => id.announced_thread = "none"
  BY <1>2, <1>3, <1>4 DEF AnnouncedInv
<1>9. QED
  BY <1>5, <1>6, <1>7, <1>8 DEF OnlyOwn

\* A frame that no honest server sends.
LEMMA ReadRefusedKeeps == ASSUME IInv, ReadRefusal \/ ReadForbidden PROVE IInv'
<1>1. CASE ReadRefusal
  <2>1. Reads("refusal") /\ Fail("refused")
    BY <1>1 DEF ReadRefusal
  <2>2. deviations # 0
    BY <2>1, InScope
  <2>3. QED
    BY <2>1, <2>2, ReadFails
<1>2. CASE ReadForbidden
  <2>1. Reads("forbidden") /\ Fail("refused")
    BY <1>2 DEF ReadForbidden
  <2>2. deviations # 0
    BY <2>1, InScope
  <2>3. QED
    BY <2>1, <2>2, ReadFails
<1>3. QED
  BY <1>1, <1>2

\* Frames of the turn that change nothing the outcome is made of.
LEMMA ReadItemKeeps == ASSUME IInv, ReadItem \/ ReadStatus \/ ReadLimitsUpdated PROVE IInv'
<1>1. TypeOK
  BY DEF IInv
<1>2. ASSUME NEW kind \in {"item", "status", "limits_updated"}, Reads(kind),
             UNCHANGED <<stage, asked, listing, id, messages, usage>>
      PROVE  IInv'
  <2>1. deviations = 0 => id.announced_thread # "other" /\ id.announced_turn # "other"
    <3>1. stage \notin Ended
      BY <1>1, <1>2, ReadShifts
    <3>2. QED
      BY <3>1, OpenParts DEF AnnouncedInv
  <2>2. id \in [announced_thread : Names, thread : {"none", "own"},
                announced_turn : Names, turn : {"none", "own"}]
    BY <1>1 DEF TypeOK
  <2>3. QED
    BY <1>2, <2>1, <2>2, NoticeKeeps
<1>3. CASE ReadItem
  <2>1. Reads("item")
    BY <1>3 DEF ReadItem
  <2>2. CASE MatchesTurn
    <3>1. UNCHANGED <<stage, asked, listing, id, messages, usage>>
      BY <1>3, <2>2 DEF ReadItem, client
    <3>2. QED
      BY <1>2, <2>1, <3>1
  <2>3. CASE ~MatchesTurn
    <3>1. deviations # 0
      BY <2>1, <2>3, InScope DEF MatchesTurn, ScopedKinds
    <3>2. Fail("scope")
      BY <1>3, <2>3 DEF ReadItem
    <3>3. QED
      BY <2>1, <3>1, <3>2, ReadFails
  <2>4. QED
    BY <2>2, <2>3
<1>4. CASE ReadStatus
  <2>1. Reads("status")
    BY <1>4 DEF ReadStatus
  <2>2. CASE Frame.thread = id.thread
    <3>1. UNCHANGED <<stage, asked, listing, id, messages, usage>>
      BY <1>4, <2>2 DEF ReadStatus, client
    <3>2. QED
      BY <1>2, <2>1, <3>1
  <2>3. CASE Frame.thread # id.thread
    <3>1. deviations # 0
      BY <2>1, <2>3, InScope DEF ScopedKinds
    <3>2. Fail("scope")
      BY <1>4, <2>3 DEF ReadStatus
    <3>3. QED
      BY <2>1, <3>1, <3>2, ReadFails
  <2>4. QED
    BY <2>2, <2>3
<1>5. CASE ReadLimitsUpdated
  <2>1. Reads("limits_updated")
    BY <1>5 DEF ReadLimitsUpdated
  <2>2. CASE Fail("limits")
    BY <2>1, <2>2, ReadFails DEF Excused
  <2>3. CASE ~Fail("limits")
    <3>1. UNCHANGED <<stage, asked, listing, id, messages, usage>>
      BY <1>5, <2>3 DEF ReadLimitsUpdated, client
    <3>2. QED
      BY <1>2, <2>1, <3>1
  <2>4. QED
    BY <2>2, <2>3
<1>6. QED
  BY <1>3, <1>4, <1>5

\* The thread and the turn are announced once.
LEMMA ReadStartedKeeps == ASSUME IInv, ReadThreadStarted \/ ReadTurnStarted PROVE IInv'
<1>1. TypeOK
  BY DEF IInv
<1>2. id \in [announced_thread : Names, thread : {"none", "own"},
              announced_turn : Names, turn : {"none", "own"}]
  BY <1>1 DEF TypeOK
<1>3. stage \notin Ended => (deviations = 0 => id.announced_thread # "other" /\ id.announced_turn # "other")
  BY OpenParts DEF AnnouncedInv
<1>4. CASE ReadThreadStarted
  <2>1. Reads("thread_started")
    BY <1>4 DEF ReadThreadStarted
  <2>2. stage \notin Ended /\ Shifts /\ channel[1] = Frame /\ Frame.kind = "thread_started"
    BY <1>1, <2>1, ReadShifts
  <2>3. CASE id.announced_thread # "none"
    <3>1. Fail("twice")
      BY <1>4, <2>3 DEF ReadThreadStarted
    <3>2. deviations # 0
      BY <2>1, <2>3, InScope
    <3>3. QED
      BY <2>1, <3>1, <3>2, ReadFails
  <2>4. CASE id.announced_thread = "none"
    <3>1. /\ id' = [id EXCEPT !.announced_thread = Frame.thread]
          /\ UNCHANGED <<stage, asked, listing, messages, usage>>
      BY <1>4, <2>4 DEF ReadThreadStarted
    <3>2. Frame.thread \in Names
      <4>1. Fine(Frame)
        BY <2>2, OpenParts, ShiftPlaces DEF FramesInv
      <4>2. QED
        BY <2>2, <4>1 DEF Fine, ScopedKinds, Names
    <3>3. deviations = 0 => Frame.thread = "own"
      BY <2>1, InScope DEF ScopedKinds
    <3>4. /\ id' \in [announced_thread : Names, thread : {"none", "own"},
                      announced_turn : Names, turn : {"none", "own"}]
          /\ id'.thread = id.thread /\ id'.turn = id.turn /\ id'.announced_turn = id.announced_turn
          /\ id'.announced_thread = Frame.thread
      BY <1>2, <3>1, <3>2
    <3>5. deviations = 0 => id'.announced_thread # "other" /\ id'.announced_turn # "other"
      BY <1>3, <2>2, <3>3, <3>4
    <3>6. QED
      BY <2>1, <3>1, <3>4, <3>5, NoticeKeeps
  <2>5. QED
    BY <2>3, <2>4
<1>5. CASE ReadTurnStarted
  <2>1. Reads("turn_started")
    BY <1>5 DEF ReadTurnStarted
  <2>2. stage \notin Ended /\ Shifts /\ channel[1] = Frame /\ Frame.kind = "turn_started"
    BY <1>1, <2>1, ReadShifts
  <2>3. deviations = 0 => /\ Frame.thread = "own" /\ Frame.turn = "own" /\ id.thread = "own"
                          /\ id.announced_turn = "none"
    BY <2>1, InScope DEF ScopedKinds
  <2>4. CASE Frame.thread # id.thread \/ id.announced_turn # "none"
    <3>1. Fail("twice") \/ Fail("scope")
      BY <1>5, <2>4 DEF ReadTurnStarted
    <3>2. deviations # 0
      BY <2>3, <2>4
    <3>3. QED
      BY <2>1, <3>1, <3>2, ReadFails
  <2>5. CASE ~(Frame.thread # id.thread \/ id.announced_turn # "none")
    <3>1. /\ id' = [id EXCEPT !.announced_turn = Frame.turn]
          /\ UNCHANGED <<stage, asked, listing, messages, usage>>
      BY <1>5, <2>5 DEF ReadTurnStarted
    <3>2. Frame.turn \in Names
      <4>1. Fine(Frame)
        BY <2>2, OpenParts, ShiftPlaces DEF FramesInv
      <4>2. QED
        BY <2>2, <4>1 DEF Fine, ScopedKinds, Names
    <3>3. /\ id' \in [announced_thread : Names, thread : {"none", "own"},
                      announced_turn : Names, turn : {"none", "own"}]
          /\ id'.thread = id.thread /\ id'.turn = id.turn /\ id'.announced_thread = id.announced_thread
          /\ id'.announced_turn = Frame.turn
      BY <1>2, <3>1, <3>2
    <3>4. deviations = 0 => id'.announced_thread # "other" /\ id'.announced_turn # "other"
      BY <1>3, <2>2, <2>3, <3>3
    <3>5. QED
      BY <2>1, <3>1, <3>3, <3>4, NoticeKeeps
  <2>6. QED
    BY <2>4, <2>5
<1>6. QED
  BY <1>4, <1>5


\* A frame that matches the turn is one the server has sent of it.
LEMMA MatchIsOwn ==
  ASSUME IInv, NEW kind \in ScopedKinds, Reads(kind), MatchesTurn
  PROVE  IsOwn(channel[1], kind) /\ id.turn = "own" /\ stage \in Turning /\ turn.state # "none"
<1>1. TypeOK
  BY DEF IInv
<1>2. Shifts /\ channel[1] = Frame /\ channel[1].kind = kind /\ stage \notin Ended
  BY <1>1, ReadShifts
<1>3. Fine(Frame) /\ TurnInv /\ RequestInv
  BY <1>2, OpenParts, ShiftPlaces DEF FramesInv
<1>4. Frame.thread \in {"own", "other"} /\ Frame.turn \in {"own", "other"}
  BY <1>2, <1>3 DEF Fine
<1>5. id.thread \in {"none", "own"} /\ id.turn \in {"none", "own"}
  BY <1>1 DEF TypeOK
<1>6. Frame.thread = "own" /\ Frame.turn = "own" /\ id.turn = "own"
  BY <1>4, <1>5 DEF MatchesTurn
<1>7. stage \in Turning
  BY <1>3, <1>6 DEF TurnInv
<1>8. ~Unborn
  BY <1>3, <1>7 DEF Unborn, RequestInv, Turning, Early
<1>9. QED
  BY <1>2, <1>3, <1>6, <1>7, <1>8 DEF IsOwn, TurnInv

\* The tokens that are told are those of the turn, so far.
LEMMA ReadUsageKeeps == ASSUME IInv, ReadUsage PROVE IInv'
<1>1. TypeOK /\ Reads("usage")
  BY DEF IInv, ReadUsage
<1>2. /\ Shifts /\ channel' \in Seq(Range(channel')) /\ channel[1] = Frame
      /\ channel[1].kind = "usage"
      /\ stage \notin Ended /\ request' = request /\ deviations' = deviations
      /\ enabled' = enabled /\ turn' = turn /\ tainted' = tainted
  BY <1>1, ReadShifts
<1>3. /\ FramesInv /\ RequestInv /\ TurnInv /\ EndInv /\ SpokenInv /\ HeardInv
      /\ UsageInv /\ FinalInv /\ SkillsInv /\ AwaitedInv
      /\ deviations = 0 =>
           (\A i \in Places : OnlyOwn(channel[i])) /\ AnnouncedInv /\ OrderInv /\ PagesInv
  BY <1>2, OpenParts
<1>4. CASE ~MatchesTurn
  <2>1. Fail("scope")
    BY <1>4 DEF ReadUsage
  <2>2. deviations # 0
    BY <1>1, <1>4, InScope DEF MatchesTurn, ScopedKinds
  <2>3. QED
    BY <1>1, <2>1, <2>2, ReadFails
<1>5. CASE MatchesTurn
  <2>1. usage' = channel[1].body /\ UNCHANGED <<stage, asked, listing, id, messages>>
    BY <1>2, <1>5 DEF ReadUsage
  <2>2. IsOwn(channel[1], "usage") /\ turn.state # "none"
    BY <1>1, <1>5, MatchIsOwn DEF ScopedKinds
  <2>3. 1 \in Places /\ Places \subseteq Nat \ {0} /\ Places' \subseteq Nat \ {0}
        /\ (\A i \in Places' : i + 1 \in Places /\ channel'[i] = channel[i + 1])
        /\ \A i \in Places : i # 1 => i - 1 \in Places' /\ channel'[i - 1] = channel[i]
    BY <1>2, ShiftPlaces DEF Places
  <2>4. usage' \in Nat
    BY <1>2, <1>3, <2>1, <2>3 DEF FramesInv, Fine
  <2>5. TypeOK'
    BY <1>1, <1>2, <2>1, <2>4 DEF TypeOK
  <2>6. UsageInv'
    <3>1. usage <= usage' /\ usage' <= turn.tokens
      BY <1>3, <2>1, <2>2, <2>3 DEF UsageInv
    <3>2. ASSUME NEW i \in Places', IsOwn(channel'[i], "usage")
          PROVE  /\ usage' <= channel'[i].body /\ channel'[i].body <= turn'.tokens
                 /\ \A j \in Places' : IsOwn(channel'[j], "usage") /\ i < j =>
                      channel'[i].body <= channel'[j].body
      <4>1. i + 1 \in Places /\ channel'[i] = channel[i + 1] /\ 1 < i + 1
        BY <2>3
      <4>2. usage' <= channel'[i].body /\ channel'[i].body <= turn'.tokens
        BY <1>2, <1>3, <2>1, <2>2, <2>3, <3>2, <4>1 DEF UsageInv
      <4>3. ASSUME NEW j \in Places', IsOwn(channel'[j], "usage"), i < j
            PROVE  channel'[i].body <= channel'[j].body
        <5>1. j + 1 \in Places /\ channel'[j] = channel[j + 1] /\ i + 1 < j + 1
          BY <2>3, <4>3
        <5>2. QED
          BY <1>3, <3>2, <4>1, <4>3, <5>1 DEF UsageInv
      <4>4. QED
        BY <4>2, <4>3
    <3>3. usage' = turn'.tokens
          \/ \E i \in Places' : IsOwn(channel'[i], "usage") /\ channel'[i].body = turn'.tokens
      <4>1. CASE usage = turn.tokens
        <5>1. usage \in Nat /\ turn.tokens \in Nat
          BY <1>1 DEF TypeOK
        <5>2. QED
          BY <1>2, <2>4, <3>1, <4>1, <5>1
      <4>2. CASE \E i \in Places : IsOwn(channel[i], "usage") /\ channel[i].body = turn.tokens
        <5>1. PICK i \in Places : IsOwn(channel[i], "usage") /\ channel[i].body = turn.tokens
          BY <4>2
        <5>2. CASE i = 1
          BY <1>2, <2>1, <5>1, <5>2
        <5>3. CASE i # 1
          BY <1>2, <2>3, <5>1, <5>3
        <5>4. QED
          BY <5>2, <5>3
      <4>3. QED
        BY <1>3, <4>1, <4>2 DEF UsageInv
    <3>4. QED
      BY <3>2, <3>3 DEF UsageInv
  <2>7. RequestInv' /\ AwaitedInv' /\ EndInv' /\ HeardInv'
    BY <1>2, <1>3, <2>1, TailRequest, TailAwaited, TailEnd, TailHeard DEF IsOwn
  <2>8. TurnInv'
    BY <1>2, <1>3, <2>1, <2>2, TailTurn
  <2>9. FinalInv'
    BY <1>2, <1>3, <2>1 DEF FinalInv, Twice
  <2>10. SkillsInv'
    <3>1. Listed' => Listed
      BY <1>2, <2>1, TailListed
    <3>2. QED
      BY <1>2, <1>3, <2>1, <3>1, TailSkills
  <2>11. ASSUME deviations = 0 PROVE AnnouncedInv' /\ OrderInv' /\ PagesInv'
    <3>1. id'.announced_thread \in {"none", "own"} /\ id'.announced_turn \in {"none", "own"}
      BY <1>1, <1>3, <2>1, <2>11 DEF AnnouncedInv, TypeOK, Names
    <3>2. ThreadUnborn' => ThreadUnborn
      BY <1>2, <2>1 DEF ThreadUnborn
    <3>3. AnnouncedInv'
      BY <1>2, <1>3, <2>1, <2>11, <3>1, <3>2, TailAnnounced
    <3>4. OrderInv'
      BY <1>2, <1>3, <2>1, <2>11, TailOrder
    <3>5. PagesInv'
      BY <1>2, <1>3, <2>1, <2>11, TailPages
    <3>6. QED
      BY <3>3, <3>4, <3>5
  <2>12. stage' \notin Ended
    BY <1>2, <2>1
  <2>13. QED
    BY <1>1, <2>5, <2>6, <2>7, <2>8, <2>9, <2>10, <2>11, <2>12, ReadRest
<1>6. QED
  BY <1>4, <1>5

\* A message that is heard twice is never forgotten.
LEMMA StaysTwice ==
  ASSUME messages \in Seq(Message), NEW m \in Message, messages' = Append(messages, m), Twice
  PROVE  Twice'
<1>1. PICK i \in DOMAIN messages : \E j \in DOMAIN messages : messages[i].key = messages[j].key /\ i # j
  BY DEF Twice
<1>2. PICK j \in DOMAIN messages : messages[i].key = messages[j].key /\ i # j
  BY <1>1
<1>3. \A k \in DOMAIN messages : k \in DOMAIN messages' /\ messages'[k] = messages[k]
  OBVIOUS
<1>4. QED
  BY <1>2, <1>3 DEF Twice

\* Messages that are the first ones of the turn, after a step, are different ones.
LEMMA NoneTwiceNext ==
  ASSUME messages' \in Seq(Message), turn'.said \in Seq(Message), SpokenInv',
         Len(messages') <= Len(turn'.said), \A k \in DOMAIN messages' : messages'[k] = turn'.said[k]
  PROVE  ~Twice'
<1>1. \A k \in DOMAIN messages' : k \in DOMAIN turn'.said
  OBVIOUS
<1>2. \A k \in DOMAIN messages' : messages'[k].key = k
  BY <1>1 DEF SpokenInv
<1>3. QED
  BY <1>2 DEF Twice

\* The first message on its way is the next one, or one that was heard already.
LEMMA NextHeard ==
  ASSUME TypeOK, Shifts, SpokenInv, HeardInv, ~Twice, IsOwn(channel[1], "message")
  PROVE  channel[1].body = turn.said[channel[1].body.key]
         /\ channel[1].body.key \in DOMAIN turn.said
         /\ channel[1].body.key \in {Len(messages), Len(messages) + 1}
<1>1. 1 \in Places /\ \A i \in Places : ~(i < 1)
  BY ShiftPlaces DEF Places
<1>2. messages \in Seq(Message) /\ turn.said \in Seq(Message)
  BY DEF TypeOK
<1>3. Len(messages) \in Nat /\ DOMAIN turn.said = 1..Len(turn.said) /\ Len(turn.said) \in Nat
  BY <1>2
<1> DEFINE n == Len(messages)
           k == channel[1].body.key
<1>4. channel[1].body = turn.said[k] /\ k \in DOMAIN turn.said /\ n <= k
  BY <1>1 DEF SpokenInv, HeardInv
<1>5. ASSUME n + 1 < k PROVE FALSE
  <2>1. n + 1 \in DOMAIN turn.said /\ n < n + 1
    BY <1>3, <1>4, <1>5
  <2>2. \E j \in Places : j < 1 /\ IsOwn(channel[j], "message") /\ channel[j].body.key = n + 1
    BY <1>1, <1>5, <2>1 DEF HeardInv
  <2>3. QED
    BY <1>1, <2>2
<1>6. QED
  BY <1>3, <1>4, <1>5

\* The next message is heard.
LEMMA HearsNext ==
  ASSUME TypeOK, Shifts, SpokenInv, HeardInv, turn' = turn,
         IsOwn(channel[1], "message"), messages' = Append(messages, channel[1].body)
  PROVE  /\ HeardInv'
         /\ ~Twice /\ channel[1].body.key = Len(messages) + 1 =>
              Len(messages') <= Len(turn'.said) /\ \A k \in DOMAIN messages' : messages'[k] = turn'.said[k]
<1>0. /\ \A i \in Places' : i + 1 \in Places /\ channel'[i] = channel[i + 1]
      /\ \A i \in Places : i # 1 => i - 1 \in Places' /\ channel'[i - 1] = channel[i]
      /\ 1 \in Places /\ Places \subseteq Nat \ {0} /\ Places' \subseteq Nat \ {0}
  BY ShiftPlaces DEF Places
<1> DEFINE m == channel[1].body
           n == Len(messages)
<1>1. messages \in Seq(Message) /\ turn.said \in Seq(Message) /\ n \in Nat
  BY DEF TypeOK
<1>2. m \in Message
  <2>1. m.key \in DOMAIN turn.said /\ m = turn.said[m.key]
    BY <1>0 DEF SpokenInv
  <2>2. QED
    BY <1>1, <2>1
<1>3. CASE Twice
  BY <1>1, <1>2, <1>3, StaysTwice DEF HeardInv
<1>4. CASE ~Twice /\ m.key = n
  <2>1. n \in DOMAIN turn.said /\ m = turn.said[n]
    BY <1>4, NextHeard
  <2>2. n \in DOMAIN messages /\ messages[n] = turn.said[n]
    BY <1>1, <1>4, <2>1 DEF HeardInv
  <2>3. /\ n \in DOMAIN messages' /\ n + 1 \in DOMAIN messages' /\ n # n + 1
        /\ messages'[n] = messages[n] /\ messages'[n + 1] = m
    BY <1>1, <2>2
  <2>4. Twice'
    BY <2>1, <2>2, <2>3 DEF Twice
  <2>5. m.key # n + 1
    BY <1>1, <1>4
  <2>6. QED
    BY <2>4, <2>5 DEF HeardInv
<1>5. CASE ~Twice /\ m.key = n + 1
  <2>1. n + 1 \in DOMAIN turn.said /\ m = turn.said[n + 1]
    BY <1>5, NextHeard
  <2>2. Len(messages') = n + 1 /\ Len(messages') <= Len(turn'.said)
    BY <1>1, <2>1
  <2>3. \A k \in DOMAIN messages : messages[k] = turn.said[k]
    BY <1>5 DEF HeardInv
  <2>4. ASSUME NEW k \in DOMAIN messages' PROVE messages'[k] = turn'.said[k]
    <3>1. CASE k = n + 1
      BY <1>1, <2>1, <3>1
    <3>2. CASE k # n + 1
      <4>1. k \in DOMAIN messages /\ messages'[k] = messages[k]
        BY <1>1, <3>2
      <4>2. QED
        BY <2>3, <4>1
    <3>3. QED
      BY <3>1, <3>2
  <2>5. ASSUME NEW i \in Places', IsOwn(channel'[i], "message")
        PROVE  /\ channel'[i].body.key >= Len(messages')
               /\ \A k \in DOMAIN turn'.said : Len(messages') < k /\ k < channel'[i].body.key =>
                    \E j \in Places' : /\ j < i /\ IsOwn(channel'[j], "message")
                                       /\ channel'[j].body.key = k
               /\ \A j \in Places' : IsOwn(channel'[j], "message") /\ i < j =>
                    channel'[i].body.key <= channel'[j].body.key
    <3>1. i + 1 \in Places /\ channel'[i] = channel[i + 1] /\ 1 < i + 1
      BY <1>0
    <3>2. m.key <= channel[i + 1].body.key
      BY <1>0, <1>5, <2>5, <3>1 DEF HeardInv
    <3>3. channel[i + 1].body.key \in Nat
      <4>1. channel[i + 1].body.key \in DOMAIN turn.said
        BY <2>5, <3>1 DEF SpokenInv
      <4>2. QED
        BY <1>1, <4>1
    <3>4. channel'[i].body.key >= Len(messages')
      BY <1>1, <1>5, <2>2, <3>1, <3>2, <3>3
    <3>5. ASSUME NEW k \in DOMAIN turn.said, n + 1 < k, k < channel[i + 1].body.key
          PROVE  \E j \in Places' : /\ j < i /\ IsOwn(channel'[j], "message")
                                    /\ channel'[j].body.key = k
      <4>1. n < k
        BY <1>1, <3>5
      <4>2. PICK j \in Places : /\ j < i + 1 /\ IsOwn(channel[j], "message")
                                /\ channel[j].body.key = k
        BY <1>5, <2>5, <3>1, <3>5, <4>1 DEF HeardInv
      <4>3. j # 1
        BY <1>1, <1>5, <3>5, <4>2
      <4>4. j - 1 \in Places' /\ channel'[j - 1] = channel[j] /\ j - 1 < i
        BY <1>0, <4>2, <4>3
      <4>5. QED
        BY <4>2, <4>4
    <3>6. ASSUME NEW j \in Places', IsOwn(channel'[j], "message"), i < j
          PROVE  channel'[i].body.key <= channel'[j].body.key
      <4>1. j + 1 \in Places /\ channel'[j] = channel[j + 1] /\ i + 1 < j + 1
        BY <1>0, <3>6
      <4>2. QED
        BY <1>5, <2>5, <3>1, <3>6, <4>1 DEF HeardInv
    <3>7. QED
      BY <2>2, <3>1, <3>4, <3>5, <3>6
  <2>6. ASSUME NEW k \in DOMAIN turn'.said, Len(messages') < k
        PROVE  \E i \in Places' : IsOwn(channel'[i], "message") /\ channel'[i].body.key = k
    <3>1. k \in DOMAIN turn.said /\ n < k /\ k # n + 1
      BY <1>1, <2>2, <2>6
    <3>2. PICK i \in Places : IsOwn(channel[i], "message") /\ channel[i].body.key = k
      BY <1>5, <3>1 DEF HeardInv
    <3>3. i # 1
      BY <1>5, <3>1, <3>2
    <3>4. i - 1 \in Places' /\ channel'[i - 1] = channel[i]
      BY <1>0, <3>2, <3>3
    <3>5. QED
      BY <3>2, <3>4
  <2>7. QED
    BY <2>2, <2>4, <2>5, <2>6 DEF HeardInv
<1>6. QED
  BY <1>3, <1>4, <1>5, NextHeard


\* A message is heard in its turn.
LEMMA ReadMessageKeeps == ASSUME IInv, ReadMessage PROVE IInv'
<1>1. TypeOK /\ Reads("message")
  BY DEF IInv, ReadMessage
<1>2. /\ Shifts /\ channel' \in Seq(Range(channel')) /\ channel[1] = Frame
      /\ channel[1].kind = "message"
      /\ stage \notin Ended /\ request' = request /\ deviations' = deviations
      /\ enabled' = enabled /\ turn' = turn /\ tainted' = tainted
  BY <1>1, ReadShifts
<1>3. /\ FramesInv /\ RequestInv /\ TurnInv /\ EndInv /\ SpokenInv /\ HeardInv
      /\ UsageInv /\ FinalInv /\ SkillsInv /\ AwaitedInv
      /\ deviations = 0 =>
           (\A i \in Places : OnlyOwn(channel[i])) /\ AnnouncedInv /\ OrderInv /\ PagesInv
  BY <1>2, OpenParts
<1>0. /\ 1 \in Places /\ Places \subseteq Nat \ {0} /\ Places' \subseteq Nat \ {0}
      /\ (\A i \in Places' : i + 1 \in Places /\ channel'[i] = channel[i + 1])
      /\ \A i \in Places : i # 1 => i - 1 \in Places' /\ channel'[i - 1] = channel[i]
  BY <1>2, ShiftPlaces DEF Places
<1>t. messages \in Seq(Message) /\ turn.said \in Seq(Message) /\ Len(messages) \in Nat /\ MaxMessages \in Nat
  BY <1>1, BoundsAssumption DEF TypeOK
<1>4. CASE ~MatchesTurn
  <2>1. Fail("scope")
    BY <1>4 DEF ReadMessage
  <2>2. deviations # 0
    BY <1>1, <1>4, InScope DEF MatchesTurn, ScopedKinds
  <2>3. QED
    BY <1>1, <2>1, <2>2, ReadFails
<1>5. ASSUME MatchesTurn, deviations = 0
      PROVE  ~Twice /\ Len(messages) < MaxMessages /\ channel[1].body.key = Len(messages) + 1
  <2>1. IsOwn(channel[1], "message")
    BY <1>1, <1>5, MatchIsOwn DEF ScopedKinds
  <2>2. ~Twice /\ Len(messages) < channel[1].body.key /\ Len(turn.said) <= MaxMessages
    BY <1>0, <1>2, <1>3, <1>5 DEF OrderInv
  <2>3. /\ channel[1].body.key \in DOMAIN turn.said
        /\ channel[1].body.key \in {Len(messages), Len(messages) + 1}
    BY <1>1, <1>2, <1>3, <2>1, <2>2, NextHeard
  <2>4. channel[1].body.key = Len(messages) + 1
    BY <1>t, <2>2, <2>3
  <2>5. Len(messages) + 1 <= Len(turn.said) /\ Len(turn.said) \in Nat
    BY <1>t, <2>3, <2>4
  <2>6. QED
    BY <1>t, <2>2, <2>4, <2>5
<1>6. CASE MatchesTurn /\ Len(messages) >= MaxMessages
  <2>1. Fail("refused")
    BY <1>6 DEF ReadMessage
  <2>2. deviations # 0
    BY <1>5, <1>6, <1>t
  <2>3. QED
    BY <1>1, <2>1, <2>2, ReadFails
<1>7. CASE MatchesTurn /\ ~(Len(messages) >= MaxMessages)
  <2>1. messages' = Append(messages, channel[1].body) /\ UNCHANGED <<stage, asked, listing, id, usage>>
    BY <1>2, <1>7 DEF ReadMessage
  <2>2. IsOwn(channel[1], "message") /\ turn.state # "none"
    BY <1>1, <1>7, MatchIsOwn DEF ScopedKinds
  <2>3. channel[1].body \in Message
    BY <1>0, <1>2, <1>3 DEF FramesInv, Fine
  <2>4. messages' \in Seq(Message) /\ Len(messages') = Len(messages) + 1
    BY <1>t, <2>1, <2>3
  <2>5. TypeOK'
    BY <1>1, <1>2, <2>1, <2>4 DEF TypeOK
  <2>6. HeardInv' /\ (~Twice /\ channel[1].body.key = Len(messages) + 1 =>
          Len(messages') <= Len(turn'.said) /\ \A k \in DOMAIN messages' : messages'[k] = turn'.said[k])
    BY <1>1, <1>2, <1>3, <2>1, <2>2, HearsNext
  <2>7. RequestInv' /\ AwaitedInv' /\ EndInv' /\ UsageInv' /\ SpokenInv'
    BY <1>2, <1>3, <2>1, TailRequest, TailAwaited, TailEnd, TailUsage, TailSpoken DEF IsOwn
  <2>8. TurnInv'
    BY <1>2, <1>3, <2>1, <2>2, TailTurn
  <2>9. FinalInv'
    <3>1. stage # "after"
      BY <1>0, <1>3, <2>2 DEF EndInv
    <3>2. QED
      BY <2>1, <3>1 DEF FinalInv
  <2>10. SkillsInv'
    <3>1. Listed' => Listed
      BY <1>2, <2>1, TailListed
    <3>2. QED
      BY <1>2, <1>3, <2>1, <3>1, TailSkills
  <2>11. ASSUME deviations = 0 PROVE AnnouncedInv' /\ OrderInv' /\ PagesInv'
    <3>1. id'.announced_thread \in {"none", "own"} /\ id'.announced_turn \in {"none", "own"}
      BY <1>1, <1>3, <2>1, <2>11 DEF AnnouncedInv, TypeOK, Names
    <3>2. ThreadUnborn' => ThreadUnborn
      BY <1>2, <2>1 DEF ThreadUnborn
    <3>3. AnnouncedInv'
      BY <1>2, <1>3, <2>1, <2>11, <3>1, <3>2, TailAnnounced
    <3>4. ~Twice'
      BY <1>5, <1>7, <1>t, <1>2, <2>4, <2>6, <2>7, <2>11, NoneTwiceNext
    <3>5. \A i \in Places' : channel'[i].kind = "message" => Len(messages') < channel'[i].body.key
      <4>1. SUFFICES ASSUME NEW i \in Places', channel'[i].kind = "message"
                     PROVE  Len(messages') < channel'[i].body.key
        OBVIOUS
      <4>2. i + 1 \in Places /\ channel'[i] = channel[i + 1] /\ 1 < i + 1
        BY <1>0
      <4>3. channel[1].body.key < channel[i + 1].body.key
        BY <1>0, <1>2, <1>3, <2>11, <4>1, <4>2 DEF OrderInv
      <4>4. QED
        BY <1>5, <1>7, <2>4, <2>11, <4>2, <4>3
    <3>6. OrderInv'
      BY <1>2, <1>3, <2>1, <2>11, <3>4, <3>5, TailOrder
    <3>7. PagesInv'
      BY <1>2, <1>3, <2>1, <2>11, TailPages
    <3>8. QED
      BY <3>3, <3>6, <3>7
  <2>12. stage' \notin Ended
    BY <1>2, <2>1
  <2>13. QED
    BY <1>1, <2>5, <2>6, <2>7, <2>8, <2>9, <2>10, <2>11, <2>12, ReadRest
<1>8. QED
  BY <1>4, <1>6, <1>7

\* The end of the turn comes behind all its messages and tokens.
LEMMA ReadCompletedKeeps == ASSUME IInv, ReadCompleted PROVE IInv'
<1>1. TypeOK /\ Reads("completed")
  BY DEF IInv, ReadCompleted
<1>2. /\ Shifts /\ channel' \in Seq(Range(channel')) /\ channel[1] = Frame
      /\ channel[1].kind = "completed"
      /\ stage \notin Ended /\ request' = request /\ deviations' = deviations
      /\ enabled' = enabled /\ turn' = turn /\ tainted' = tainted
  BY <1>1, ReadShifts
<1>3. /\ FramesInv /\ RequestInv /\ TurnInv /\ EndInv /\ SpokenInv /\ HeardInv
      /\ UsageInv /\ FinalInv /\ SkillsInv /\ AwaitedInv
      /\ deviations = 0 =>
           (\A i \in Places : OnlyOwn(channel[i])) /\ AnnouncedInv /\ OrderInv /\ PagesInv
  BY <1>2, OpenParts
<1>0. /\ 1 \in Places /\ Places \subseteq Nat \ {0} /\ Places' \subseteq Nat \ {0}
      /\ (\A i \in Places' : i + 1 \in Places /\ channel'[i] = channel[i + 1])
      /\ \A i \in Places : i # 1 => i - 1 \in Places' /\ channel'[i - 1] = channel[i]
  BY <1>2, ShiftPlaces DEF Places
<1>4. CASE ~MatchesTurn
  <2>1. Fail("scope")
    BY <1>4 DEF ReadCompleted, MatchesTurn
  <2>2. deviations # 0
    BY <1>1, <1>4, InScope DEF MatchesTurn, ScopedKinds
  <2>3. QED
    BY <1>1, <2>1, <2>2, ReadFails
<1>5. CASE MatchesTurn /\ stage # "wait"
  <2>1. Fail("twice")
    BY <1>5 DEF ReadCompleted, MatchesTurn
  <2>2. ASSUME deviations = 0 PROVE FALSE
    <3>1. stage = "after"
      BY <1>1, <1>5, <2>2, InScope DEF Turning
    <3>2. QED
      BY <1>0, <1>2, <1>3, <2>2, <3>1 DEF OrderInv
  <2>3. QED
    BY <1>1, <2>1, <2>2, ReadFails
<1>6. CASE MatchesTurn /\ stage = "wait" /\ Fail("final")
  BY <1>1, <1>6, ReadFails DEF Excused
<1>7. CASE MatchesTurn /\ stage = "wait" /\ ~Fail("final")
  <2>1. /\ \E view, items : FinalAnswer(messages, view, items)
        /\ stage' = "after" /\ asked' = FALSE
        /\ UNCHANGED <<listing, id, messages, usage>>
    BY <1>7 DEF ReadCompleted, MatchesTurn, Proceed
  <2>2. IsOwn(channel[1], "completed") /\ id.turn = "own" /\ turn.state # "none"
    BY <1>1, <1>7, MatchIsOwn DEF ScopedKinds
  <2>3. /\ turn.state = "ended"
        /\ \A j \in Places : ~IsOwn(channel[j], "message") /\ ~IsOwn(channel[j], "usage")
    <3>1. turn.state = "ended" /\ \A j \in Places :
            IsOwn(channel[j], "message") \/ IsOwn(channel[j], "usage") => j < 1
      BY <1>0, <1>3, <2>2 DEF EndInv
    <3>2. \A j \in Places : ~(j < 1)
      BY <1>0
    <3>3. QED
      BY <3>1, <3>2
  <2>4. ~IsOwn(channel[1], "message") /\ ~IsOwn(channel[1], "usage")
    BY <1>0, <2>3
  <2>5. TypeOK'
    BY <1>1, <1>2, <2>1 DEF TypeOK, Stages, Turning
  <2>6. request = "none" /\ \A i \in Places : channel[i].kind \notin Responses
    <3>1. "wait" \notin Requests
      BY DEF Requests
    <3>2. request = "none"
      BY <1>1, <1>3, <1>7, <3>1 DEF RequestInv, TypeOK
    <3>3. \A i \in Places : channel[i].kind \notin Responses
      BY <1>3, <1>7, <3>1, StagesAre DEF RequestInv
    <3>4. QED
      BY <3>2, <3>3
  <2>7. RequestInv'
    BY <1>0, <1>2, <2>6 DEF RequestInv
  <2>8. AwaitedInv'
    BY <2>1 DEF AwaitedInv
  <2>9. EndInv'
    BY <1>0, <1>2, <1>3, <2>3 DEF EndInv
  <2>10. HeardInv' /\ UsageInv'
    BY <1>2, <1>3, <2>1, <2>4, TailHeard, TailUsage
  <2>11. TurnInv'
    <3>1. ~Unborn'
      BY <1>2, <2>1, <2>6 DEF Unborn, Early
    <3>2. id.thread = "own" /\ stage' \in Turning /\ turn'.state = "ended"
      BY <1>2, <1>3, <1>7, <2>1, <2>3 DEF TurnInv, Turning
    <3>3. QED
      BY <2>1, <2>2, <3>1, <3>2 DEF TurnInv
  <2>12. FinalInv'
    <3>1. ~tainted
      BY <1>0, <1>2, <1>3, <1>7, <2>2 DEF SkillsInv
    <3>2. ~Twice
      BY <2>1 DEF FinalAnswer, Twice
    <3>3. ~Twice'
      BY <2>1, <3>2 DEF Twice
    <3>4. QED
      BY <1>2, <2>1, <3>1, <3>3 DEF FinalAnswer, FinalInv
  <2>13. SkillsInv'
    <3>1. Listed' => Listed
      BY <1>7 DEF Listed, Turning
    <3>2. QED
      BY <1>2, <1>3, <1>7, <2>1, <3>1, TailSkills
  <2>14. ASSUME deviations = 0 PROVE AnnouncedInv' /\ OrderInv' /\ PagesInv'
    <3>1. id'.announced_thread \in {"none", "own"} /\ id'.announced_turn \in {"none", "own"}
      BY <1>1, <1>3, <2>1, <2>14 DEF AnnouncedInv, TypeOK, Names
    <3>2. ThreadUnborn' => ThreadUnborn
      BY <2>1 DEF ThreadUnborn, Early
    <3>3. AnnouncedInv'
      BY <1>2, <1>3, <2>1, <2>14, <3>1, <3>2, TailAnnounced
    <3>4. OrderInv'
      BY <1>2, <1>3, <2>1, <2>2, <2>14, TailOrder
    <3>5. PagesInv'
      BY <1>2, <1>3, <2>1, <2>14, TailPages
    <3>6. QED
      BY <3>3, <3>4, <3>5
  <2>15. stage' \notin Ended
    BY <2>1 DEF Ended
  <2>16. QED
    BY <1>1, <2>5, <2>7, <2>8, <2>9, <2>10, <2>11, <2>12, <2>13, <2>14, <2>15, ReadRest
<1>8. QED
  BY <1>4, <1>5, <1>6, <1>7

\* The outcome is made of all that was said and told.
LEMMA ReadOutcomeKeeps == ASSUME IInv, ReadLimits, stage = "after" PROVE IInv'
<1>1. TypeOK /\ Reads("limits")
  BY DEF IInv, ReadLimits
<1>2. /\ channel' \in Seq(Range(channel')) /\ stage \notin Ended /\ request' = request
      /\ deviations' = deviations /\ enabled' = enabled /\ turn' = turn /\ tainted' = tainted
  BY <1>1, ReadShifts
<1>3. TurnInv /\ EndInv /\ SpokenInv /\ HeardInv /\ UsageInv /\ FinalInv
  BY <1>2, OpenParts
<1>4. CASE Fail("limits") \/ Fail("final")
  BY <1>1, <1>4, ReadFails DEF Excused
<1>5. CASE ~Fail("limits") /\ ~Fail("final")
  <2>1. /\ stage' = "done" /\ asked' = FALSE /\ UNCHANGED <<listing, id, messages, usage>>
        /\ outcome'.text = Last(messages).key /\ outcome'.tokens = usage
    BY <1>5 DEF ReadLimits, Proceed
  <2>2. TypeOK'
    BY <1>1, <1>2, <2>1 DEF TypeOK, Stages, Ended
  <2>3. PipeInv'
    BY <2>1 DEF PipeInv, Ended
  <2>4. HonestIsHeard'
    BY <2>1 DEF HonestIsHeard
  <2>5. SkillsStayDisabled'
    BY <1>2, <1>3 DEF FinalInv, SkillsStayDisabled
  <2>6. \A i \in Places : ~IsOwn(channel[i], "message") /\ ~IsOwn(channel[i], "usage")
    BY <1>3 DEF EndInv
  <2>7. usage = turn.tokens /\ turn.state = "ended"
    BY <1>3, <2>6 DEF UsageInv, TurnInv
  <2>8. messages \in Seq(Message) /\ turn.said \in Seq(Message)
    BY <1>1 DEF TypeOK
  <2>9. Len(messages) = Len(turn.said) /\ \A k \in DOMAIN messages : messages[k] = turn.said[k]
    <3>1. /\ Len(messages) <= Len(turn.said) /\ \A k \in DOMAIN messages : messages[k] = turn.said[k]
          /\ \A k \in DOMAIN turn.said : ~(Len(messages) < k)
      BY <1>3, <2>6 DEF FinalInv, HeardInv
    <3>2. Len(messages) \in Nat /\ Len(turn.said) \in Nat /\ DOMAIN turn.said = 1..Len(turn.said)
      BY <2>8
    <3>3. QED
      BY <3>1, <3>2
  <2>10. /\ messages # <<>> /\ Last(messages).phase # "commentary"
         /\ \A i \in DOMAIN messages : messages[i].phase = "final_answer" => i = Len(messages)
    BY <1>3 DEF FinalInv
  <2>11. /\ Len(messages) \in Nat \ {0} /\ DOMAIN messages = 1..Len(messages)
         /\ DOMAIN turn.said = 1..Len(messages)
    BY <2>8, <2>9, <2>10
  <2>12. Last(messages) = turn.said[Len(messages)] /\ Last(turn.said) = turn.said[Len(messages)]
    BY <2>9, <2>11 DEF Last
  <2>13. Last(messages).key = Len(turn.said)
    BY <1>3, <2>9, <2>11, <2>12 DEF SpokenInv
  <2>14. \A i \in 1..(Len(turn.said) - 1) : turn.said[i].phase # "final_answer"
    BY <2>9, <2>10, <2>11
  <2>15. turn.said # <<>>
    BY <2>9, <2>11
  <2>16. OutcomeIsOwnTurn'
    BY <1>2, <2>1, <2>7, <2>10, <2>12, <2>13, <2>14, <2>15 DEF OutcomeIsOwnTurn
  <2>17. QED
    BY <2>2, <2>3, <2>4, <2>5, <2>16 DEF IInv
<1>6. QED
  BY <1>4, <1>5

\* Limits are read before the skills are listed, and when the turn has ended.
LEMMA ReadLimitsKeeps == ASSUME IInv, ReadLimits PROVE IInv'
<1>1. TypeOK /\ Reads("limits")
  BY DEF IInv, ReadLimits
<1>2. Shifts /\ channel[1].kind = "limits" /\ stage \notin Ended /\ request' = request
  BY <1>1, ReadShifts
<1>3. stage \in {"before", "after"}
  BY <1>2, OpenParts, TailResponse, StagesAre DEF Responses
<1>4. QED
  BY <1>3, ReadSimpleKeeps, ReadOutcomeKeeps


\* While skills are written, a notice of one that comes before the second listing is void.
LEMMA ReadSkillsChangedKeeps == ASSUME IInv, ReadSkillsChanged PROVE IInv'
<1>1. TypeOK /\ Reads("skills_changed")
  BY DEF IInv, ReadSkillsChanged
<1>2. /\ Shifts /\ channel' \in Seq(Range(channel')) /\ channel[1].kind = "skills_changed"
      /\ stage \notin Ended /\ request' = request /\ deviations' = deviations
      /\ enabled' = enabled /\ turn' = turn /\ tainted' = tainted
  BY <1>1, ReadShifts
<1>3. /\ FramesInv /\ RequestInv /\ TurnInv /\ EndInv /\ SpokenInv /\ HeardInv
      /\ UsageInv /\ FinalInv /\ SkillsInv /\ AwaitedInv
      /\ deviations = 0 =>
           (\A i \in Places : OnlyOwn(channel[i])) /\ AnnouncedInv /\ OrderInv /\ PagesInv
  BY <1>2, OpenParts
<1>0. /\ 1 \in Places /\ Places \subseteq Nat \ {0} /\ Places' \subseteq Nat \ {0}
      /\ (\A i \in Places' : i + 1 \in Places /\ channel'[i] = channel[i + 1])
      /\ \A i \in Places : i # 1 => i - 1 \in Places' /\ channel'[i - 1] = channel[i]
  BY <1>2, ShiftPlaces DEF Places
<1>4. CASE ~Disabling
  <2>1. Fail("skills")
    BY <1>4 DEF ReadSkillsChanged
  <2>2. QED
    BY <1>1, <2>1, ReadFails DEF Excused
<1>5. CASE Disabling
  <2>1. UNCHANGED <<stage, asked, listing, id, messages, usage>>
    BY <1>5 DEF ReadSkillsChanged, client
  <2>2. ~IsOwn(channel[1], "message") /\ ~IsOwn(channel[1], "usage")
    BY <1>2 DEF IsOwn
  <2>3. TypeOK'
    BY <1>1, <1>2, <2>1 DEF TypeOK
  <2>4. RequestInv' /\ AwaitedInv' /\ EndInv'
    BY <1>2, <1>3, <2>1, TailRequest, TailAwaited, TailEnd DEF Responses
  <2>5. HeardInv' /\ UsageInv'
    BY <1>2, <1>3, <2>1, <2>2, TailHeard, TailUsage
  <2>6. TurnInv'
    <3>1. turn.state = "none" => messages' = <<>> /\ usage' = 0
      BY <1>3, <2>1 DEF TurnInv
    <3>2. QED
      BY <1>2, <1>3, <2>1, <3>1, TailTurn
  <2>7. FinalInv'
    BY <1>2, <1>3, <2>1 DEF FinalInv, Twice
  <2>8. SkillsInv'
    <3>1. ASSUME Listed', enabled' # {}
          PROVE  \E i \in Places' : /\ channel'[i].kind = "skills_changed"
                                    /\ \A j \in Places' : i < j => channel'[j].kind # "skills"
      <4>1. Listed
        BY <1>2, <2>1, <3>1, TailListed
      <4>2. PICK i \in Places : /\ channel[i].kind = "skills_changed"
                                /\ \A j \in Places : i < j => channel[j].kind # "skills"
        BY <1>2, <1>3, <3>1, <4>1 DEF SkillsInv
      <4>3. stage' \notin {"thread", "turn"} \cup Turning
        BY <1>5, <2>1 DEF Disabling, Turning
      <4>4. PICK k \in Places' : channel'[k].kind = "skills"
        BY <3>1, <4>3 DEF Listed
      <4>5. k + 1 \in Places /\ channel[k + 1].kind = "skills" /\ 1 < k + 1
        BY <1>0, <4>4
      <4>6. i # 1
        BY <4>2, <4>5
      <4>7. i - 1 \in Places' /\ channel'[i - 1] = channel[i]
        BY <1>0, <4>2, <4>6
      <4>8. ASSUME NEW j \in Places', i - 1 < j PROVE channel'[j].kind # "skills"
        <5>1. j + 1 \in Places /\ channel'[j] = channel[j + 1] /\ i < j + 1
          BY <1>0, <4>8
        <5>2. QED
          BY <4>2, <5>1
      <4>9. QED
        BY <4>2, <4>7, <4>8
    <3>2. stage' \notin {"turn", "wait"}
      BY <1>5, <2>1 DEF Disabling
    <3>3. QED
      BY <3>1, <3>2 DEF SkillsInv
  <2>9. ASSUME deviations = 0 PROVE AnnouncedInv' /\ OrderInv' /\ PagesInv'
    <3>1. id'.announced_thread \in {"none", "own"} /\ id'.announced_turn \in {"none", "own"}
      BY <1>1, <1>3, <2>1, <2>9 DEF AnnouncedInv, TypeOK, Names
    <3>2. ThreadUnborn' => ThreadUnborn
      BY <1>2, <2>1 DEF ThreadUnborn
    <3>3. AnnouncedInv'
      BY <1>2, <1>3, <2>1, <2>9, <3>1, <3>2, TailAnnounced
    <3>4. OrderInv'
      BY <1>2, <1>3, <2>1, <2>9, TailOrder
    <3>5. PagesInv'
      BY <1>2, <1>3, <2>1, <2>9, TailPages
    <3>6. QED
      BY <3>3, <3>4, <3>5
  <2>10. stage' \notin Ended
    BY <1>2, <2>1
  <2>11. QED
    BY <1>1, <2>3, <2>4, <2>5, <2>6, <2>7, <2>8, <2>9, <2>10, ReadRest
<1>6. QED
  BY <1>4, <1>5

\* The thread and the turn the client has asked for.
LEMMA ReadIdKeeps == ASSUME IInv, ReadThread \/ ReadTurn PROVE IInv'
<1>0. PICK kind \in {"thread", "turn"} : (kind = "thread" /\ ReadThread) \/ (kind = "turn" /\ ReadTurn)
  OBVIOUS
<1>1. TypeOK /\ Reads(kind)
  BY <1>0 DEF IInv, ReadThread, ReadTurn
<1>2. /\ Shifts /\ channel' \in Seq(Range(channel')) /\ channel[1] = Frame /\ channel[1].kind = kind
      /\ stage \notin Ended /\ request' = request /\ deviations' = deviations
      /\ enabled' = enabled /\ turn' = turn /\ tainted' = tainted
  BY <1>1, ReadShifts
<1>3. /\ FramesInv /\ RequestInv /\ TurnInv /\ EndInv /\ SpokenInv /\ HeardInv
      /\ UsageInv /\ FinalInv /\ SkillsInv /\ AwaitedInv
      /\ deviations = 0 =>
           (\A i \in Places : OnlyOwn(channel[i])) /\ AnnouncedInv /\ OrderInv /\ PagesInv
  BY <1>2, OpenParts
<1>4. Frame.body = "own"
  BY <1>2, <1>3, ShiftPlaces DEF FramesInv, Fine
<1>5. /\ request = "none" /\ asked /\ stage = kind
      /\ \A i \in Places' : channel'[i].kind \notin Responses
  BY <1>2, <1>3, TailResponse, StagesAre DEF Responses
<1>6. id \in [announced_thread : Names, thread : {"none", "own"},
              announced_turn : Names, turn : {"none", "own"}]
  BY <1>1 DEF TypeOK
<1>7. CASE Fail("scope")
  <2>1. ASSUME deviations = 0 PROVE FALSE
    <3>1. id.announced_thread \in {"none", "own"} /\ id.announced_turn \in {"none", "own"}
      BY <1>3, <1>6, <2>1 DEF AnnouncedInv, Names
    <3>2. Agrees("announced_thread") /\ Agrees("announced_turn")
      BY <1>4, <3>1 DEF Agrees
    <3>3. stage' # "failed"
      BY <1>0, <3>2 DEF ReadThread, ReadTurn, Proceed
    <3>4. QED
      BY <1>7, <3>3 DEF Fail
  <2>2. QED
    BY <1>1, <1>7, <2>1, ReadFails
<1>8. CASE ~Fail("scope")
  <2>1. /\ kind = "thread" => stage' = "turn" /\ id' = [id EXCEPT !.thread = "own"]
        /\ kind = "turn" => stage' = "wait" /\ id' = [id EXCEPT !.turn = "own"]
        /\ asked' = FALSE /\ UNCHANGED <<listing, messages, usage>>
    BY <1>0, <1>4, <1>8 DEF ReadThread, ReadTurn, Proceed
  <2>2. id' \in [announced_thread : Names, thread : {"none", "own"},
                 announced_turn : Names, turn : {"none", "own"}]
        /\ id'.announced_thread = id.announced_thread /\ id'.announced_turn = id.announced_turn
        /\ (kind = "thread" => id'.thread = "own" /\ id'.turn = id.turn)
        /\ (kind = "turn" => id'.thread = id.thread /\ id'.turn = "own")
    BY <1>6, <2>1
  <2>3. stage' \in {"turn", "wait"} /\ stage' \in Stages /\ stage' \notin Ended /\ stage' # "after"
    BY <2>1 DEF Stages, Turning, Ended
  <2>4. ~IsOwn(channel[1], "message") /\ ~IsOwn(channel[1], "usage")
        /\ kind \notin {"skills_changed", "thread_started", "turn_started", "completed"}
    BY <1>2 DEF IsOwn
  <2>5. TypeOK'
    BY <1>1, <1>2, <2>1, <2>2, <2>3 DEF TypeOK
  <2>6. RequestInv'
    BY <1>2, <1>3, TailResponse DEF Responses
  <2>7. HeardInv' /\ UsageInv' /\ EndInv'
    BY <1>2, <1>3, <2>1, <2>3, <2>4, TailHeard, TailUsage, TailEnd
  <2>8. FinalInv' /\ AwaitedInv'
    BY <2>1, <2>3 DEF FinalInv, AwaitedInv
  <2>9. TurnInv'
    <3>1. turn'.state = "none" => \A i \in Places' : ~IsOwn(channel'[i], "completed")
      BY <1>2, <1>3, ShiftPlaces DEF TurnInv
    <3>2. CASE kind = "thread"
      <4>1. turn.state = "none" /\ id.turn # "own"
        BY <1>3, <1>5, <3>2 DEF TurnInv, Unborn, Turning
      <4>2. Unborn' /\ stage' \notin Turning
        BY <2>1, <3>2 DEF Unborn, Turning
      <4>3. QED
        BY <1>2, <1>3, <2>1, <2>2, <2>3, <3>1, <3>2, <4>1, <4>2 DEF TurnInv
    <3>3. CASE kind = "turn"
      <4>1. turn.state # "none" /\ id.thread = "own"
        BY <1>3, <1>5, <3>3 DEF TurnInv, Unborn, Early
      <4>2. ~Unborn' /\ stage' \in Turning
        BY <1>2, <1>5, <2>1, <3>3 DEF Unborn, Early, Turning
      <4>3. QED
        BY <1>2, <2>1, <2>2, <2>3, <3>3, <4>1, <4>2 DEF TurnInv
    <3>4. QED
      BY <3>2, <3>3
  <2>10. SkillsInv'
    <3>1. Listed' => Listed
      BY <1>5 DEF Listed
    <3>2. tainted => stage \in {"turn", "wait"}
      BY <1>3, <1>5 DEF TurnInv, Unborn
    <3>3. QED
      BY <1>2, <1>3, <2>4, <3>1, <3>2, TailSkills
  <2>11. ASSUME deviations = 0 PROVE AnnouncedInv' /\ OrderInv' /\ PagesInv'
    <3>1. id'.announced_thread \in {"none", "own"} /\ id'.announced_turn \in {"none", "own"}
      BY <1>3, <1>6, <2>2, <2>11 DEF AnnouncedInv, Names
    <3>2. ThreadUnborn' => ThreadUnborn
      BY <2>3 DEF ThreadUnborn, Early
    <3>3. AnnouncedInv'
      BY <1>2, <1>3, <2>2, <2>11, <3>1, <3>2, TailAnnounced
    <3>4. channel[1].kind = "turn" \/ id.turn = "own" => id'.turn = "own"
      BY <1>2, <2>2
    <3>5. OrderInv'
      BY <1>2, <1>3, <2>1, <2>3, <2>11, <3>4, TailOrder
    <3>6. PagesInv'
      BY <1>2, <1>3, <2>1, <2>11, TailPages
    <3>7. QED
      BY <3>3, <3>5, <3>6
  <2>12. QED
    BY <1>1, <2>3, <2>5, <2>6, <2>7, <2>8, <2>9, <2>10, <2>11, ReadRest
<1>9. QED
  BY <1>7, <1>8


\* A request leaves everything but itself.
LEMMA AskKeeps == ASSUME IInv, Ask PROVE IInv'
<1>1. TypeOK /\ stage \in Requests /\ ~asked /\ request' = stage
      /\ UNCHANGED <<channel, enabled, limits, turn, tainted, deviations>>
  BY DEF IInv, Ask, server, counts
<1>2. stage \notin Ended
  BY <1>1 DEF Requests, Ended
<1>3. /\ FramesInv /\ RequestInv /\ TurnInv /\ EndInv /\ SpokenInv /\ HeardInv
      /\ UsageInv /\ FinalInv /\ SkillsInv /\ AwaitedInv
      /\ deviations = 0 =>
           (\A i \in Places : OnlyOwn(channel[i])) /\ AnnouncedInv /\ OrderInv /\ PagesInv
  BY <1>1, <1>2, OpenParts DEF IInv
<1>4. CASE Fail("dispatch")
  <2>1. channel' \in Seq(Range(channel'))
    BY <1>1 DEF TypeOK
  <2>2. request' \in Requests \cup {"none"} /\ UNCHANGED server
    BY <1>1 DEF server
  <2>3. QED
    BY <1>1, <1>4, <2>1, <2>2, FailKeeps DEF Excused
<1>5. CASE ~Fail("dispatch")
  <2>1. asked' = TRUE /\ UNCHANGED <<stage, listing, id, messages, usage>>
    BY <1>5 DEF Ask
  <2>2. Places' = Places
    BY <1>1 DEF Places
  <2>3. TypeOK'
    BY <1>1, <2>1 DEF TypeOK
  <2>4. \A i \in Places : channel[i].kind \notin Responses
    BY <1>1, <1>3 DEF RequestInv
  <2>5. RequestInv'
    BY <1>1, <2>1, <2>2, <2>4 DEF RequestInv
  <2>6. Unborn' <=> Unborn
    <3>1. request # "turn"
      BY <1>1, <1>3 DEF RequestInv
    <3>2. QED
      BY <1>1, <2>1, <3>1 DEF Unborn
  <2>7. TurnInv'
    BY <1>1, <1>3, <2>1, <2>2, <2>6 DEF TurnInv
  <2>8. FramesInv' /\ EndInv' /\ SpokenInv'
    BY <1>1, <1>3, <2>1, <2>2 DEF FramesInv, EndInv, SpokenInv
  <2>9. Twice' <=> Twice
    BY <2>1 DEF Twice
  <2>10. HeardInv'
    BY <1>1, <1>3, <2>1, <2>2, <2>9 DEF HeardInv
  <2>11. UsageInv' /\ FinalInv'
    BY <1>1, <1>3, <2>1, <2>2, <2>9 DEF UsageInv, FinalInv
  <2>12. SkillsInv'
    <3>1. Listed' <=> Listed
      BY <1>1, <2>1, <2>2 DEF Listed
    <3>2. QED
      BY <1>1, <1>3, <2>1, <2>2, <3>1 DEF SkillsInv
  <2>13. AwaitedInv'
    BY <1>1, <2>1 DEF AwaitedInv
  <2>14. ASSUME deviations = 0
         PROVE  (\A i \in Places : OnlyOwn(channel[i]))' /\ AnnouncedInv' /\ OrderInv' /\ PagesInv'
    <3>1. (\A i \in Places : OnlyOwn(channel[i]))'
      BY <1>1, <1>3, <2>2, <2>14
    <3>2. ThreadUnborn' => ThreadUnborn
      BY <1>1, <2>1 DEF ThreadUnborn
    <3>3. AnnouncedInv'
      BY <1>1, <1>3, <2>1, <2>2, <2>14, <3>2 DEF AnnouncedInv, ThreadUnborn
    <3>4. OrderInv'
      BY <1>1, <1>3, <2>1, <2>2, <2>9, <2>14 DEF OrderInv
    <3>5. PagesInv'
      BY <1>1, <1>3, <2>1, <2>2, <2>14 DEF PagesInv
    <3>6. QED
      BY <3>1, <3>3, <3>4, <3>5
  <2>15. HonestInv'
    BY <1>1, <2>14 DEF HonestInv
  <2>16. PipeInv'
    BY <2>5, <2>7, <2>8, <2>10, <2>11, <2>12, <2>13, <2>15 DEF PipeInv
  <2>17. QED
    BY <1>2, <2>1, <2>3, <2>16, OpenKeeps
<1>6. QED
  BY <1>4, <1>5

\* The client gives up at any time.
LEMMA GiveUpKeeps == ASSUME IInv, GiveUp PROVE IInv'
<1>1. TypeOK
  BY DEF IInv
<1>2. Fail("deadline") /\ UNCHANGED <<request, channel, server, deviations>>
  BY DEF GiveUp, counts
<1>3. channel' \in Seq(Range(channel')) /\ request' \in Requests \cup {"none"}
  BY <1>1, <1>2 DEF TypeOK
<1>4. QED
  BY <1>1, <1>2, <1>3, FailKeeps DEF Excused

\* What the client does keeps the invariant.
LEMMA ClientKeeps == ASSUME IInv, Client PROVE IInv'
<1>1. CASE Ask \/ GiveUp
  BY <1>1, AskKeeps, GiveUpKeeps
<1>2. CASE ReadRefusal \/ ReadForbidden
  BY <1>2, ReadRefusedKeeps
<1>3. CASE ReadInitialized \/ ReadAccount \/ ReadWritten
  BY <1>3, ReadSimpleKeeps
<1>4. CASE ReadPage
  BY <1>4, ReadPageKeeps
<1>5. CASE ReadLimits
  BY <1>5, ReadLimitsKeeps
<1>6. CASE ReadSkills \/ ReadSkillsChanged
  BY <1>6, ReadSkillsKeeps, ReadSkillsChangedKeeps
<1>7. CASE ReadThread \/ ReadTurn
  BY <1>7, ReadIdKeeps
<1>8. CASE ReadItem \/ ReadStatus \/ ReadLimitsUpdated
  BY <1>8, ReadItemKeeps
<1>9. CASE ReadThreadStarted \/ ReadTurnStarted
  BY <1>9, ReadStartedKeeps
<1>10. CASE ReadUsage
  BY <1>10, ReadUsageKeeps
<1>11. CASE ReadMessage
  BY <1>11, ReadMessageKeeps
<1>12. CASE ReadCompleted
  BY <1>12, ReadCompletedKeeps
<1>13. QED
  BY <1>1, <1>2, <1>3, <1>4, <1>5, <1>6, <1>7, <1>8, <1>9, <1>10, <1>11, <1>12 DEF Client


-----------------------------------------------------------------------------
(* What frames that are sent leave *)

\* Fine frames join fine ones.
LEMMA JoinFrames ==
  ASSUME NEW frames, Joins(frames), FramesInv, \A k \in 1..Len(frames) : Fine(frames[k])
  PROVE  FramesInv'
<1>1. \A i \in Places : i \in Places' /\ channel'[i] = channel[i]
  BY JoinPlaces
<1>2. \A i \in Places' : i \in Places \/ \E k \in 1..Len(frames) : channel'[i] = frames[k]
  BY JoinPlaces
<1>3. QED
  BY <1>1, <1>2 DEF FramesInv

\* The end of the turn is behind its messages and tokens.
LEMMA JoinEnd ==
  ASSUME NEW frames, Joins(frames), EndInv, stage' = stage,
         turn.state = "ended" => turn'.state = "ended",
         \A k \in 1..Len(frames) : IsOwn(frames[k], "completed") =>
           /\ turn'.state = "ended"
           /\ \A l \in 1..Len(frames) : ~IsOwn(frames[l], "message") /\ ~IsOwn(frames[l], "usage"),
         \A k \in 1..Len(frames) : IsOwn(frames[k], "message") \/ IsOwn(frames[k], "usage") =>
           stage # "after" /\ \A i \in Places : ~IsOwn(channel[i], "completed")
  PROVE  EndInv'
<1>0. /\ Places \subseteq Nat /\ Places' \subseteq Nat /\ Len(channel) \in Nat
      /\ \A i \in Places : i \in Places' /\ channel'[i] = channel[i] /\ i <= Len(channel)
      /\ \A i \in Places' : i \in Places \/
           (i > Len(channel) /\ \E k \in 1..Len(frames) : i = Len(channel) + k /\ channel'[i] = frames[k])
  BY JoinPlaces DEF Joins
<1>1. ASSUME NEW i \in Places', IsOwn(channel'[i], "completed")
      PROVE  /\ turn'.state = "ended"
             /\ \A j \in Places' : IsOwn(channel'[j], "message") \/ IsOwn(channel'[j], "usage") => j < i
  <2>1. CASE i \in Places
    <3>1. turn.state = "ended" /\ IsOwn(channel[i], "completed")
      BY <1>0, <1>1, <2>1 DEF EndInv
    <3>2. ASSUME NEW j \in Places', IsOwn(channel'[j], "message") \/ IsOwn(channel'[j], "usage")
          PROVE  j < i
      <4>1. j \in Places
        BY <1>0, <2>1, <3>1, <3>2
      <4>2. channel'[j] = channel[j]
        BY <1>0, <4>1
      <4>3. QED
        BY <2>1, <3>1, <3>2, <4>1, <4>2 DEF EndInv
    <3>3. QED
      BY <3>1, <3>2
  <2>2. CASE i \notin Places
    <3>1. PICK k \in 1..Len(frames) : i = Len(channel) + k /\ channel'[i] = frames[k] /\ i > Len(channel)
      BY <1>0, <2>2
    <3>2. turn'.state = "ended"
          /\ \A l \in 1..Len(frames) : ~IsOwn(frames[l], "message") /\ ~IsOwn(frames[l], "usage")
      BY <1>1, <3>1
    <3>3. ASSUME NEW j \in Places', IsOwn(channel'[j], "message") \/ IsOwn(channel'[j], "usage")
          PROVE  j < i
      <4>1. j \in Places
        BY <1>0, <3>2, <3>3
      <4>2. j <= Len(channel)
        BY <1>0, <4>1
      <4>3. QED
        BY <1>0, <3>1, <4>1, <4>2
    <3>4. QED
      BY <3>2, <3>3
  <2>3. QED
    BY <2>1, <2>2
<1>2. ASSUME stage' = "after", NEW i \in Places'
      PROVE  ~IsOwn(channel'[i], "message") /\ ~IsOwn(channel'[i], "usage")
  BY <1>0, <1>2 DEF EndInv
<1>3. QED
  BY <1>1, <1>2 DEF EndInv

\* What is said is what the messages say.
LEMMA JoinSpoken ==
  ASSUME NEW frames, Joins(frames), SpokenInv,
         \A k \in DOMAIN turn.said : k \in DOMAIN turn'.said /\ turn'.said[k] = turn.said[k],
         \A k \in DOMAIN turn'.said : turn'.said[k].key = k,
         \A k \in 1..Len(frames) : IsOwn(frames[k], "message") =>
           LET m == frames[k].body IN m.key \in DOMAIN turn'.said /\ m = turn'.said[m.key]
  PROVE  SpokenInv'
<1>0. /\ \A i \in Places : channel'[i] = channel[i]
      /\ \A i \in Places' : i \in Places \/ \E k \in 1..Len(frames) : channel'[i] = frames[k]
  BY JoinPlaces
<1>1. ASSUME NEW i \in Places', IsOwn(channel'[i], "message")
      PROVE  channel'[i].body.key \in DOMAIN turn'.said
             /\ channel'[i].body = turn'.said[channel'[i].body.key]
  <2>1. CASE i \in Places
    <3>1. channel'[i] = channel[i]
      BY <1>0, <2>1
    <3>2. channel[i].body.key \in DOMAIN turn.said /\ channel[i].body = turn.said[channel[i].body.key]
      BY <1>1, <2>1, <3>1 DEF SpokenInv
    <3>3. QED
      BY <3>1, <3>2
  <2>2. CASE i \notin Places
    BY <1>0, <1>1, <2>2
  <2>3. QED
    BY <2>1, <2>2
<1>2. QED
  BY <1>1 DEF SpokenInv

\* The frames hold no message, or repeat the last frame in the pipe.
Repeats(frames, kind) ==
  \A k \in 1..Len(frames) : IsOwn(frames[k], kind) =>
    Len(frames) = 1 /\ Len(channel) \in Places /\ frames[k] = channel[Len(channel)]

\* The messages stay in order.
LEMMA JoinHeard ==
  ASSUME TypeOK, SpokenInv, NEW frames, Joins(frames), HeardInv, Repeats(frames, "message"),
         turn'.said = turn.said, messages' = messages
  PROVE  HeardInv'
<1>0. /\ Places \subseteq Nat /\ Places' \subseteq Nat /\ Len(channel) \in Nat
      /\ \A i \in Places : i \in Places' /\ channel'[i] = channel[i] /\ i <= Len(channel)
      /\ \A i \in Places' : i \in Places \/
           (i > Len(channel) /\ \E k \in 1..Len(frames) : i = Len(channel) + k /\ channel'[i] = frames[k])
  BY JoinPlaces DEF Joins
<1> DEFINE last == Len(channel)
<1>t. turn.said \in Seq(Message) /\ messages \in Seq(Message)
  BY DEF TypeOK
<1>k. \A i \in Places : IsOwn(channel[i], "message") => channel[i].body.key \in Nat
  BY <1>t DEF SpokenInv
<1>1. CASE Twice
  BY <1>1 DEF HeardInv, Twice
<1>2. CASE ~Twice
  <2>1. Len(messages') <= Len(turn'.said) /\ \A k \in DOMAIN messages' : messages'[k] = turn'.said[k]
    BY <1>2 DEF HeardInv
  <2>2. ASSUME NEW i \in Places', IsOwn(channel'[i], "message"), i \notin Places
        PROVE  i = last + 1 /\ last \in Places /\ channel'[i] = channel[last]
    <3>1. PICK k \in 1..Len(frames) : i = last + k /\ channel'[i] = frames[k]
      BY <1>0, <2>2
    <3>2. Len(frames) = 1 /\ last \in Places /\ frames[k] = channel[last]
      BY <2>2, <3>1 DEF Repeats
    <3>3. k = 1
      BY <3>2
    <3>4. QED
      BY <3>1, <3>2, <3>3
  <2>3. ASSUME NEW i \in Places', IsOwn(channel'[i], "message")
        PROVE  \E h \in Places : /\ h <= i /\ channel'[i] = channel[h]
                                 /\ i \notin Places => i = last + 1 /\ h = last
                                 /\ i \in Places => h = i
    <3>1. CASE i \in Places
      BY <1>0, <3>1
    <3>2. CASE i \notin Places
      BY <1>0, <2>2, <2>3, <3>2
    <3>3. QED
      BY <3>1, <3>2
  <2>4. ASSUME NEW i \in Places', IsOwn(channel'[i], "message")
        PROVE  /\ channel'[i].body.key >= Len(messages')
               /\ \A k \in DOMAIN turn'.said : Len(messages') < k /\ k < channel'[i].body.key =>
                    \E j \in Places' : /\ j < i /\ IsOwn(channel'[j], "message")
                                       /\ channel'[j].body.key = k
               /\ \A j \in Places' : IsOwn(channel'[j], "message") /\ i < j =>
                    channel'[i].body.key <= channel'[j].body.key
    <3>1. PICK h \in Places : /\ h <= i /\ channel'[i] = channel[h]
                              /\ i \notin Places => i = last + 1 /\ h = last
                              /\ i \in Places => h = i
      BY <2>3, <2>4
    <3>2. channel'[i].body.key >= Len(messages')
      BY <1>2, <2>4, <3>1 DEF HeardInv
    <3>3. ASSUME NEW k \in DOMAIN turn.said, Len(messages) < k, k < channel[h].body.key
          PROVE  \E j \in Places' : /\ j < i /\ IsOwn(channel'[j], "message")
                                    /\ channel'[j].body.key = k
      <4>1. PICK j \in Places : j < h /\ IsOwn(channel[j], "message") /\ channel[j].body.key = k
        BY <1>2, <2>4, <3>1, <3>3 DEF HeardInv
      <4>2. j \in Places' /\ channel'[j] = channel[j] /\ j < i
        BY <1>0, <3>1, <4>1
      <4>3. QED
        BY <4>1, <4>2
    <3>4. ASSUME NEW j \in Places', IsOwn(channel'[j], "message"), i < j
          PROVE  channel'[i].body.key <= channel'[j].body.key
      <4>1. PICK g \in Places : /\ g <= j /\ channel'[j] = channel[g]
                                /\ j \notin Places => j = last + 1 /\ g = last
                                /\ j \in Places => g = j
        BY <2>3, <3>4
      <4>2. i \in Places
        BY <1>0, <3>1, <3>4, <4>1
      <4>3. h = i /\ (h = g \/ h < g)
        BY <1>0, <3>1, <3>4, <4>1, <4>2
      <4>4. CASE h = g
        BY <1>k, <2>4, <3>1, <4>1, <4>4
      <4>5. CASE h < g
        BY <1>2, <2>4, <3>1, <3>4, <4>1, <4>5 DEF HeardInv
      <4>6. QED
        BY <4>3, <4>4, <4>5
    <3>5. QED
      BY <3>1, <3>2, <3>3, <3>4
  <2>5. ASSUME NEW k \in DOMAIN turn'.said, Len(messages') < k
        PROVE  \E i \in Places' : IsOwn(channel'[i], "message") /\ channel'[i].body.key = k
    <3>1. PICK i \in Places : IsOwn(channel[i], "message") /\ channel[i].body.key = k
      BY <1>2, <2>5 DEF HeardInv
    <3>2. QED
      BY <1>0, <3>1
  <2>6. QED
    BY <2>1, <2>4, <2>5 DEF HeardInv
<1>3. QED
  BY <1>1, <1>2

\* So do the tokens.
LEMMA JoinUsage ==
  ASSUME TypeOK, FramesInv, NEW frames, Joins(frames), UsageInv, Repeats(frames, "usage"),
         turn'.tokens = turn.tokens, usage' = usage
  PROVE  UsageInv'
<1>0. /\ Places \subseteq Nat /\ Places' \subseteq Nat /\ Len(channel) \in Nat
      /\ \A i \in Places : i \in Places' /\ channel'[i] = channel[i] /\ i <= Len(channel)
      /\ \A i \in Places' : i \in Places \/
           (i > Len(channel) /\ \E k \in 1..Len(frames) : i = Len(channel) + k /\ channel'[i] = frames[k])
  BY JoinPlaces DEF Joins
<1> DEFINE last == Len(channel)
<1>k. \A i \in Places : IsOwn(channel[i], "usage") => channel[i].body \in Nat
  BY DEF FramesInv, Fine, IsOwn
<1>1. ASSUME NEW i \in Places', IsOwn(channel'[i], "usage"), i \notin Places
      PROVE  i = last + 1 /\ last \in Places /\ channel'[i] = channel[last]
  <2>1. PICK k \in 1..Len(frames) : i = last + k /\ channel'[i] = frames[k]
    BY <1>0, <1>1
  <2>2. Len(frames) = 1 /\ last \in Places /\ frames[k] = channel[last]
    BY <1>1, <2>1 DEF Repeats
  <2>3. k = 1
    BY <2>2
  <2>4. QED
    BY <2>1, <2>2, <2>3
<1>2. ASSUME NEW i \in Places', IsOwn(channel'[i], "usage")
      PROVE  \E h \in Places : /\ h <= i /\ channel'[i] = channel[h]
                               /\ i \notin Places => i = last + 1 /\ h = last
                               /\ i \in Places => h = i
  <2>1. CASE i \in Places
    BY <1>0, <2>1
  <2>2. CASE i \notin Places
    BY <1>0, <1>1, <1>2, <2>2
  <2>3. QED
    BY <2>1, <2>2
<1>3. ASSUME NEW i \in Places', IsOwn(channel'[i], "usage")
      PROVE  /\ usage' <= channel'[i].body /\ channel'[i].body <= turn'.tokens
             /\ \A j \in Places' : IsOwn(channel'[j], "usage") /\ i < j =>
                  channel'[i].body <= channel'[j].body
  <2>1. PICK h \in Places : /\ h <= i /\ channel'[i] = channel[h]
                            /\ i \notin Places => i = last + 1 /\ h = last
                            /\ i \in Places => h = i
    BY <1>2, <1>3
  <2>2. usage' <= channel'[i].body /\ channel'[i].body <= turn'.tokens
    BY <1>3, <2>1 DEF UsageInv
  <2>3. ASSUME NEW j \in Places', IsOwn(channel'[j], "usage"), i < j
        PROVE  channel'[i].body <= channel'[j].body
    <3>1. PICK g \in Places : /\ g <= j /\ channel'[j] = channel[g]
                              /\ j \notin Places => j = last + 1 /\ g = last
                              /\ j \in Places => g = j
      BY <1>2, <2>3
    <3>2. i \in Places
      <4>1. SUFFICES ASSUME i \notin Places PROVE FALSE
        OBVIOUS
      <4>2. i = last + 1 /\ i \in Nat /\ j \in Nat /\ last \in Nat
        BY <1>0, <2>1, <4>1
      <4>3. CASE j \in Places
        <5>1. j <= last
          BY <1>0, <4>3
        <5>2. QED
          BY <2>3, <4>2, <5>1
      <4>4. CASE j \notin Places
        <5>1. j = last + 1
          BY <3>1, <4>4
        <5>2. QED
          BY <2>3, <4>2, <5>1
      <4>5. QED
        BY <4>3, <4>4
    <3>3. h = i /\ (h = g \/ h < g)
      BY <1>0, <2>1, <2>3, <3>1, <3>2
    <3>4. CASE h = g
      BY <1>k, <1>3, <2>1, <3>1, <3>4
    <3>5. CASE h < g
      BY <1>3, <2>1, <2>3, <3>1, <3>5 DEF UsageInv
    <3>6. QED
      BY <3>3, <3>4, <3>5
  <2>4. QED
    BY <2>2, <2>3
<1>4. usage' = turn'.tokens
      \/ \E i \in Places' : IsOwn(channel'[i], "usage") /\ channel'[i].body = turn'.tokens
  <2>1. CASE usage = turn.tokens
    BY <2>1
  <2>2. CASE \E i \in Places : IsOwn(channel[i], "usage") /\ channel[i].body = turn.tokens
    <3>1. PICK i \in Places : IsOwn(channel[i], "usage") /\ channel[i].body = turn.tokens
      BY <2>2
    <3>2. i \in Places' /\ channel'[i] = channel[i]
      BY <1>0, <3>1
    <3>3. QED
      BY <3>1, <3>2
  <2>3. QED
    BY <2>1, <2>2 DEF UsageInv
<1>5. QED
  BY <1>3, <1>4 DEF UsageInv


\* A notification leaves the request that is outstanding.
LEMMA JoinRequest ==
  ASSUME NEW frames, Joins(frames), RequestInv, UNCHANGED <<stage, asked, request>>,
         \A k \in 1..Len(frames) : frames[k].kind \notin Responses
  PROVE  RequestInv'
<1>0. \A i \in Places' : channel'[i].kind \in Responses => i \in Places /\ channel'[i] = channel[i]
  BY JoinPlaces
<1>1. request' # "none" =>
        asked' /\ request' = stage' /\ \A i \in Places' : channel'[i].kind \notin Responses
  BY <1>0 DEF RequestInv
<1>2. ASSUME NEW i \in Places', channel'[i].kind \in Responses
      PROVE  /\ asked' /\ stage' \in StagesOf(channel'[i].kind)
             /\ \A j \in Places' : channel'[j].kind \in Responses => j = i
  BY <1>0, <1>2 DEF RequestInv
<1>3. QED
  BY <1>1, <1>2 DEF RequestInv

\* The answer is the one response that is on its way.
LEMMA JoinResponse ==
  ASSUME NEW frames, Joins(frames), RequestInv, UNCHANGED <<stage, asked>>,
         request # "none", request' = "none",
         NEW l \in 1..Len(frames), request \in StagesOf(frames[l].kind),
         \A k \in 1..Len(frames) : frames[k].kind \in Responses => k = l
  PROVE  RequestInv'
<1>0. /\ \A i \in Places' : i \in Places \/
           \E k \in 1..Len(frames) : i = Len(channel) + k /\ channel'[i] = frames[k]
      /\ \A i \in Places : channel'[i] = channel[i]
  BY JoinPlaces
<1>1. asked /\ request = stage /\ \A i \in Places : channel[i].kind \notin Responses
  BY DEF RequestInv
<1>2. ASSUME NEW i \in Places', channel'[i].kind \in Responses
      PROVE  i = Len(channel) + l /\ channel'[i] = frames[l]
  <2>1. i \notin Places
    BY <1>0, <1>1, <1>2
  <2>2. PICK k \in 1..Len(frames) : i = Len(channel) + k /\ channel'[i] = frames[k]
    BY <1>0, <2>1
  <2>3. k = l
    BY <1>2, <2>2
  <2>4. QED
    BY <2>2, <2>3
<1>3. QED
  BY <1>1, <1>2 DEF RequestInv

\* The response of the turn stays on its way.
LEMMA JoinAwaited ==
  ASSUME NEW frames, Joins(frames), AwaitedInv, UNCHANGED <<stage, asked>>,
         request = "turn" => request' = "turn"
  PROVE  AwaitedInv'
  BY JoinPlaces DEF AwaitedInv

\* Frames that list no skills leave what is told of them.
LEMMA JoinSkills ==
  ASSUME NEW frames, Joins(frames), SkillsInv, UNCHANGED <<stage, enabled, tainted>>,
         \A k \in 1..Len(frames) : frames[k].kind # "skills"
  PROVE  SkillsInv'
<1>0. /\ Places \subseteq Nat /\ Places' \subseteq Nat /\ Len(channel) \in Nat
      /\ \A i \in Places : i \in Places' /\ channel'[i] = channel[i] /\ i <= Len(channel)
      /\ \A i \in Places' : i \in Places \/
           (i > Len(channel) /\ \E k \in 1..Len(frames) : i = Len(channel) + k /\ channel'[i] = frames[k])
  BY JoinPlaces DEF Joins
<1>1. Listed' => Listed
  BY <1>0 DEF Listed
<1>2. ASSUME Listed', enabled' # {}
      PROVE  \E i \in Places' : /\ channel'[i].kind = "skills_changed"
                                /\ \A j \in Places' : i < j => channel'[j].kind # "skills"
  <2>1. PICK i \in Places : /\ channel[i].kind = "skills_changed"
                            /\ \A j \in Places : i < j => channel[j].kind # "skills"
    BY <1>1, <1>2 DEF SkillsInv
  <2>2. \A j \in Places' : i < j => channel'[j].kind # "skills"
    BY <1>0, <2>1
  <2>3. QED
    BY <1>0, <2>1, <2>2
<1>3. ASSUME stage' \in {"turn", "wait"}, tainted'
      PROVE  \E i \in Places' : /\ channel'[i].kind = "skills_changed"
                                /\ \A j \in Places' : j < i => ~IsOwn(channel'[j], "completed")
  <2>1. PICK i \in Places : /\ channel[i].kind = "skills_changed"
                            /\ \A j \in Places : j < i => ~IsOwn(channel[j], "completed")
    BY <1>3 DEF SkillsInv
  <2>2. ASSUME NEW j \in Places', j < i PROVE ~IsOwn(channel'[j], "completed")
    <3>1. j \in Places
      BY <1>0, <2>1, <2>2
    <3>2. QED
      BY <1>0, <2>1, <2>2, <3>1
  <2>3. QED
    BY <1>0, <2>1, <2>2
<1>4. QED
  BY <1>2, <1>3 DEF SkillsInv

\* The turn is as far as it was.
LEMMA JoinTurn ==
  ASSUME NEW frames, Joins(frames), TurnInv, UNCHANGED <<stage, id, messages, usage>>,
         Unborn' <=> Unborn, turn'.state = "none" <=> turn.state = "none",
         turn.state = "none" => turn'.said = turn.said /\ turn'.tokens = turn.tokens /\ ~tainted',
         stage = "after" => turn'.state = "ended",
         \A k \in 1..Len(frames) : IsOwn(frames[k], "completed") => turn.state # "none"
  PROVE  TurnInv'
<1>1. turn'.state = "none" => \A i \in Places' : ~IsOwn(channel'[i], "completed")
  BY JoinPlaces DEF TurnInv
<1>2. QED
  BY <1>1 DEF TurnInv

\* Thread and turn are announced once.
LEMMA JoinAnnounced ==
  ASSUME NEW frames, Joins(frames), AnnouncedInv, id' = id, ThreadUnborn' => ThreadUnborn,
         turn.state # "none" => turn'.state # "none",
         \A k \in 1..Len(frames) : frames[k].kind = "thread_started" =>
           /\ ~ThreadUnborn' /\ id.announced_thread = "none"
           /\ \A i \in Places : channel[i].kind # "thread_started"
           /\ \A l \in 1..Len(frames) : frames[l].kind = "thread_started" => l = k,
         \A k \in 1..Len(frames) : frames[k].kind = "turn_started" =>
           /\ turn'.state # "none" /\ id.announced_turn = "none"
           /\ \A i \in Places : channel[i].kind # "turn_started"
           /\ \A l \in 1..Len(frames) : frames[l].kind = "turn_started" => l = k
  PROVE  AnnouncedInv'
<1>0. /\ \A i \in Places' : i \in Places \/
           \E k \in 1..Len(frames) : i = Len(channel) + k /\ channel'[i] = frames[k]
      /\ \A i \in Places : channel'[i] = channel[i]
  BY JoinPlaces
<1>1. ASSUME NEW i \in Places', channel'[i].kind = "thread_started"
      PROVE  /\ id'.announced_thread = "none"
             /\ \A j \in Places' : channel'[j].kind = "thread_started" => i = j
  <2>1. CASE i \in Places
    BY <1>0, <1>1, <2>1 DEF AnnouncedInv
  <2>2. CASE i \notin Places
    BY <1>0, <1>1, <2>2
  <2>3. QED
    BY <2>1, <2>2
<1>2. ASSUME NEW i \in Places', channel'[i].kind = "turn_started"
      PROVE  /\ id'.announced_turn = "none" /\ turn'.state # "none"
             /\ \A j \in Places' : channel'[j].kind = "turn_started" => i = j
  <2>1. CASE i \in Places
    BY <1>0, <1>2, <2>1 DEF AnnouncedInv
  <2>2. CASE i \notin Places
    BY <1>0, <1>2, <2>2
  <2>3. QED
    BY <2>1, <2>2
<1>3. ThreadUnborn' =>
        id'.announced_thread = "none" /\ \A i \in Places' : channel'[i].kind # "thread_started"
  BY <1>0 DEF AnnouncedInv, ThreadUnborn
<1>4. QED
  BY <1>1, <1>2, <1>3 DEF AnnouncedInv, ThreadUnborn

\* What is of the turn comes behind its response, and in order.
LEMMA JoinOrder ==
  ASSUME NEW frames, Joins(frames), OrderInv, UNCHANGED <<stage, messages>>, id'.turn = id.turn,
         turn.state # "none" => turn'.state # "none", Len(turn'.said) <= MaxMessages,
         \A k \in 1..Len(frames) :
           frames[k].kind \in {"usage", "item", "status", "message", "completed"} =>
             /\ turn'.state # "none"
             /\ id.turn = "own" \/ \E i \in Places : channel[i].kind = "turn",
         \A k \in 1..Len(frames) : frames[k].kind = "completed" =>
           /\ stage # "after" /\ \A i \in Places : channel[i].kind # "completed"
           /\ \A l \in 1..Len(frames) : frames[l].kind = "completed" => l = k,
         \A k \in 1..Len(frames) : frames[k].kind = "message" =>
           /\ Len(messages) < frames[k].body.key
           /\ \A i \in Places : channel[i].kind = "message" => channel[i].body.key < frames[k].body.key
           /\ \A l \in 1..Len(frames) : frames[l].kind = "message" => l = k
  PROVE  OrderInv'
<1>0. /\ Places \subseteq Nat /\ Places' \subseteq Nat /\ Len(channel) \in Nat
      /\ \A i \in Places : i \in Places' /\ channel'[i] = channel[i] /\ i <= Len(channel)
      /\ \A i \in Places' : i \in Places \/
           (i > Len(channel) /\ \E k \in 1..Len(frames) : i = Len(channel) + k /\ channel'[i] = frames[k])
  BY JoinPlaces DEF Joins
<1>1. ASSUME NEW i \in Places',
             channel'[i].kind \in {"usage", "item", "status", "message", "completed"}
      PROVE  /\ turn'.state # "none"
             /\ id'.turn = "own" \/ \E j \in Places' : j < i /\ channel'[j].kind = "turn"
  <2>1. CASE i \in Places
    <3>1. /\ turn.state # "none"
          /\ id.turn = "own" \/ \E j \in Places : j < i /\ channel[j].kind = "turn"
      BY <1>0, <1>1, <2>1 DEF OrderInv
    <3>2. QED
      BY <1>0, <3>1
  <2>2. CASE i \notin Places
    <3>1. i > Len(channel) /\ \E k \in 1..Len(frames) : channel'[i] = frames[k]
      BY <1>0, <2>2
    <3>2. turn'.state # "none" /\ (id.turn = "own" \/ \E j \in Places : channel[j].kind = "turn")
      BY <1>1, <3>1
    <3>3. \A j \in Places : j < i
      BY <1>0, <3>1
    <3>4. QED
      BY <1>0, <3>2, <3>3
  <2>3. QED
    BY <2>1, <2>2
<1>2. ASSUME NEW i \in Places', NEW j \in Places',
             channel'[i].kind = "completed", channel'[j].kind = "completed"
      PROVE  i = j
  <2>1. CASE i \in Places /\ j \in Places
    BY <1>0, <1>2, <2>1 DEF OrderInv
  <2>2. CASE i \in Places /\ j \notin Places
    BY <1>0, <1>2, <2>2
  <2>3. CASE i \notin Places /\ j \in Places
    BY <1>0, <1>2, <2>3
  <2>4. CASE i \notin Places /\ j \notin Places
    <3>1. PICK k \in 1..Len(frames) : i = Len(channel) + k /\ channel'[i] = frames[k]
      BY <1>0, <2>4
    <3>2. PICK l \in 1..Len(frames) : j = Len(channel) + l /\ channel'[j] = frames[l]
      BY <1>0, <2>4
    <3>3. l = k
      BY <1>2, <3>1, <3>2
    <3>4. QED
      BY <3>1, <3>2, <3>3
  <2>5. QED
    BY <2>1, <2>2, <2>3, <2>4
<1>3. stage' = "after" => \A i \in Places' : channel'[i].kind # "completed"
  BY <1>0 DEF OrderInv
<1>4. ASSUME NEW i \in Places', channel'[i].kind = "message"
      PROVE  /\ Len(messages') < channel'[i].body.key
             /\ \A j \in Places' : channel'[j].kind = "message" /\ i < j =>
                  channel'[i].body.key < channel'[j].body.key
  <2>1. CASE i \in Places
    <3>1. channel'[i] = channel[i] /\ Len(messages) < channel[i].body.key
      BY <1>0, <1>4, <2>1 DEF OrderInv
    <3>2. ASSUME NEW j \in Places', channel'[j].kind = "message", i < j
          PROVE  channel'[i].body.key < channel'[j].body.key
      <4>1. CASE j \in Places
        BY <1>0, <1>4, <2>1, <3>1, <3>2, <4>1 DEF OrderInv
      <4>2. CASE j \notin Places
        <5>1. PICK k \in 1..Len(frames) : channel'[j] = frames[k]
          BY <1>0, <4>2
        <5>2. channel[i].body.key < frames[k].body.key
          BY <1>4, <2>1, <3>1, <3>2, <5>1
        <5>3. QED
          BY <3>1, <5>1, <5>2
      <4>3. QED
        BY <4>1, <4>2
    <3>3. QED
      BY <3>1, <3>2
  <2>2. CASE i \notin Places
    <3>1. PICK k \in 1..Len(frames) : i = Len(channel) + k /\ channel'[i] = frames[k]
      BY <1>0, <2>2
    <3>2. /\ Len(messages) < frames[k].body.key
          /\ \A l \in 1..Len(frames) : frames[l].kind = "message" => l = k
      BY <1>4, <3>1
    <3>3. ASSUME NEW j \in Places', channel'[j].kind = "message", i < j PROVE FALSE
      <4>1. j \notin Places
        <5>1. i > Len(channel) /\ i \in Nat /\ j \in Nat
          BY <1>0, <2>2
        <5>2. j \in Places => j <= Len(channel)
          BY <1>0
        <5>3. QED
          BY <1>0, <3>3, <5>1, <5>2
      <4>2. PICK l \in 1..Len(frames) : j = Len(channel) + l /\ channel'[j] = frames[l]
        BY <1>0, <4>1
      <4>3. l = k
        BY <3>2, <3>3, <4>2
      <4>4. QED
        BY <1>0, <3>1, <3>3, <4>2, <4>3
    <3>4. QED
      BY <3>1, <3>2, <3>3
  <2>3. QED
    BY <2>1, <2>2
<1>5. ~Twice' /\ Len(turn'.said) <= MaxMessages
  BY DEF OrderInv, Twice
<1>6. QED
  BY <1>1, <1>2, <1>3, <1>4, <1>5 DEF OrderInv

\* A page that is sent is the next one of the listing.
LEMMA JoinPages ==
  ASSUME NEW frames, Joins(frames), PagesInv, listing' = listing,
         \A k \in 1..Len(frames) : frames[k].kind = "page" =>
           LET page == frames[k].body
           IN  \/ page.cursor = 0 /\ page.matches = 1
               \/ /\ page.cursor = listing.pages + 1 /\ page.matches = 0
                  /\ listing.pages + 1 < MaxPages
  PROVE  PagesInv'
<1>0. \A i \in Places' : (i \in Places /\ channel'[i] = channel[i])
                         \/ \E k \in 1..Len(frames) : channel'[i] = frames[k]
  BY JoinPlaces
<1>1. QED
  BY <1>0 DEF PagesInv


-----------------------------------------------------------------------------
(* The server sends *)

\* What a sequence of one frame holds.
LEMMA OneFrame ==
  ASSUME NEW f
  PROVE  <<f>> \in Seq({f}) /\ Len(<<f>>) = 1 /\ \A k \in 1..Len(<<f>>) : k = 1 /\ <<f>>[k] = f
  OBVIOUS

\* Two frames, one after the other.
LEMMA FramesJoined ==
  ASSUME NEW f, NEW g
  PROVE  /\ <<f>> \o <<g>> \in Seq({f, g}) /\ Len(<<f>> \o <<g>>) = 2
         /\ \A k \in 1..Len(<<f>> \o <<g>>) :
              (k = 1 /\ (<<f>> \o <<g>>)[k] = f) \/ (k = 2 /\ (<<f>> \o <<g>>)[k] = g)
<1>1. <<f>> \in Seq({f, g}) /\ <<g>> \in Seq({f, g}) /\ Len(<<f>>) = 1 /\ Len(<<g>>) = 1
  OBVIOUS
<1>2. /\ <<f>> \o <<g>> \in Seq({f, g}) /\ Len(<<f>> \o <<g>>) = 2
      /\ (<<f>> \o <<g>>)[1] = f /\ (<<f>> \o <<g>>)[2] = g
  BY <1>1
<1>3. QED
  BY <1>2

\* What a sequence of two frames holds.
LEMMA TwoFrames ==
  ASSUME NEW f, NEW g
  PROVE  /\ <<f, g>> \in Seq({f, g}) /\ Len(<<f, g>>) = 2
         /\ \A k \in 1..Len(<<f, g>>) : (k = 1 /\ <<f, g>>[k] = f) \/ (k = 2 /\ <<f, g>>[k] = g)
  OBVIOUS

\* The frames hold b once, and a at most once, and nothing else.
BothSent(frames, a, b) ==
  /\ frames \in Seq({a, b})
  /\ \E l \in 1..Len(frames) :
       /\ frames[l] = b /\ \A k \in 1..Len(frames) : frames[k] = b => k = l
       /\ \A k \in 1..Len(frames) : frames[k] \in {a, b}
       /\ \A k, m \in 1..Len(frames) : frames[k] = a /\ frames[m] = a => k = m

\* An answer and its announcement, whatever their order.
LEMMA EitherIs ==
  ASSUME NEW a, NEW b, a # b, NEW frames \in EitherOrder(a, b)
  PROVE  BothSent(frames, a, b)
<1>1. CASE frames = <<a, b>>
  <2>1. Len(frames) = 2 /\ frames[1] = a /\ frames[2] = b /\ frames \in Seq({a, b})
    BY <1>1
  <2>2. 1..Len(frames) = {1, 2}
    BY <2>1
  <2>3. QED
    BY <2>1, <2>2 DEF BothSent
<1>2. CASE frames = <<b, a>>
  <2>1. Len(frames) = 2 /\ frames[1] = b /\ frames[2] = a /\ frames \in Seq({a, b})
    BY <1>2
  <2>2. 1..Len(frames) = {1, 2}
    BY <2>1
  <2>3. QED
    BY <2>1, <2>2 DEF BothSent
<1>3. CASE frames = <<b>>
  <2>1. Len(frames) = 1 /\ frames[1] = b /\ frames \in Seq({a, b})
    BY <1>3
  <2>2. 1..Len(frames) = {1}
    BY <2>1
  <2>3. QED
    BY <2>1, <2>2 DEF BothSent
<1>4. QED
  BY <1>1, <1>2, <1>3 DEF EitherOrder

\* What the server sends of its own accord, and when somebody reads.
LEMMA SendKeeps ==
  ASSUME IInv, NEW S, NEW frames \in Seq(S), Send(frames), UNCHANGED client,
         \A k \in 1..Len(frames) : Fine(frames[k]),
         request' \in Requests \cup {"none"}, enabled' \subseteq Skills, tainted' \in BOOLEAN,
         deviations' \in Nat,
         turn' \in [state : {"none", "running", "ended"}, said : Seq(Message), tokens : Nat],
         RequestInv', AwaitedInv', TurnInv', EndInv', SpokenInv', HeardInv', UsageInv', SkillsInv',
         stage = "after" => tainted' = tainted,
         deviations' = 0 =>
           /\ deviations = 0 /\ \A k \in 1..Len(frames) : OnlyOwn(frames[k])
           /\ AnnouncedInv' /\ OrderInv' /\ PagesInv'
  PROVE  IInv'
<1>1. TypeOK
  BY DEF IInv
<1>2. Joins(frames) /\ channel' \in Seq(Range(channel')) /\ stage \notin Ended
  BY <1>1, SendJoins
<1>3. UNCHANGED <<stage, asked, listing, id, messages, usage>>
  BY DEF client
<1>4. /\ FramesInv /\ FinalInv /\ (deviations = 0 => \A i \in Places : OnlyOwn(channel[i]))
  BY <1>2, OpenParts
<1>5. TypeOK'
  BY <1>1, <1>2, <1>3 DEF TypeOK
<1>6. FramesInv'
  BY <1>2, <1>4, JoinFrames
<1>7. FinalInv'
  BY <1>3, <1>4 DEF FinalInv, Twice
<1>8. HonestInv'
  <2>1. deviations' = 0 => (\A i \in Places : OnlyOwn(channel[i]))'
    <3>1. \A i \in Places' : (i \in Places /\ channel'[i] = channel[i])
                             \/ \E k \in 1..Len(frames) : channel'[i] = frames[k]
      BY <1>2, JoinPlaces
    <3>2. QED
      BY <1>4, <3>1
  <2>2. QED
    BY <2>1 DEF HonestInv
<1>9. PipeInv'
  BY <1>6, <1>7, <1>8 DEF PipeInv
<1>10. QED
  BY <1>2, <1>3, <1>5, <1>9, OpenKeeps

\* Once the turn runs, the client knows it or is about to.
LEMMA RunningInScope ==
  ASSUME TypeOK, TurnInv, AwaitedInv, stage \notin Ended, turn.state # "none"
  PROVE  id.turn = "own" \/ \E i \in Places : channel[i].kind = "turn"
<1>1. ~Unborn
  BY DEF TurnInv
<1>2. stage \in Turning \/ (stage = "turn" /\ asked /\ request # "turn")
  BY <1>1 DEF Unborn, TypeOK, Stages
<1>3. QED
  BY <1>2 DEF TurnInv, AwaitedInv

\* Frames that say nothing of the turn.
LEMMA QuietKeeps ==
  ASSUME IInv, NEW S, NEW frames \in Seq(S), Send(frames), UNCHANGED <<client, turn>>,
         \A k \in 1..Len(frames) :
           /\ Fine(frames[k])
           /\ \A kind \in {"message", "usage", "completed"} : ~IsOwn(frames[k], kind),
         request' = request \/ (request' = "none" /\ request # "turn"),
         enabled' \subseteq Skills, tainted' \in BOOLEAN, deviations' \in Nat,
         RequestInv', SkillsInv', tainted' = tainted \/ turn.state = "running",
         deviations' = 0 =>
           /\ deviations = 0
           /\ \A k \in 1..Len(frames) :
                /\ OnlyOwn(frames[k]) /\ frames[k].kind # "turn_started"
                /\ frames[k].kind \in {"item", "status"} => turn.state = "running"
                /\ frames[k].kind = "thread_started" =>
                     /\ request = "thread" /\ request' = "none"
                     /\ \A l \in 1..Len(frames) : frames[l].kind = "thread_started" => l = k
                /\ frames[k].kind = "page" =>
                     LET page == frames[k].body
                     IN  \/ page.cursor = 0 /\ page.matches = 1
                         \/ /\ page.cursor = listing.pages + 1 /\ page.matches = 0
                            /\ listing.pages + 1 < MaxPages
  PROVE  IInv'
<1>1. TypeOK
  BY DEF IInv
<1>2. Joins(frames) /\ channel' \in Seq(Range(channel')) /\ stage \notin Ended
  BY <1>1, SendJoins
<1>3. UNCHANGED <<stage, asked, listing, id, messages, usage>>
  BY DEF client
<1>4. /\ FramesInv /\ RequestInv /\ TurnInv /\ EndInv /\ SpokenInv /\ HeardInv
      /\ UsageInv /\ FinalInv /\ SkillsInv /\ AwaitedInv
      /\ deviations = 0 =>
           (\A i \in Places : OnlyOwn(channel[i])) /\ AnnouncedInv /\ OrderInv /\ PagesInv
  BY <1>2, OpenParts
<1>5. /\ turn' = turn
      /\ \A k \in 1..Len(frames) : ~IsOwn(frames[k], "message") /\ ~IsOwn(frames[k], "usage")
                                   /\ ~IsOwn(frames[k], "completed")
  OBVIOUS
<1>6. AwaitedInv'
  <2>1. request = "turn" => request' = "turn"
    OBVIOUS
  <2>2. QED
    BY <1>2, <1>3, <1>4, <2>1, JoinAwaited
<1>7. TurnInv'
  <2>1. Unborn' <=> Unborn
    BY <1>3 DEF Unborn
  <2>2. turn.state = "none" => ~tainted'
    BY <1>4 DEF TurnInv
  <2>3. stage = "after" => turn'.state = "ended"
    BY <1>4, <1>5 DEF TurnInv
  <2>4. QED
    BY <1>2, <1>3, <1>4, <1>5, <2>1, <2>2, <2>3, JoinTurn
<1>8. EndInv' /\ SpokenInv'
  <2>1. \A k \in DOMAIN turn'.said : turn'.said[k].key = k
    BY <1>4, <1>5 DEF SpokenInv
  <2>2. SpokenInv'
    BY <1>2, <1>4, <1>5, <2>1, JoinSpoken
  <2>3. EndInv'
    BY <1>2, <1>3, <1>4, <1>5, JoinEnd
  <2>4. QED
    BY <2>2, <2>3
<1>9. HeardInv' /\ UsageInv'
  <2>1. Repeats(frames, "message") /\ Repeats(frames, "usage")
    BY <1>5 DEF Repeats
  <2>2. QED
    BY <1>1, <1>2, <1>3, <1>4, <1>5, <2>1, JoinHeard, JoinUsage
<1>10. stage = "after" => tainted' = tainted
  BY <1>4 DEF TurnInv
<1>11. ASSUME deviations' = 0
       PROVE  /\ deviations = 0 /\ \A k \in 1..Len(frames) : OnlyOwn(frames[k])
              /\ AnnouncedInv' /\ OrderInv' /\ PagesInv'
  <2>0. deviations = 0
    BY <1>11
  <2>1. \A k \in 1..Len(frames) :
          /\ OnlyOwn(frames[k])
          /\ frames[k].kind \notin {"message", "usage", "completed", "turn_started"}
    BY <1>5, <1>11 DEF OnlyOwn, ScopedKinds, IsOwn
  <2>2. AnnouncedInv'
    <3>1. ThreadUnborn' => ThreadUnborn
      BY <1>3 DEF ThreadUnborn
    <3>2. ASSUME NEW k \in 1..Len(frames), frames[k].kind = "thread_started"
          PROVE  /\ ~ThreadUnborn' /\ id.announced_thread = "none"
                 /\ \A i \in Places : channel[i].kind # "thread_started"
                 /\ \A l \in 1..Len(frames) : frames[l].kind = "thread_started" => l = k
      <4>1. /\ request = "thread" /\ request' = "none"
            /\ \A l \in 1..Len(frames) : frames[l].kind = "thread_started" => l = k
        BY <1>11, <3>2
      <4>2. stage = "thread" /\ asked
        BY <1>4, <4>1 DEF RequestInv
      <4>3. ~ThreadUnborn'
        BY <1>3, <4>1, <4>2 DEF ThreadUnborn, Early
      <4>4. id.announced_thread = "none" /\ \A i \in Places : channel[i].kind # "thread_started"
        BY <1>4, <2>0, <4>1, <4>2 DEF AnnouncedInv
      <4>5. QED
        BY <4>1, <4>3, <4>4
    <3>3. \A k \in 1..Len(frames) : frames[k].kind = "turn_started" => FALSE
      BY <2>1
    <3>4. QED
      BY <1>2, <1>3, <1>4, <1>5, <2>0, <3>1, <3>2, <3>3, JoinAnnounced
  <2>3. OrderInv'
    <3>1. ASSUME NEW k \in 1..Len(frames),
                 frames[k].kind \in {"usage", "item", "status", "message", "completed"}
          PROVE  /\ turn'.state # "none"
                 /\ id.turn = "own" \/ \E i \in Places : channel[i].kind = "turn"
      <4>1. frames[k].kind \in {"item", "status"}
        BY <2>1, <3>1
      <4>2. turn.state = "running"
        BY <1>11, <4>1
      <4>3. QED
        BY <1>1, <1>2, <1>4, <1>5, <4>2, RunningInScope
    <3>2. OrderInv /\ Len(turn'.said) <= MaxMessages
      BY <1>4, <1>5, <2>0 DEF OrderInv
    <3>3. QED
      BY <1>2, <1>3, <1>5, <2>1, <3>1, <3>2, JoinOrder
  <2>4. PagesInv'
    BY <1>2, <1>3, <1>4, <1>11, <2>0, JoinPages
  <2>5. QED
    BY <2>0, <2>1, <2>2, <2>3, <2>4
<1>12. request' \in Requests \cup {"none"}
       /\ turn' \in [state : {"none", "running", "ended"}, said : Seq(Message), tokens : Nat]
  BY <1>1, <1>5 DEF TypeOK
<1>13. UNCHANGED client
  OBVIOUS
<1>14. \A k \in 1..Len(frames) : Fine(frames[k])
  OBVIOUS
<1>15. QED
  BY <1>6, <1>7, <1>8, <1>9, <1>10, <1>11, <1>12, <1>13, <1>14, SendKeeps


\* The answers before the thread, but for those about skills.
LEMMA AnswerEarlyKeeps == ASSUME IInv, AnswerSimple \/ AnswerPage \/ AnswerLimits PROVE IInv'
<1>1. TypeOK
  BY DEF IInv
<1>2. ASSUME NEW f, Send(<<f>>), UNCHANGED <<client, server, deviations>>, request' = "none",
             f.kind \in {"initialized", "account", "page", "limits"}, request \in StagesOf(f.kind),
             deviations = 0 /\ f.kind = "page" =>
               \/ f.body.cursor = 0 /\ f.body.matches = 1
               \/ /\ f.body.cursor = listing.pages + 1 /\ f.body.matches = 0
                  /\ listing.pages + 1 < MaxPages
      PROVE  IInv'
  <2>1. <<f>> \in Seq({f}) /\ Len(<<f>>) = 1 /\ \A k \in 1..Len(<<f>>) : k = 1 /\ <<f>>[k] = f
    BY OneFrame
  <2>2. Joins(<<f>>) /\ stage \notin Ended
    BY <1>1, <1>2, <2>1, SendJoins
  <2>3. UNCHANGED <<stage, asked, enabled, limits, turn, tainted>>
    BY <1>2 DEF client, server
  <2>4. RequestInv /\ SkillsInv
    BY <2>2, OpenParts
  <2>5. request \in Requests /\ request \notin {"none", "turn"}
    BY <1>2, StagesAre DEF Requests
  <2>6. RequestInv'
    <3>1. 1 \in 1..Len(<<f>>) /\ <<f>>[1] = f
      BY <2>1
    <3>2. request # "none" /\ request' = "none" /\ request \in StagesOf(<<f>>[1].kind)
      BY <1>2, <2>5, <3>1
    <3>3. \A k \in 1..Len(<<f>>) : <<f>>[k].kind \in Responses => k = 1
      BY <2>1
    <3>4. QED
      BY <2>2, <2>3, <2>4, <3>1, <3>2, <3>3, JoinResponse
  <2>7. SkillsInv'
    BY <1>2, <2>1, <2>2, <2>3, <2>4, JoinSkills
  <2>8. Fine(f) /\ OnlyOwn(f) /\ \A kind \in {"message", "usage", "completed"} : ~IsOwn(f, kind)
    BY <1>2 DEF Fine, OnlyOwn, IsOwn, Kinds, Responses, ScopedKinds
  <2>9. enabled' \subseteq Skills /\ tainted' \in BOOLEAN /\ deviations' \in Nat
    BY <1>1, <1>2, <2>3 DEF TypeOK
  <2>10. UNCHANGED <<client, turn>>
    BY <1>2, <2>3
  <2>11. deviations' = 0 => deviations = 0
    BY <1>2
  <2>12. f.kind \notin {"turn_started", "thread_started", "item", "status"}
    BY <1>2
  <2>13. QED
    BY <1>2, <2>1, <2>3, <2>5, <2>6, <2>7, <2>8, <2>9, <2>10, <2>11, <2>12, QuietKeeps
<1>3. CASE AnswerSimple
  <2> DEFINE f == Response(IF request = "account" THEN "account" ELSE "initialized", "none")
  <2>1. /\ Send(<<f>>) /\ UNCHANGED <<client, server, deviations>> /\ request' = "none"
        /\ request \in {"initialize", "account"}
    BY <1>3 DEF AnswerSimple, Answers, counts
  <2>2. f.kind = IF request = "account" THEN "account" ELSE "initialized"
    BY DEF Response
  <2>3. request \in StagesOf(f.kind) /\ f.kind \in {"initialized", "account"}
    BY <2>1, <2>2, StagesAre
  <2> HIDE DEF f
  <2>4. QED
    BY <1>2, <2>1, <2>3
<1>4. CASE AnswerPage
  <2>1. PICK more \in BOOLEAN :
          /\ more => listing.pages + 1 < MaxPages
          /\ Send(<<Response("page", [matches |-> IF more THEN 0 ELSE 1,
                                      cursor  |-> IF more THEN listing.pages + 1 ELSE 0])>>)
    BY <1>4 DEF AnswerPage
  <2> DEFINE f == Response("page", [matches |-> IF more THEN 0 ELSE 1,
                                    cursor  |-> IF more THEN listing.pages + 1 ELSE 0])
  <2>2. /\ UNCHANGED <<client, server, deviations>> /\ request' = "none"
        /\ request \in {"models", "profiles"}
    BY <1>4 DEF AnswerPage, Answers, counts
  <2>3. /\ f.kind = "page" /\ f.body.matches = (IF more THEN 0 ELSE 1)
        /\ f.body.cursor = (IF more THEN listing.pages + 1 ELSE 0)
    BY DEF Response
  <2>4. Send(<<f>>)
    BY <2>1
  <2> HIDE DEF f
  <2>5. request \in StagesOf(f.kind)
    BY <2>2, <2>3, StagesAre
  <2>6. \/ f.body.cursor = 0 /\ f.body.matches = 1
        \/ /\ f.body.cursor = listing.pages + 1 /\ f.body.matches = 0
           /\ listing.pages + 1 < MaxPages
    BY <2>1, <2>3
  <2>7. QED
    BY <1>2, <2>2, <2>3, <2>4, <2>5, <2>6
<1>5. CASE AnswerLimits
  <2> DEFINE f == Response("limits", limits)
  <2>1. /\ Send(<<f>>) /\ UNCHANGED <<client, server, deviations>> /\ request' = "none"
        /\ request \in {"before", "after"}
    BY <1>5 DEF AnswerLimits, Answers, counts
  <2>2. f.kind = "limits"
    BY DEF Response
  <2> HIDE DEF f
  <2>3. request \in StagesOf(f.kind)
    BY <2>1, <2>2, StagesAre
  <2>4. QED
    BY <1>2, <2>1, <2>2, <2>3
<1>6. QED
  BY <1>3, <1>4, <1>5

\* The second listing is empty, or the client fails.
LEMMA AnswerSkillsKeeps == ASSUME IInv, AnswerSkills PROVE IInv'
<1> DEFINE f == Response("skills", enabled)
<1>1. /\ TypeOK /\ Send(<<f>>) /\ UNCHANGED <<client, server, deviations>> /\ request' = "none"
      /\ request \in {"list", "relist"}
  BY DEF IInv, AnswerSkills, Answers, counts
<1>2. f.kind = "skills" /\ f.body = enabled
  BY DEF Response
<1> HIDE DEF f
<1>3. <<f>> \in Seq({f}) /\ Len(<<f>>) = 1 /\ \A k \in 1..Len(<<f>>) : k = 1 /\ <<f>>[k] = f
  BY OneFrame
<1>4. Joins(<<f>>) /\ stage \notin Ended
  BY <1>1, <1>3, SendJoins
<1>5. UNCHANGED <<stage, asked, enabled, limits, turn, tainted>>
  BY <1>1 DEF client, server
<1>6. RequestInv /\ SkillsInv
  BY <1>4, OpenParts
<1>7. RequestInv'
  <2>1. 1 \in 1..Len(<<f>>) /\ <<f>>[1] = f
    BY <1>3
  <2>2. request # "none" /\ request' = "none" /\ request \in StagesOf(<<f>>[1].kind)
    BY <1>1, <1>2, <2>1, StagesAre
  <2>3. \A k \in 1..Len(<<f>>) : <<f>>[k].kind \in Responses => k = 1
    BY <1>3
  <2>4. QED
    BY <1>4, <1>5, <1>6, <2>1, <2>2, <2>3, JoinResponse
<1>8. SkillsInv'
  <2>1. stage \in {"list", "relist"} /\ \A i \in Places : channel[i].kind \notin Responses
    BY <1>1, <1>6 DEF RequestInv
  <2>2. \A i \in Places' : channel'[i].kind = "skills" => channel'[i] = f
    <3>1. \A i \in Places : channel'[i] = channel[i] /\ channel[i].kind # "skills"
      BY <1>4, <2>1, JoinPlaces DEF Responses
    <3>2. \A i \in Places' : i \in Places \/ \E k \in 1..Len(<<f>>) : channel'[i] = <<f>>[k]
      BY <1>4, JoinPlaces
    <3>3. QED
      BY <1>3, <3>1, <3>2
  <2>3. stage' \notin {"thread", "turn"} \cup Turning
    BY <1>5, <2>1 DEF Turning
  <2>4. Listed' => enabled' = {}
    BY <1>2, <1>5, <2>2, <2>3 DEF Listed
  <2>5. QED
    BY <2>3, <2>4 DEF SkillsInv, Turning
<1>9. Fine(f) /\ OnlyOwn(f) /\ \A kind \in {"message", "usage", "completed"} : ~IsOwn(f, kind)
  BY <1>2 DEF Fine, OnlyOwn, IsOwn, Kinds, Responses, ScopedKinds
<1>10. enabled' \subseteq Skills /\ tainted' \in BOOLEAN /\ deviations' \in Nat
  BY <1>1, <1>5 DEF TypeOK
<1>11. UNCHANGED <<client, turn>> /\ (deviations' = 0 => deviations = 0)
       /\ request # "turn" /\ tainted' = tainted
  BY <1>1, <1>5
<1>12. f.kind \notin {"turn_started", "thread_started", "item", "status", "page"}
  BY <1>2
<1>13. QED
  BY <1>1, <1>3, <1>7, <1>8, <1>9, <1>10, <1>11, <1>12, QuietKeeps

\* A skill is written while nobody relies on the listing yet.
LEMMA AnswerWriteKeeps == ASSUME IInv, AnswerWrite PROVE IInv'
<1> DEFINE f == [kind |-> "skills_changed"]
           g == Response("written", "none")
<1>1. /\ TypeOK /\ Send(<<f, g>>) /\ UNCHANGED <<client, turn, tainted, deviations>> /\ request' = "none"
      /\ request = "write" /\ enabled' \subseteq enabled
  BY DEF IInv, AnswerWrite, Answers, counts
<1>2. f.kind = "skills_changed" /\ g.kind = "written"
  BY DEF Response
<1> HIDE DEF f, g
<1>3. /\ <<f, g>> \in Seq({f, g}) /\ Len(<<f, g>>) = 2
      /\ \A k \in 1..Len(<<f, g>>) : (k = 1 /\ <<f, g>>[k] = f) \/ (k = 2 /\ <<f, g>>[k] = g)
  BY TwoFrames
<1>4. Joins(<<f, g>>) /\ stage \notin Ended
  BY <1>1, <1>3, SendJoins
<1>5. UNCHANGED <<stage, asked, turn, tainted>>
  BY <1>1 DEF client
<1>6. RequestInv /\ stage = "write"
  BY <1>1, <1>4, OpenParts DEF RequestInv
<1>7. RequestInv'
  <2>1. 2 \in 1..Len(<<f, g>>) /\ <<f, g>>[2] = g
    BY <1>3
  <2>2. request # "none" /\ request' = "none" /\ request \in StagesOf(<<f, g>>[2].kind)
    BY <1>1, <1>2, <2>1, StagesAre
  <2>3. \A k \in 1..Len(<<f, g>>) : <<f, g>>[k].kind \in Responses => k = 2
    BY <1>2, <1>3 DEF Responses
  <2>4. QED
    BY <1>4, <1>5, <1>6, <2>1, <2>2, <2>3, JoinResponse
<1>8. SkillsInv'
  BY <1>5, <1>6 DEF SkillsInv, Listed, Turning
<1>9. \A h \in {f, g} : /\ Fine(h) /\ OnlyOwn(h)
                        /\ \A kind \in {"message", "usage", "completed"} : ~IsOwn(h, kind)
                        /\ h.kind \notin {"turn_started", "thread_started", "item", "status", "page"}
  BY <1>2 DEF Fine, OnlyOwn, IsOwn, Kinds, Responses, Notifications, ScopedKinds
<1>10. enabled' \subseteq Skills /\ tainted' \in BOOLEAN /\ deviations' \in Nat
  BY <1>1 DEF TypeOK
<1>11. UNCHANGED <<client, turn>> /\ (deviations' = 0 => deviations = 0)
       /\ request # "turn" /\ tainted' = tainted
  BY <1>1
<1>12. \A k \in 1..Len(<<f, g>>) : <<f, g>>[k] \in {f, g}
  BY <1>3
<1>13. QED
  BY <1>1, <1>3, <1>7, <1>8, <1>9, <1>10, <1>11, <1>12, QuietKeeps

\* The thread.
LEMMA AnswerThreadKeeps == ASSUME IInv, AnswerThread PROVE IInv'
<1> DEFINE a == Own("thread_started", "none")
           b == Response("thread", "own")
<1>1. PICK frames \in EitherOrder(a, b) : Send(frames)
  BY DEF AnswerThread
<1>2. /\ TypeOK /\ UNCHANGED <<client, server, deviations>> /\ request' = "none"
      /\ request = "thread"
  BY DEF IInv, AnswerThread, Answers, counts
<1>3. /\ a.kind = "thread_started" /\ a.thread = "own" /\ a.turn = "own"
      /\ b.kind = "thread" /\ b.body = "own"
  BY DEF Own, Scoped, Response
<1> HIDE DEF a, b
<1>a. a # b
  BY <1>3
<1>b. BothSent(frames, a, b)
  BY <1>1, <1>a, EitherIs
<1>4. frames \in Seq({a, b})
  BY <1>b DEF BothSent
<1>5. PICK l \in 1..Len(frames) :
        /\ frames[l] = b /\ \A k \in 1..Len(frames) : frames[k] = b => k = l
        /\ \A k \in 1..Len(frames) : frames[k] \in {a, b}
        /\ \A k, m \in 1..Len(frames) : frames[k] = a /\ frames[m] = a => k = m
  BY <1>b DEF BothSent
<1>6. Joins(frames) /\ stage \notin Ended
  BY <1>1, <1>2, <1>4, SendJoins
<1>7. UNCHANGED <<stage, asked, enabled, limits, turn, tainted>>
  BY <1>2 DEF client, server
<1>8. RequestInv /\ SkillsInv
  BY <1>6, OpenParts
<1>9. RequestInv'
  <2>1. request # "none" /\ request' = "none" /\ request \in StagesOf(frames[l].kind)
    BY <1>2, <1>3, <1>5, StagesAre
  <2>2. \A k \in 1..Len(frames) : frames[k].kind \in Responses => k = l
    BY <1>3, <1>5 DEF Responses
  <2>3. QED
    BY <1>6, <1>7, <1>8, <2>1, <2>2, JoinResponse
<1>10. SkillsInv'
  <2>1. \A k \in 1..Len(frames) : frames[k].kind # "skills"
    BY <1>3, <1>5
  <2>2. QED
    BY <1>6, <1>7, <1>8, <2>1, JoinSkills
<1>11. \A h \in {a, b} : /\ Fine(h) /\ OnlyOwn(h)
                         /\ \A kind \in {"message", "usage", "completed"} : ~IsOwn(h, kind)
                         /\ h.kind \notin {"turn_started", "item", "status", "page"}
  BY <1>3 DEF Fine, OnlyOwn, IsOwn, Kinds, Responses, Notifications, ScopedKinds
<1>12. \A k \in 1..Len(frames) : frames[k].kind = "thread_started" =>
         \A m \in 1..Len(frames) : frames[m].kind = "thread_started" => m = k
  BY <1>3, <1>5
<1>13. enabled' \subseteq Skills /\ tainted' \in BOOLEAN /\ deviations' \in Nat
  BY <1>2, <1>7 DEF TypeOK
<1>14. UNCHANGED <<client, turn>> /\ (deviations' = 0 => deviations = 0)
       /\ request # "turn" /\ tainted' = tainted
  BY <1>2, <1>7
<1>15. QED
  BY <1>1, <1>2, <1>4, <1>5, <1>9, <1>10, <1>11, <1>12, <1>13, <1>14, QuietKeeps


\* The turn begins, and whoever enabled a skill since the second listing was told of.
LEMMA AnswerTurnKeeps == ASSUME IInv, AnswerTurn PROVE IInv'
<1> DEFINE a == Own("turn_started", "none")
           b == Response("turn", "own")
<1>1. PICK frames \in EitherOrder(a, b) : Send(frames)
  BY DEF AnswerTurn
<1>2. /\ TypeOK /\ UNCHANGED <<client, enabled, limits, deviations>> /\ request' = "none"
      /\ request = "turn" /\ turn' = [turn EXCEPT !.state = "running"] /\ tainted' = (enabled # {})
  BY DEF IInv, AnswerTurn, Answers, counts
<1>3. /\ a.kind = "turn_started" /\ a.thread = "own" /\ a.turn = "own"
      /\ b.kind = "turn" /\ b.body = "own"
  BY DEF Own, Scoped, Response
<1> HIDE DEF a, b
<1>a. a # b
  BY <1>3
<1>b. BothSent(frames, a, b)
  BY <1>1, <1>a, EitherIs
<1>4. frames \in Seq({a, b})
  BY <1>b DEF BothSent
<1>5. PICK l \in 1..Len(frames) :
        /\ frames[l] = b /\ \A k \in 1..Len(frames) : frames[k] = b => k = l
        /\ \A k \in 1..Len(frames) : frames[k] \in {a, b}
        /\ \A k, m \in 1..Len(frames) : frames[k] = a /\ frames[m] = a => k = m
  BY <1>b DEF BothSent
<1>6. Joins(frames) /\ stage \notin Ended
  BY <1>1, <1>2, <1>4, SendJoins
<1>7. UNCHANGED <<stage, asked, listing, id, messages, usage>>
  BY <1>2 DEF client
<1>8. /\ FramesInv /\ RequestInv /\ TurnInv /\ EndInv /\ SpokenInv /\ HeardInv
      /\ UsageInv /\ FinalInv /\ SkillsInv /\ AwaitedInv
      /\ deviations = 0 =>
           (\A i \in Places : OnlyOwn(channel[i])) /\ AnnouncedInv /\ OrderInv /\ PagesInv
  BY <1>6, OpenParts
<1>9. /\ turn' \in [state : {"none", "running", "ended"}, said : Seq(Message), tokens : Nat]
      /\ turn'.state = "running" /\ turn'.said = turn.said /\ turn'.tokens = turn.tokens
  BY <1>2 DEF TypeOK
<1>10. stage = "turn" /\ asked /\ turn.state = "none"
  BY <1>2, <1>8 DEF RequestInv, TurnInv, Unborn
<1>11. \A h \in {a, b} : /\ Fine(h) /\ OnlyOwn(h)
                         /\ h.kind \notin {"message", "usage", "completed", "item", "status", "page",
                                           "thread_started", "skills"}
  BY <1>3 DEF Fine, OnlyOwn, Kinds, Responses, Notifications, ScopedKinds
<1>12. \A k \in 1..Len(frames) : ~IsOwn(frames[k], "message") /\ ~IsOwn(frames[k], "usage")
                                 /\ ~IsOwn(frames[k], "completed")
  BY <1>5, <1>11 DEF IsOwn
<1>13. RequestInv'
  <2>1. request # "none" /\ request' = "none" /\ request \in StagesOf(frames[l].kind)
    BY <1>2, <1>3, <1>5, StagesAre
  <2>2. \A k \in 1..Len(frames) : frames[k].kind \in Responses => k = l
    BY <1>3, <1>5 DEF Responses
  <2>3. QED
    BY <1>6, <1>7, <1>8, <2>1, <2>2, JoinResponse
<1>14. AwaitedInv'
  <2>1. Len(channel) + l \in Places' /\ channel'[Len(channel) + l] = b
    BY <1>5, <1>6, JoinPlaces
  <2>2. QED
    BY <1>3, <2>1 DEF AwaitedInv
<1>15. TurnInv'
  <2>1. ~Unborn'
    BY <1>2, <1>7, <1>10 DEF Unborn, Early
  <2>2. stage \notin Turning /\ stage # "after"
    BY <1>10 DEF Turning
  <2>3. QED
    BY <1>7, <1>8, <1>9, <1>10, <2>1, <2>2 DEF TurnInv
<1>16. EndInv'
  BY <1>6, <1>7, <1>8, <1>10, <1>12, JoinEnd
<1>17. SpokenInv'
  <2>1. \A k \in DOMAIN turn'.said : turn'.said[k].key = k
    BY <1>8, <1>9 DEF SpokenInv
  <2>2. QED
    BY <1>6, <1>8, <1>9, <1>12, <2>1, JoinSpoken
<1>18. HeardInv' /\ UsageInv'
  <2>1. Repeats(frames, "message") /\ Repeats(frames, "usage")
    BY <1>12 DEF Repeats
  <2>2. QED
    BY <1>2, <1>6, <1>7, <1>8, <1>9, <2>1, JoinHeard, JoinUsage
<1>19. SkillsInv'
  <2>1. ASSUME enabled # {}
        PROVE  \E i \in Places' : /\ channel'[i].kind = "skills_changed"
                                  /\ \A j \in Places' : i < j => channel'[j].kind # "skills"
                                  /\ \A j \in Places' : j < i => ~IsOwn(channel'[j], "completed")
    <3>0. /\ Places \subseteq Nat /\ Places' \subseteq Nat
          /\ \A i \in Places : i \in Places' /\ channel'[i] = channel[i]
          /\ \A i \in Places' : i \in Places \/ \E k \in 1..Len(frames) : channel'[i] = frames[k]
      BY <1>6, JoinPlaces
    <3>1. Listed
      BY <1>10 DEF Listed
    <3>2. PICK i \in Places : /\ channel[i].kind = "skills_changed"
                              /\ \A j \in Places : i < j => channel[j].kind # "skills"
      BY <1>8, <2>1, <3>1 DEF SkillsInv
    <3>3. \A j \in Places' : i < j => channel'[j].kind # "skills"
      BY <1>5, <1>11, <3>0, <3>2
    <3>4. \A j \in Places : ~IsOwn(channel[j], "completed")
      BY <1>8, <1>10 DEF TurnInv
    <3>5. \A j \in Places' : ~IsOwn(channel'[j], "completed")
      BY <1>12, <3>0, <3>4
    <3>6. QED
      BY <3>0, <3>2, <3>3, <3>5
  <2>2. ASSUME enabled' # {}
        PROVE  \E i \in Places' : /\ channel'[i].kind = "skills_changed"
                                  /\ \A j \in Places' : i < j => channel'[j].kind # "skills"
    BY <1>2, <2>1, <2>2
  <2>3. ASSUME tainted'
        PROVE  \E i \in Places' : /\ channel'[i].kind = "skills_changed"
                                  /\ \A j \in Places' : j < i => ~IsOwn(channel'[j], "completed")
    BY <1>2, <2>1, <2>3
  <2>4. QED
    BY <2>2, <2>3 DEF SkillsInv
<1>20. ASSUME deviations' = 0
       PROVE  /\ deviations = 0 /\ \A k \in 1..Len(frames) : OnlyOwn(frames[k])
              /\ AnnouncedInv' /\ OrderInv' /\ PagesInv'
  <2>0. deviations = 0
    BY <1>2, <1>20
  <2>1. AnnouncedInv'
    <3>1. ~ThreadUnborn'
      BY <1>7, <1>10 DEF ThreadUnborn, Early
    <3>2. /\ id.announced_turn = "none" /\ turn'.state # "none"
          /\ \A i \in Places : channel[i].kind # "turn_started"
      BY <1>8, <1>9, <1>10, <2>0 DEF AnnouncedInv
    <3>3. \A k \in 1..Len(frames) : frames[k].kind # "thread_started"
      BY <1>5, <1>11
    <3>4. \A k, m \in 1..Len(frames) :
            frames[k].kind = "turn_started" /\ frames[m].kind = "turn_started" => m = k
      BY <1>3, <1>5
    <3>5. QED
      BY <1>6, <1>7, <1>8, <2>0, <3>1, <3>2, <3>3, <3>4, JoinAnnounced
  <2>2. OrderInv'
    <3>1. \A k \in 1..Len(frames) :
            frames[k].kind \notin {"message", "usage", "completed", "item", "status"}
      BY <1>5, <1>11
    <3>2. OrderInv /\ Len(turn'.said) <= MaxMessages
      BY <1>8, <1>9, <2>0 DEF OrderInv
    <3>3. QED
      BY <1>6, <1>7, <1>9, <3>1, <3>2, JoinOrder
  <2>3. PagesInv'
    BY <1>5, <1>6, <1>7, <1>8, <1>11, <2>0, JoinPages
  <2>4. QED
    BY <1>5, <1>11, <2>0, <2>1, <2>2, <2>3
<1>21. request' \in Requests \cup {"none"} /\ enabled' \subseteq Skills /\ tainted' \in BOOLEAN
       /\ deviations' \in Nat /\ stage # "after"
  BY <1>2, <1>10 DEF TypeOK
<1>22. \A k \in 1..Len(frames) : Fine(frames[k])
  BY <1>5, <1>11
<1>23. QED
  BY <1>1, <1>2, <1>4, <1>9, <1>13, <1>14, <1>15, <1>16, <1>17, <1>18, <1>19, <1>20, <1>21, <1>22,
     SendKeeps

\* Items, and changes of limits, are told whenever they happen.
LEMMA WorkKeeps == ASSUME IInv, Work \/ ChangeLimits PROVE IInv'
<1>1. TypeOK
  BY DEF IInv
<1>2. ASSUME NEW f, Send(<<f>>), UNCHANGED <<client, turn, enabled, tainted, request, deviations>>,
             \/ f.kind \in {"item", "status"} /\ f.thread = "own" /\ f.turn = "own" /\ turn.state = "running"
             \/ f.kind = "limits_updated"
      PROVE  IInv'
  <2>1. <<f>> \in Seq({f}) /\ Len(<<f>>) = 1 /\ \A k \in 1..Len(<<f>>) : k = 1 /\ <<f>>[k] = f
    BY OneFrame
  <2>2. Joins(<<f>>) /\ stage \notin Ended
    BY <1>1, <1>2, <2>1, SendJoins
  <2>3. UNCHANGED <<stage, asked, request>>
    BY <1>2 DEF client
  <2>4. RequestInv /\ SkillsInv
    BY <2>2, OpenParts
  <2>5. f.kind \notin Responses /\ f.kind # "skills"
    BY <1>2 DEF Responses
  <2>6. RequestInv' /\ SkillsInv'
    BY <1>2, <2>1, <2>2, <2>3, <2>4, <2>5, JoinRequest, JoinSkills
  <2>7. Fine(f) /\ OnlyOwn(f) /\ \A kind \in {"message", "usage", "completed"} : ~IsOwn(f, kind)
    BY <1>2 DEF Fine, OnlyOwn, IsOwn, Kinds, Notifications, ScopedKinds
  <2>8. enabled' \subseteq Skills /\ tainted' \in BOOLEAN /\ deviations' \in Nat
    BY <1>1, <1>2 DEF TypeOK
  <2>9. f.kind \notin {"turn_started", "thread_started", "page"}
        /\ (f.kind \in {"item", "status"} => turn.state = "running")
    BY <1>2
  <2>10. UNCHANGED <<client, turn>> /\ request' = request /\ tainted' = tainted
         /\ (deviations' = 0 => deviations = 0)
    BY <1>2
  <2>11. QED
    BY <1>2, <2>1, <2>6, <2>7, <2>8, <2>9, <2>10, QuietKeeps
<1>3. CASE Work
  <2>1. PICK f \in {Own("item", "none"), Own("status", "none")} : Send(<<f>>)
    BY <1>3 DEF Work
  <2>2. UNCHANGED <<client, turn, enabled, tainted, request, deviations>> /\ turn.state = "running"
    BY <1>3 DEF Work, Running, counts
  <2>3. f.kind \in {"item", "status"} /\ f.thread = "own" /\ f.turn = "own"
    BY DEF Own, Scoped
  <2>4. QED
    BY <1>2, <2>1, <2>2, <2>3
<1>4. CASE ChangeLimits
  <2>1. \E f : Send(<<f>>) /\ f.kind = "limits_updated"
    BY <1>4 DEF ChangeLimits
  <2>2. UNCHANGED <<client, turn, enabled, tainted, request, deviations>>
    BY <1>4 DEF ChangeLimits
  <2>3. QED
    BY <1>2, <2>1, <2>2
<1>5. QED
  BY <1>3, <1>4

\* A change of a skill is told of at once: behind what is on its way, and before the end of
\* the turn.
LEMMA ChangeSkillKeeps == ASSUME IInv, ChangeSkill PROVE IInv'
<1> DEFINE f == [kind |-> "skills_changed"]
<1>1. /\ TypeOK /\ Send(<<f>>) /\ UNCHANGED <<client, request, turn, deviations>>
      /\ tainted' = (tainted \/ (turn.state = "running" /\ enabled' # {}))
      /\ \E s \in Skills : enabled' = IF s \in enabled THEN enabled \ {s} ELSE enabled \cup {s}
  BY DEF IInv, ChangeSkill
<1>2. f.kind = "skills_changed"
  OBVIOUS
<1> HIDE DEF f
<1>3. <<f>> \in Seq({f}) /\ Len(<<f>>) = 1 /\ \A k \in 1..Len(<<f>>) : k = 1 /\ <<f>>[k] = f
  BY OneFrame
<1>4. Joins(<<f>>) /\ stage \notin Ended
  BY <1>1, <1>3, SendJoins
<1>5. UNCHANGED <<stage, asked, request, turn>>
  BY <1>1 DEF client
<1>6. RequestInv /\ SkillsInv /\ EndInv
  BY <1>4, OpenParts
<1>7. f.kind \notin Responses
  BY <1>2 DEF Responses
<1>8. RequestInv'
  BY <1>3, <1>4, <1>5, <1>6, <1>7, JoinRequest
<1>9. SkillsInv'
  <2>0. /\ Places \subseteq Nat /\ Places' \subseteq Nat /\ Len(channel) \in Nat
        /\ \A i \in Places : i \in Places' /\ channel'[i] = channel[i] /\ i <= Len(channel)
        /\ \A i \in Places' : i \in Places \/
             (i > Len(channel) /\ \E k \in 1..Len(<<f>>) : i = Len(channel) + k /\ channel'[i] = <<f>>[k])
        /\ \A k \in 1..Len(<<f>>) : Len(channel) + k \in Places' /\ channel'[Len(channel) + k] = <<f>>[k]
    BY <1>4, JoinPlaces DEF Joins
  <2> DEFINE new == Len(channel) + 1
  <2>1. new \in Places' /\ channel'[new] = f
    BY <1>3, <2>0
  <2>2. \A j \in Places' : ~(new < j)
    BY <1>3, <2>0
  <2>3. ASSUME enabled' # {}
        PROVE  \E i \in Places' : /\ channel'[i].kind = "skills_changed"
                                  /\ \A j \in Places' : i < j => channel'[j].kind # "skills"
    BY <1>2, <2>1, <2>2
  <2>4. ASSUME stage' \in {"turn", "wait"}, tainted'
        PROVE  \E i \in Places' : /\ channel'[i].kind = "skills_changed"
                                  /\ \A j \in Places' : j < i => ~IsOwn(channel'[j], "completed")
    <3>1. CASE tainted
      <4>1. PICK i \in Places : /\ channel[i].kind = "skills_changed"
                                /\ \A j \in Places : j < i => ~IsOwn(channel[j], "completed")
        BY <1>5, <1>6, <2>4, <3>1 DEF SkillsInv
      <4>2. ASSUME NEW j \in Places', j < i PROVE ~IsOwn(channel'[j], "completed")
        <5>1. j \in Places
          BY <2>0, <4>1, <4>2
        <5>2. QED
          BY <2>0, <4>1, <4>2, <5>1
      <4>3. QED
        BY <2>0, <4>1, <4>2
    <3>2. CASE turn.state = "running"
      <4>1. \A j \in Places : ~IsOwn(channel[j], "completed")
        BY <1>6, <3>2 DEF EndInv
      <4>2. \A j \in Places' : ~IsOwn(channel'[j], "completed")
        BY <1>2, <1>3, <2>0, <4>1 DEF IsOwn
      <4>3. QED
        BY <1>2, <2>1, <4>2
    <3>3. QED
      BY <1>1, <2>4, <3>1, <3>2
  <2>5. QED
    BY <2>3, <2>4 DEF SkillsInv
<1>10. Fine(f) /\ OnlyOwn(f) /\ \A kind \in {"message", "usage", "completed"} : ~IsOwn(f, kind)
  BY <1>2 DEF Fine, OnlyOwn, IsOwn, Kinds, Notifications, ScopedKinds
<1>11. enabled' \subseteq Skills
  BY <1>1 DEF TypeOK
<1>12. tainted' \in BOOLEAN /\ deviations' \in Nat /\ (tainted' = tainted \/ turn.state = "running")
  BY <1>1 DEF TypeOK
<1>13. f.kind \notin {"turn_started", "thread_started", "page", "item", "status"}
  BY <1>2
<1>14. UNCHANGED <<client, turn>> /\ request' = request /\ (deviations' = 0 => deviations = 0)
  BY <1>1
<1>15. QED
  BY <1>1, <1>3, <1>8, <1>9, <1>10, <1>11, <1>12, <1>13, <1>14, QuietKeeps


\* The turn ends behind all that it has said.
LEMMA EndTurnKeeps == ASSUME IInv, EndTurn PROVE IInv'
<1>1. PICK body : Send(<<Own("completed", body)>>)
  BY DEF EndTurn
<1> DEFINE f == Own("completed", body)
<1>2. /\ TypeOK /\ Send(<<f>>) /\ UNCHANGED <<client, request, enabled, limits, tainted, deviations>>
      /\ turn.state = "running" /\ turn' = [turn EXCEPT !.state = "ended"]
  BY <1>1 DEF IInv, EndTurn, Running, counts
<1>3. f.kind = "completed" /\ f.thread = "own" /\ f.turn = "own"
  BY DEF Own, Scoped
<1> HIDE DEF f
<1>4. <<f>> \in Seq({f}) /\ Len(<<f>>) = 1 /\ \A k \in 1..Len(<<f>>) : k = 1 /\ <<f>>[k] = f
  BY OneFrame
<1>5. Joins(<<f>>) /\ stage \notin Ended
  BY <1>2, <1>4, SendJoins
<1>6. UNCHANGED <<stage, asked, listing, id, messages, usage, request, enabled, tainted>>
  BY <1>2 DEF client
<1>7. /\ FramesInv /\ RequestInv /\ TurnInv /\ EndInv /\ SpokenInv /\ HeardInv
      /\ UsageInv /\ FinalInv /\ SkillsInv /\ AwaitedInv
      /\ deviations = 0 =>
           (\A i \in Places : OnlyOwn(channel[i])) /\ AnnouncedInv /\ OrderInv /\ PagesInv
  BY <1>5, OpenParts
<1>8. /\ turn' \in [state : {"none", "running", "ended"}, said : Seq(Message), tokens : Nat]
      /\ turn'.state = "ended" /\ turn'.said = turn.said /\ turn'.tokens = turn.tokens
  BY <1>2 DEF TypeOK
<1>9. Fine(f) /\ OnlyOwn(f) /\ f.kind \notin Responses \cup {"skills", "thread_started", "turn_started", "page", "message"}
      /\ ~IsOwn(f, "message") /\ ~IsOwn(f, "usage")
  BY <1>3 DEF Fine, OnlyOwn, Kinds, Responses, Notifications, ScopedKinds, IsOwn
<1>10. RequestInv' /\ SkillsInv'
  BY <1>4, <1>5, <1>6, <1>7, <1>9, JoinRequest, JoinSkills
<1>11. AwaitedInv'
  BY <1>5, <1>6, <1>7, JoinAwaited
<1>12. TurnInv'
  <2>1. Unborn' <=> Unborn
    BY <1>6 DEF Unborn
  <2>2. QED
    BY <1>2, <1>5, <1>6, <1>7, <1>8, <2>1, JoinTurn
<1>13. EndInv'
  BY <1>4, <1>5, <1>6, <1>7, <1>8, <1>9, JoinEnd
<1>14. SpokenInv'
  <2>1. \A k \in DOMAIN turn'.said : turn'.said[k].key = k
    BY <1>7, <1>8 DEF SpokenInv
  <2>2. QED
    BY <1>4, <1>5, <1>7, <1>8, <1>9, <2>1, JoinSpoken
<1>15. HeardInv' /\ UsageInv'
  <2>1. Repeats(<<f>>, "message") /\ Repeats(<<f>>, "usage")
    BY <1>4, <1>9 DEF Repeats
  <2>2. QED
    BY <1>2, <1>5, <1>6, <1>7, <1>8, <2>1, JoinHeard, JoinUsage
<1>16. ASSUME deviations' = 0
       PROVE  /\ deviations = 0 /\ \A k \in 1..Len(<<f>>) : OnlyOwn(<<f>>[k])
              /\ AnnouncedInv' /\ OrderInv' /\ PagesInv'
  <2>0. deviations = 0
    BY <1>2, <1>16
  <2>1. AnnouncedInv'
    <3>1. ThreadUnborn' => ThreadUnborn
      BY <1>6 DEF ThreadUnborn
    <3>2. turn'.state # "none"
      BY <1>8
    <3>3. \A k \in 1..Len(<<f>>) : <<f>>[k].kind \notin {"thread_started", "turn_started"}
      BY <1>4, <1>9
    <3>4. QED
      BY <1>5, <1>6, <1>7, <2>0, <3>1, <3>2, <3>3, JoinAnnounced
  <2>2. OrderInv'
    <3>1. OrderInv /\ Len(turn'.said) <= MaxMessages
      BY <1>7, <1>8, <2>0 DEF OrderInv
    <3>2. stage # "after"
      BY <1>2, <1>7 DEF TurnInv
    <3>3. \A i \in Places : channel[i].kind # "completed"
      <4>1. SUFFICES ASSUME NEW i \in Places, channel[i].kind = "completed" PROVE FALSE
        OBVIOUS
      <4>2. IsOwn(channel[i], "completed")
        BY <1>7, <2>0, <4>1 DEF OnlyOwn, ScopedKinds, IsOwn
      <4>3. QED
        BY <1>2, <1>7, <4>2 DEF EndInv
    <3>4. turn'.state # "none" /\ (id.turn = "own" \/ \E i \in Places : channel[i].kind = "turn")
      BY <1>2, <1>5, <1>7, <1>8, RunningInScope
    <3>5. \A k \in 1..Len(<<f>>) : k = 1 /\ <<f>>[k].kind = "completed"
      BY <1>3, <1>4
    <3>6. QED
      BY <1>4, <1>5, <1>6, <3>1, <3>2, <3>3, <3>4, <3>5, JoinOrder
  <2>3. PagesInv'
    BY <1>4, <1>5, <1>6, <1>7, <1>9, <2>0, JoinPages
  <2>4. QED
    BY <1>4, <1>9, <2>0, <2>1, <2>2, <2>3
<1>17. request' \in Requests \cup {"none"} /\ enabled' \subseteq Skills /\ tainted' \in BOOLEAN
       /\ deviations' \in Nat /\ (stage = "after" => tainted' = tainted)
  BY <1>2, <1>6 DEF TypeOK
<1>18. \A k \in 1..Len(<<f>>) : Fine(<<f>>[k])
  BY <1>4, <1>9
<1>19. UNCHANGED client
  BY <1>2
<1>20. QED
  BY <1>2, <1>4, <1>8, <1>10, <1>11, <1>12, <1>13, <1>14, <1>15, <1>16, <1>17, <1>18, <1>19,
     SendKeeps

\* A frame that comes twice.
LEMMA RepeatKeeps ==
  ASSUME IInv, channel # <<>>, Last(channel).kind \in Notifications, Send(<<Last(channel)>>),
         UNCHANGED <<client, request, server>>, deviations' = deviations + 1
  PROVE  IInv'
<1> DEFINE f == Last(channel)
           last == Len(channel)
<1>1. TypeOK /\ Send(<<f>>)
  BY DEF IInv
<1>2. <<f>> \in Seq({f}) /\ Len(<<f>>) = 1 /\ \A k \in 1..Len(<<f>>) : k = 1 /\ <<f>>[k] = f
  BY OneFrame
<1>3. Joins(<<f>>) /\ stage \notin Ended
  BY <1>1, <1>2, SendJoins
<1>4. last \in Places /\ f = channel[last] /\ last \in Nat /\ \A i \in Places : i \in Nat /\ i <= last
  BY <1>1 DEF TypeOK, Last, Places
<1>5. UNCHANGED <<stage, asked, listing, id, messages, usage, request, enabled, turn, tainted>>
  BY DEF client, server
<1>6. /\ FramesInv /\ RequestInv /\ TurnInv /\ EndInv /\ SpokenInv /\ HeardInv
      /\ UsageInv /\ FinalInv /\ SkillsInv /\ AwaitedInv
  BY <1>3, OpenParts
<1>7. Fine(f) /\ f.kind \notin Responses /\ f.kind # "skills"
  BY <1>4, <1>6 DEF FramesInv, Notifications, Responses
<1>8. f.kind \in Notifications
  OBVIOUS
<1> HIDE DEF f
<1>9. RequestInv' /\ SkillsInv'
  BY <1>2, <1>3, <1>5, <1>6, <1>7, JoinRequest, JoinSkills
<1>10. AwaitedInv'
  BY <1>3, <1>5, <1>6, JoinAwaited
<1>11. TurnInv'
  <2>1. Unborn' <=> Unborn
    BY <1>5 DEF Unborn
  <2>2. IsOwn(f, "completed") => turn.state # "none"
    BY <1>4, <1>6 DEF TurnInv
  <2>3. stage = "after" => turn'.state = "ended"
    BY <1>5, <1>6 DEF TurnInv
  <2>4. turn.state = "none" => ~tainted'
    BY <1>5, <1>6 DEF TurnInv
  <2>5. QED
    BY <1>2, <1>3, <1>5, <1>6, <2>1, <2>2, <2>3, <2>4, JoinTurn
<1>12. EndInv'
  <2>1. IsOwn(f, "completed") =>
          turn'.state = "ended" /\ ~IsOwn(f, "message") /\ ~IsOwn(f, "usage")
    BY <1>4, <1>5, <1>6 DEF EndInv, IsOwn
  <2>2. ASSUME IsOwn(f, "message") \/ IsOwn(f, "usage")
        PROVE  stage # "after" /\ \A i \in Places : ~IsOwn(channel[i], "completed")
    <3>1. stage # "after"
      BY <1>4, <1>6, <2>2 DEF EndInv
    <3>2. ASSUME NEW i \in Places, IsOwn(channel[i], "completed") PROVE FALSE
      <4>1. last < i
        BY <1>4, <1>6, <2>2, <3>2 DEF EndInv
      <4>2. QED
        BY <1>4, <4>1
    <3>3. QED
      BY <3>1, <3>2
  <2>3. QED
    BY <1>2, <1>3, <1>5, <1>6, <2>1, <2>2, JoinEnd
<1>13. SpokenInv'
  <2>1. \A k \in DOMAIN turn'.said : turn'.said[k].key = k
    BY <1>5, <1>6 DEF SpokenInv
  <2>2. IsOwn(f, "message") => f.body.key \in DOMAIN turn.said /\ f.body = turn.said[f.body.key]
    BY <1>4, <1>6 DEF SpokenInv
  <2>3. QED
    BY <1>2, <1>3, <1>5, <1>6, <2>1, <2>2, JoinSpoken
<1>14. HeardInv' /\ UsageInv'
  <2>1. Repeats(<<f>>, "message") /\ Repeats(<<f>>, "usage")
    BY <1>2, <1>4 DEF Repeats
  <2>2. QED
    BY <1>1, <1>3, <1>5, <1>6, <2>1, JoinHeard, JoinUsage
<1>15. deviations' \in Nat /\ deviations' # 0
  BY <1>1 DEF TypeOK
<1>16. request' \in Requests \cup {"none"} /\ enabled' \subseteq Skills /\ tainted' \in BOOLEAN
       /\ (stage = "after" => tainted' = tainted)
       /\ turn' \in [state : {"none", "running", "ended"}, said : Seq(Message), tokens : Nat]
  BY <1>1, <1>5 DEF TypeOK
<1>17. \A k \in 1..Len(<<f>>) : Fine(<<f>>[k])
  BY <1>2, <1>7
<1>18. UNCHANGED client
  OBVIOUS
<1>19. QED
  BY <1>1, <1>2, <1>9, <1>10, <1>11, <1>12, <1>13, <1>14, <1>15, <1>16, <1>17, <1>18, SendKeeps

\* A frame that is not the turn's.
LEMMA DeviateKeeps == ASSUME IInv, Deviate PROVE IInv'
<1>1. UNCHANGED <<client, request, server>> /\ deviations' = deviations + 1
  BY DEF Deviate
<1>2. TypeOK
  BY DEF IInv
<1>3. CASE channel # <<>> /\ Last(channel).kind \in Notifications /\ Send(<<Last(channel)>>)
  BY <1>1, <1>3, RepeatKeeps
<1>4. CASE \E f \in Foreign \cup {[kind |-> "forbidden"], [kind |-> "refusal"]} : Send(<<f>>)
  <2>1. PICK f \in Foreign \cup {[kind |-> "forbidden"], [kind |-> "refusal"]} : Send(<<f>>)
    BY <1>4
  <2>2. Fine(f) /\ \A kind \in {"message", "usage", "completed"} : ~IsOwn(f, kind)
    <3>1. CASE f \in {[kind |-> "forbidden"], [kind |-> "refusal"]}
      BY <3>1 DEF Fine, IsOwn, Kinds, ScopedKinds
    <3>2. CASE f = Scoped("message", "own", "other", [key |-> 9, phase |-> "final_answer"])
      <4>1. [key |-> 9, phase |-> "final_answer"] \in Message
        BY DEF Message, Phases
      <4>2. QED
        BY <3>2, <4>1 DEF Fine, IsOwn, Kinds, ScopedKinds, Notifications, Scoped
    <3>3. CASE f = Scoped("completed", "own", "other",
                          [status |-> "completed", view |-> "notLoaded", items |-> <<>>])
      BY <3>3 DEF Fine, IsOwn, Kinds, ScopedKinds, Notifications, Scoped
    <3>4. CASE f = Scoped("thread_started", "other", "other", "none")
      BY <3>4 DEF Fine, IsOwn, Kinds, ScopedKinds, Notifications, Scoped
    <3>5. CASE \E k \in {"usage", "item", "turn_started"}, th \in {"own", "other"} :
                 f = Scoped(k, th, "other", 9)
      BY <3>5 DEF Fine, IsOwn, Kinds, ScopedKinds, Notifications, Scoped
    <3>6. QED
      BY <3>1, <3>2, <3>3, <3>4, <3>5 DEF Foreign
  <2>3. f.kind \notin Responses /\ f.kind # "skills"
    BY DEF Foreign, Scoped, Responses
  <2>4. <<f>> \in Seq({f}) /\ Len(<<f>>) = 1 /\ \A k \in 1..Len(<<f>>) : k = 1 /\ <<f>>[k] = f
    BY OneFrame
  <2>5. Joins(<<f>>) /\ stage \notin Ended
    BY <1>2, <2>1, <2>4, SendJoins
  <2>6. UNCHANGED <<stage, asked, request, enabled, turn, tainted>>
    BY <1>1 DEF client, server
  <2>7. RequestInv /\ SkillsInv
    BY <2>5, OpenParts
  <2>8. RequestInv' /\ SkillsInv'
    BY <2>3, <2>4, <2>5, <2>6, <2>7, JoinRequest, JoinSkills
  <2>9. enabled' \subseteq Skills /\ tainted' \in BOOLEAN /\ deviations' \in Nat /\ deviations' # 0
    BY <1>1, <1>2, <2>6 DEF TypeOK
  <2>10. UNCHANGED <<client, turn>> /\ request' = request /\ tainted' = tainted
    BY <1>1, <2>6
  <2>11. QED
    BY <2>1, <2>2, <2>4, <2>8, <2>9, <2>10, QuietKeeps
<1>5. QED
  BY <1>3, <1>4 DEF Deviate


\* What is said now comes behind all that is on its way, and is the next thing to hear.
LEMMA SayHeard ==
  ASSUME TypeOK, SpokenInv, HeardInv, NEW frames, Joins(frames), NEW m \in Message,
         m.key = Len(turn.said) + 1, turn'.said = Append(turn.said, m), messages' = messages,
         1 \in 1..Len(frames), IsOwn(frames[1], "message"), frames[1].body = m,
         \A k \in 1..Len(frames) : IsOwn(frames[k], "message") => k = 1
  PROVE  HeardInv'
<1>0. /\ Places \subseteq Nat /\ Places' \subseteq Nat /\ Len(channel) \in Nat
      /\ \A i \in Places : i \in Places' /\ channel'[i] = channel[i] /\ i <= Len(channel)
      /\ \A i \in Places' : i \in Places \/
           (i > Len(channel) /\ \E k \in 1..Len(frames) : i = Len(channel) + k /\ channel'[i] = frames[k])
      /\ \A k \in 1..Len(frames) : Len(channel) + k \in Places' /\ channel'[Len(channel) + k] = frames[k]
  BY JoinPlaces DEF Joins
<1> DEFINE new == Len(channel) + 1
           n   == Len(turn.said)
<1>1. messages \in Seq(Message) /\ turn.said \in Seq(Message) /\ n \in Nat /\ Len(messages) \in Nat
  BY DEF TypeOK
<1>2. /\ Len(turn'.said) = n + 1 /\ turn'.said[n + 1] = m /\ DOMAIN turn'.said = 1..(n + 1)
      /\ \A k \in 1..n : turn'.said[k] = turn.said[k]
      /\ DOMAIN turn.said = 1..n
  BY <1>1
<1>3. CASE Twice
  BY <1>3 DEF HeardInv, Twice
<1>4. CASE ~Twice
  <2>1. Len(messages) <= n /\ \A k \in DOMAIN messages : messages[k] = turn.said[k]
    BY <1>4 DEF HeardInv
  <2>2. Len(messages') <= Len(turn'.said)
    BY <1>1, <1>2, <2>1
  <2>3. ASSUME NEW k \in DOMAIN messages' PROVE messages'[k] = turn'.said[k]
    <3>1. k \in 1..n
      BY <1>1, <2>1
    <3>2. QED
      BY <1>2, <2>1, <3>1
  <2>4. new \in Places' /\ channel'[new] = frames[1] /\ new > Len(channel)
    BY <1>0
  <2>5. \A i \in Places' : IsOwn(channel'[i], "message") => i \in Places \/ i = new
    BY <1>0
  <2>6. \A i \in Places : IsOwn(channel[i], "message") =>
          channel[i].body.key \in 1..n /\ channel[i].body.key < n + 1
    BY <1>1, <1>2 DEF SpokenInv
  <2>7. ASSUME NEW i \in Places', IsOwn(channel'[i], "message")
        PROVE  /\ channel'[i].body.key >= Len(messages')
               /\ \A k \in DOMAIN turn'.said : Len(messages') < k /\ k < channel'[i].body.key =>
                    \E j \in Places' : /\ j < i /\ IsOwn(channel'[j], "message")
                                       /\ channel'[j].body.key = k
               /\ \A j \in Places' : IsOwn(channel'[j], "message") /\ i < j =>
                    channel'[i].body.key <= channel'[j].body.key
    <3>1. CASE i \in Places
      <4>1. channel'[i] = channel[i] /\ channel[i].body.key \in 1..n
        BY <1>0, <2>6, <2>7, <3>1
      <4>2. channel[i].body.key >= Len(messages)
        BY <1>4, <2>7, <3>1, <4>1 DEF HeardInv
      <4>3. ASSUME NEW k \in DOMAIN turn'.said, Len(messages) < k, k < channel[i].body.key
            PROVE  \E j \in Places' : /\ j < i /\ IsOwn(channel'[j], "message")
                                      /\ channel'[j].body.key = k
        <5>1. k \in DOMAIN turn.said
          BY <1>1, <1>2, <4>1, <4>3
        <5>2. \A l \in DOMAIN turn.said : Len(messages) < l /\ l < channel[i].body.key =>
                 \E j \in Places : j < i /\ IsOwn(channel[j], "message") /\ channel[j].body.key = l
          BY <1>4, <2>7, <3>1, <4>1 DEF HeardInv
        <5>3. PICK j \in Places : j < i /\ IsOwn(channel[j], "message") /\ channel[j].body.key = k
          BY <4>3, <5>1, <5>2
        <5>4. QED
          BY <1>0, <5>3
      <4>4. ASSUME NEW j \in Places', IsOwn(channel'[j], "message"), i < j
            PROVE  channel'[i].body.key <= channel'[j].body.key
        <5>1. CASE j \in Places
          BY <1>0, <1>4, <2>7, <3>1, <4>1, <4>4, <5>1 DEF HeardInv
        <5>2. CASE j = new
          <6>1. channel'[j].body.key = n + 1
            BY <2>4, <5>2
          <6>2. QED
            BY <1>1, <4>1, <6>1
        <5>3. QED
          BY <2>5, <4>4, <5>1, <5>2
      <4>5. QED
        BY <4>1, <4>2, <4>3, <4>4
    <3>2. CASE i = new
      <4>1. channel'[i].body.key = n + 1
        BY <2>4, <3>2
      <4>2. channel'[i].body.key >= Len(messages)
        BY <1>1, <2>1, <4>1
      <4>3. ASSUME NEW k \in DOMAIN turn'.said, Len(messages) < k, k < n + 1
            PROVE  \E j \in Places' : /\ j < i /\ IsOwn(channel'[j], "message")
                                      /\ channel'[j].body.key = k
        <5>1. k \in DOMAIN turn.said
          BY <1>1, <1>2, <4>3
        <5>2. PICK j \in Places : IsOwn(channel[j], "message") /\ channel[j].body.key = k
          BY <1>4, <4>3, <5>1 DEF HeardInv
        <5>3. j < i
          BY <1>0, <2>4, <3>2
        <5>4. QED
          BY <1>0, <5>2, <5>3
      <4>4. ASSUME NEW j \in Places', IsOwn(channel'[j], "message") PROVE ~(i < j)
        <5>1. j \in Places \/ j = new
          BY <2>5, <4>4
        <5>2. new \in Nat /\ j \in Nat /\ (j \in Places => j < new)
          BY <1>0
        <5>3. QED
          BY <3>2, <5>1, <5>2
      <4>5. QED
        BY <4>1, <4>2, <4>3, <4>4
    <3>3. QED
      BY <2>5, <2>7, <3>1, <3>2
  <2>8. ASSUME NEW k \in DOMAIN turn'.said, Len(messages') < k
        PROVE  \E i \in Places' : IsOwn(channel'[i], "message") /\ channel'[i].body.key = k
    <3>1. CASE k = n + 1
      BY <2>4, <3>1
    <3>2. CASE k # n + 1
      <4>1. k \in DOMAIN turn.said
        BY <1>1, <1>2, <3>2
      <4>2. PICK i \in Places : IsOwn(channel[i], "message") /\ channel[i].body.key = k
        BY <1>4, <2>8, <4>1 DEF HeardInv
      <4>3. QED
        BY <1>0, <4>2
    <3>3. QED
      BY <3>1, <3>2
  <2>9. QED
    BY <2>2, <2>3, <2>7, <2>8 DEF HeardInv
<1>5. QED
  BY <1>3, <1>4

\* What is told now is more than all that was told.
LEMMA SayUsage ==
  ASSUME TypeOK, FramesInv, UsageInv, NEW frames, Joins(frames),
         turn'.tokens = turn.tokens + 1, usage' = usage,
         2 \in 1..Len(frames), IsOwn(frames[2], "usage"), frames[2].body = turn.tokens + 1,
         \A k \in 1..Len(frames) : IsOwn(frames[k], "usage") => k = 2
  PROVE  UsageInv'
<1>0. /\ Places \subseteq Nat /\ Places' \subseteq Nat /\ Len(channel) \in Nat
      /\ \A i \in Places : i \in Places' /\ channel'[i] = channel[i] /\ i <= Len(channel)
      /\ \A i \in Places' : i \in Places \/
           (i > Len(channel) /\ \E k \in 1..Len(frames) : i = Len(channel) + k /\ channel'[i] = frames[k])
      /\ \A k \in 1..Len(frames) : Len(channel) + k \in Places' /\ channel'[Len(channel) + k] = frames[k]
  BY JoinPlaces DEF Joins
<1> DEFINE new == Len(channel) + 2
<1>1. usage \in Nat /\ turn.tokens \in Nat
  BY DEF TypeOK
<1>2. \A i \in Places : IsOwn(channel[i], "usage") => channel[i].body \in Nat
  BY DEF FramesInv, Fine, IsOwn
<1>3. usage <= turn.tokens
  <2>1. CASE usage = turn.tokens
    BY <1>1, <2>1
  <2>2. CASE \E i \in Places : IsOwn(channel[i], "usage") /\ channel[i].body = turn.tokens
    BY <2>2 DEF UsageInv
  <2>3. QED
    BY <2>1, <2>2 DEF UsageInv
<1>4. new \in Places' /\ channel'[new] = frames[2] /\ new > Len(channel)
  BY <1>0
<1>5. \A i \in Places' : IsOwn(channel'[i], "usage") => i \in Places \/ i = new
  BY <1>0
<1>6. ASSUME NEW i \in Places', IsOwn(channel'[i], "usage")
      PROVE  /\ usage' <= channel'[i].body /\ channel'[i].body <= turn'.tokens
             /\ \A j \in Places' : IsOwn(channel'[j], "usage") /\ i < j =>
                  channel'[i].body <= channel'[j].body
  <2>1. CASE i \in Places
    <3>1. /\ channel'[i] = channel[i] /\ channel[i].body \in Nat
          /\ usage <= channel[i].body /\ channel[i].body <= turn.tokens
      BY <1>0, <1>2, <1>6, <2>1 DEF UsageInv
    <3>2. channel[i].body <= turn.tokens + 1
      BY <1>1, <3>1
    <3>3. ASSUME NEW j \in Places', IsOwn(channel'[j], "usage"), i < j
          PROVE  channel'[i].body <= channel'[j].body
      <4>1. CASE j \in Places
        BY <1>0, <1>6, <2>1, <3>1, <3>3, <4>1 DEF UsageInv
      <4>2. CASE j = new
        BY <1>4, <3>1, <3>2, <4>2
      <4>3. QED
        BY <1>5, <3>3, <4>1, <4>2
    <3>4. QED
      BY <3>1, <3>2, <3>3
  <2>2. CASE i = new
    <3>1. channel'[i].body = turn.tokens + 1
      BY <1>4, <2>2
    <3>2. usage' <= channel'[i].body /\ channel'[i].body <= turn'.tokens
      BY <1>1, <1>3, <3>1
    <3>3. \A j \in Places' : IsOwn(channel'[j], "usage") => ~(i < j)
      BY <1>0, <1>4, <1>5, <2>2
    <3>4. QED
      BY <3>2, <3>3
  <2>3. QED
    BY <1>5, <1>6, <2>1, <2>2
<1>7. \E i \in Places' : IsOwn(channel'[i], "usage") /\ channel'[i].body = turn'.tokens
  BY <1>4
<1>8. QED
  BY <1>6, <1>7 DEF UsageInv

\* The server says something, and may tell of its tokens.
LEMMA SayKeeps == ASSUME IInv, Say PROVE IInv'
<1>1. PICK phase \in Phases :
        LET m == [key |-> Len(turn.said) + 1, phase |-> phase]
            n == turn.tokens + 1
        IN \E tell \in {<<>>, <<Own("usage", n)>>} :
             /\ turn' = [turn EXCEPT !.said = Append(@, m), !.tokens = IF tell = <<>> THEN @ ELSE n]
             /\ Send(<<Own("message", m)>> \o tell)
  BY DEF Say
<1> DEFINE m == [key |-> Len(turn.said) + 1, phase |-> phase]
           a == Own("message", m)
           b == Own("usage", turn.tokens + 1)
<1>2. PICK tell \in {<<>>, <<b>>} :
        /\ turn' = [turn EXCEPT !.said = Append(@, m), !.tokens = IF tell = <<>> THEN @ ELSE turn.tokens + 1]
        /\ Send(<<a>> \o tell)
  BY <1>1
<1> DEFINE frames == <<a>> \o tell
<1>3. /\ TypeOK /\ UNCHANGED <<client, request, enabled, limits, tainted, deviations>>
      /\ turn.state = "running" /\ Len(turn.said) < MaxMessages
  BY DEF IInv, Say, Running, counts
<1>4. turn.said \in Seq(Message) /\ Len(turn.said) \in Nat /\ turn.tokens \in Nat /\ MaxMessages \in Nat
  BY <1>3, BoundsAssumption DEF TypeOK
<1>5. m \in Message /\ m.key = Len(turn.said) + 1
  BY <1>4 DEF Message
<1>6. /\ a.kind = "message" /\ a.thread = "own" /\ a.turn = "own" /\ a.body = m
      /\ b.kind = "usage" /\ b.thread = "own" /\ b.turn = "own" /\ b.body = turn.tokens + 1
  BY DEF Own, Scoped
<1>7. /\ turn'.state = "running" /\ turn'.said = Append(turn.said, m)
      /\ turn'.tokens = (IF tell = <<>> THEN turn.tokens ELSE turn.tokens + 1)
      /\ turn' \in [state : {"none", "running", "ended"}, said : Seq(Message), tokens : Nat]
  <2>1. Append(turn.said, m) \in Seq(Message)
    BY <1>4, <1>5
  <2>2. turn \in [state : {"none", "running", "ended"}, said : Seq(Message), tokens : Nat]
    BY <1>3 DEF TypeOK
  <2> HIDE DEF m
  <2>3. (IF tell = <<>> THEN turn.tokens ELSE turn.tokens + 1) \in Nat
    BY <1>4
  <2>4. QED
    BY <1>2, <1>3, <2>1, <2>2, <2>3
<1>s. Send(frames)
  BY <1>2
<1> HIDE DEF m, a, b
<1>8. /\ frames \in Seq({a, b}) /\ 1 \in 1..Len(frames) /\ frames[1] = a
      /\ \A k \in 1..Len(frames) : (k = 1 /\ frames[k] = a) \/ (k = 2 /\ frames[k] = b /\ tell # <<>>)
      /\ tell # <<>> => 2 \in 1..Len(frames) /\ frames[2] = b
  <2>1. CASE tell = <<>>
    <3>1. frames = <<a>>
      BY <2>1
    <3>2. QED
      BY <2>1, <3>1
  <2>2. CASE tell = <<b>>
    <3> DEFINE both == <<a>> \o <<b>>
    <3>1. /\ both \in Seq({a, b}) /\ Len(both) = 2
          /\ \A k \in 1..Len(both) : (k = 1 /\ both[k] = a) \/ (k = 2 /\ both[k] = b)
      BY FramesJoined
    <3>a. frames = both
      BY <2>2
    <3> HIDE DEF frames, both
    <3>2. /\ frames \in Seq({a, b}) /\ Len(frames) = 2
          /\ \A k \in 1..Len(frames) : (k = 1 /\ frames[k] = a) \/ (k = 2 /\ frames[k] = b)
      BY <3>1, <3>a
    <3>3. tell # <<>>
      BY <2>2
    <3>4. 1 \in 1..Len(frames) /\ 2 \in 1..Len(frames)
      BY <3>2
    <3>5. frames[1] = a /\ frames[2] = b
      BY <3>2, <3>4
    <3>6. QED
      BY <3>2, <3>3, <3>4, <3>5
  <2>3. QED
    BY <2>1, <2>2
<1> HIDE DEF frames
<1>9. Joins(frames) /\ stage \notin Ended
  BY <1>3, <1>8, <1>s, SendJoins
<1>10. UNCHANGED <<stage, asked, listing, id, messages, usage, request, enabled, tainted>>
  BY <1>3 DEF client
<1>11. /\ FramesInv /\ RequestInv /\ TurnInv /\ EndInv /\ SpokenInv /\ HeardInv
       /\ UsageInv /\ FinalInv /\ SkillsInv /\ AwaitedInv
       /\ deviations = 0 =>
            (\A i \in Places : OnlyOwn(channel[i])) /\ AnnouncedInv /\ OrderInv /\ PagesInv
  BY <1>9, OpenParts
<1>12. \A h \in {a, b} : /\ Fine(h) /\ OnlyOwn(h)
                         /\ h.kind \notin Responses \cup {"skills", "thread_started", "turn_started",
                                                          "page", "completed"}
                         /\ ~IsOwn(h, "completed")
  <2>1. turn.tokens + 1 \in Nat
    BY <1>4
  <2>2. QED
    BY <1>5, <1>6, <2>1 DEF Fine, OnlyOwn, Kinds, Responses, Notifications, ScopedKinds, IsOwn
<1>13. \A k \in 1..Len(frames) : frames[k] \in {a, b}
  BY <1>8
<1>14. RequestInv' /\ SkillsInv'
  BY <1>9, <1>10, <1>11, <1>12, <1>13, JoinRequest, JoinSkills
<1>15. AwaitedInv'
  BY <1>9, <1>10, <1>11, JoinAwaited
<1>16. TurnInv'
  <2>1. Unborn' <=> Unborn
    BY <1>10 DEF Unborn
  <2>2. stage # "after"
    BY <1>3, <1>11 DEF TurnInv
  <2>3. turn.state # "none" /\ turn'.state # "none"
    BY <1>3, <1>7
  <2>4. QED
    BY <1>9, <1>10, <1>11, <1>12, <1>13, <2>1, <2>2, <2>3, JoinTurn
<1>17. EndInv'
  <2>1. stage # "after" /\ \A i \in Places : ~IsOwn(channel[i], "completed")
    BY <1>3, <1>11 DEF TurnInv, EndInv
  <2>2. turn.state # "ended"
    BY <1>3
  <2>3. QED
    BY <1>9, <1>10, <1>11, <1>12, <1>13, <2>1, <2>2, JoinEnd
<1>18. SpokenInv'
  <2>1. /\ \A k \in DOMAIN turn.said : k \in DOMAIN turn'.said /\ turn'.said[k] = turn.said[k]
        /\ DOMAIN turn'.said = 1..(Len(turn.said) + 1) /\ turn'.said[Len(turn.said) + 1] = m
        /\ DOMAIN turn.said = 1..Len(turn.said)
    BY <1>4, <1>5, <1>7
  <2>2. ASSUME NEW k \in DOMAIN turn'.said PROVE turn'.said[k].key = k
    <3>1. CASE k = Len(turn.said) + 1
      BY <1>5, <2>1, <3>1
    <3>2. CASE k # Len(turn.said) + 1
      <4>1. k \in DOMAIN turn.said
        BY <1>4, <2>1, <3>2
      <4>2. QED
        BY <1>11, <2>1, <4>1 DEF SpokenInv
    <3>3. QED
      BY <3>1, <3>2
  <2>3. ASSUME NEW k \in 1..Len(frames), IsOwn(frames[k], "message")
        PROVE  frames[k].body.key \in DOMAIN turn'.said /\ frames[k].body = turn'.said[frames[k].body.key]
    <3>1. frames[k].body = m
      BY <1>6, <1>8, <2>3 DEF IsOwn
    <3>2. m.key \in DOMAIN turn'.said
      BY <1>4, <1>5, <2>1
    <3>3. QED
      BY <1>5, <2>1, <3>1, <3>2
  <2>4. QED
    BY <1>9, <1>11, <2>1, <2>2, <2>3, JoinSpoken
<1>19. HeardInv'
  <2>1. IsOwn(frames[1], "message") /\ frames[1].body = m
        /\ \A k \in 1..Len(frames) : IsOwn(frames[k], "message") => k = 1
    BY <1>6, <1>8 DEF IsOwn
  <2>2. QED
    BY <1>3, <1>5, <1>7, <1>8, <1>9, <1>10, <1>11, <2>1, SayHeard
<1>20. UsageInv'
  <2>1. CASE tell = <<>>
    <3>1. Repeats(frames, "usage")
      BY <1>6, <1>8, <2>1 DEF Repeats, IsOwn
    <3>2. QED
      BY <1>3, <1>7, <1>9, <1>10, <1>11, <2>1, <3>1, JoinUsage
  <2>2. CASE tell # <<>>
    <3>1. IsOwn(frames[2], "usage") /\ frames[2].body = turn.tokens + 1 /\ 2 \in 1..Len(frames)
          /\ \A k \in 1..Len(frames) : IsOwn(frames[k], "usage") => k = 2
      BY <1>6, <1>8, <2>2 DEF IsOwn
    <3>2. QED
      BY <1>3, <1>7, <1>9, <1>10, <1>11, <2>2, <3>1, SayUsage
  <2>3. QED
    BY <2>1, <2>2
<1>21. ASSUME deviations' = 0
       PROVE  /\ deviations = 0 /\ \A k \in 1..Len(frames) : OnlyOwn(frames[k])
              /\ AnnouncedInv' /\ OrderInv' /\ PagesInv'
  <2>0. deviations = 0
    BY <1>3, <1>21
  <2>1. AnnouncedInv'
    <3>1. ThreadUnborn' => ThreadUnborn
      BY <1>10 DEF ThreadUnborn
    <3>2. turn'.state # "none"
      BY <1>7
    <3>3. \A k \in 1..Len(frames) : frames[k].kind \notin {"thread_started", "turn_started"}
      BY <1>12, <1>13
    <3>4. QED
      BY <1>9, <1>10, <1>11, <2>0, <3>1, <3>2, <3>3, JoinAnnounced
  <2>2. OrderInv'
    <3>1. OrderInv
      BY <1>11, <2>0
    <3>2. Len(turn'.said) <= MaxMessages
      BY <1>3, <1>4, <1>5, <1>7
    <3>3. turn'.state # "none" /\ (id.turn = "own" \/ \E i \in Places : channel[i].kind = "turn")
      BY <1>3, <1>7, <1>9, <1>11, RunningInScope
    <3>4. \A k \in 1..Len(frames) : frames[k].kind # "completed"
      BY <1>12, <1>13
    <3>5. ASSUME NEW k \in 1..Len(frames), frames[k].kind = "message"
          PROVE  /\ Len(messages) < frames[k].body.key
                 /\ \A i \in Places : channel[i].kind = "message" => channel[i].body.key < frames[k].body.key
                 /\ \A l \in 1..Len(frames) : frames[l].kind = "message" => l = k
      <4>1. frames[k].body.key = Len(turn.said) + 1
        BY <1>5, <1>6, <1>8, <3>5
      <4>2. Len(messages) <= Len(turn.said) /\ Len(messages) \in Nat
        BY <1>3, <1>11, <3>1 DEF OrderInv, HeardInv, TypeOK
      <4>3. ASSUME NEW i \in Places, channel[i].kind = "message"
            PROVE  channel[i].body.key < Len(turn.said) + 1
        <5>1. IsOwn(channel[i], "message")
          BY <1>11, <2>0, <4>3 DEF OnlyOwn, ScopedKinds, IsOwn
        <5>2. channel[i].body.key \in DOMAIN turn.said
          BY <1>11, <5>1 DEF SpokenInv
        <5>3. QED
          BY <1>4, <5>2
      <4>4. \A l \in 1..Len(frames) : frames[l].kind = "message" => l = k
        BY <1>6, <1>8, <3>5
      <4>5. QED
        BY <1>4, <4>1, <4>2, <4>3, <4>4
    <3>6. QED
      BY <1>9, <1>10, <3>1, <3>2, <3>3, <3>4, <3>5, JoinOrder
  <2>3. PagesInv'
    BY <1>9, <1>10, <1>11, <1>12, <1>13, <2>0, JoinPages
  <2>4. QED
    BY <1>12, <1>13, <2>0, <2>1, <2>2, <2>3
<1>22. request' \in Requests \cup {"none"} /\ enabled' \subseteq Skills /\ tainted' \in BOOLEAN
       /\ deviations' \in Nat /\ (stage = "after" => tainted' = tainted)
  BY <1>3, <1>10 DEF TypeOK
<1>23. \A k \in 1..Len(frames) : Fine(frames[k])
  BY <1>12, <1>13
<1>24. UNCHANGED client
  BY <1>3
<1>25. QED
  BY <1>7, <1>8, <1>14, <1>15, <1>16, <1>17, <1>18, <1>19, <1>20, <1>21, <1>22, <1>23, <1>24, <1>s,
     SendKeeps

\* What the server does keeps the invariant.
LEMMA ServerKeeps == ASSUME IInv, Server PROVE IInv'
<1>1. CASE AnswerSimple \/ AnswerPage \/ AnswerLimits
  BY <1>1, AnswerEarlyKeeps
<1>2. CASE AnswerSkills \/ AnswerWrite
  BY <1>2, AnswerSkillsKeeps, AnswerWriteKeeps
<1>3. CASE AnswerThread \/ AnswerTurn
  BY <1>3, AnswerThreadKeeps, AnswerTurnKeeps
<1>4. CASE Say \/ EndTurn
  BY <1>4, SayKeeps, EndTurnKeeps
<1>5. CASE Work \/ ChangeLimits
  BY <1>5, WorkKeeps
<1>6. CASE ChangeSkill \/ Deviate
  BY <1>6, ChangeSkillKeeps, DeviateKeeps
<1>7. QED
  BY <1>1, <1>2, <1>3, <1>4, <1>5, <1>6 DEF Server

-----------------------------------------------------------------------------
(* The theorems *)

\* The session begins with nothing sent, and nothing in the pipe.
LEMMA InitKeeps == ASSUME Init PROVE IInv
<1>1. /\ stage = "initialize" /\ asked = FALSE /\ listing = Unread
      /\ id = [announced_thread |-> "none", thread |-> "none", announced_turn |-> "none", turn |-> "none"]
      /\ messages = <<>> /\ usage = 0 /\ request = "none" /\ channel = <<>> /\ enabled \in SUBSET Skills
      /\ turn = [state |-> "none", said |-> <<>>, tokens |-> 0] /\ tainted = FALSE /\ deviations = 0
  BY DEF Init
<1>2. Places = {}
  BY <1>1 DEF Places
<1>3. TypeOK
  <2>1. channel \in Seq(Range(channel)) /\ messages \in Seq(Message) /\ usage \in Nat /\ deviations \in Nat
    BY <1>1
  <2>2. turn \in [state : {"none", "running", "ended"}, said : Seq(Message), tokens : Nat]
    BY <1>1
  <2>3. stage \in Stages /\ asked \in BOOLEAN /\ request \in Requests \cup {"none"}
    BY <1>1 DEF Stages, Early
  <2>4. id \in [announced_thread : Names, thread : {"none", "own"},
                announced_turn : Names, turn : {"none", "own"}]
    BY <1>1 DEF Names
  <2>5. QED
    BY <1>1, <2>1, <2>2, <2>3, <2>4 DEF TypeOK
<1>4. FramesInv /\ RequestInv /\ AwaitedInv
  BY <1>1, <1>2 DEF FramesInv, RequestInv, AwaitedInv
<1>5. EndInv /\ SpokenInv /\ UsageInv /\ FinalInv
  BY <1>1, <1>2 DEF EndInv, SpokenInv, UsageInv, FinalInv
<1>6. HeardInv
  BY <1>1, <1>2 DEF HeardInv
<1>7. TurnInv
  BY <1>1, <1>2 DEF TurnInv, Unborn, Early, Turning
<1>8. SkillsInv
  BY <1>1, <1>2 DEF SkillsInv, Listed, Turning
<1>9. HonestInv
  <2>1. AnnouncedInv
    BY <1>1, <1>2 DEF AnnouncedInv
  <2>2. OrderInv
    BY <1>1, <1>2, BoundsAssumption DEF OrderInv, Twice
  <2>3. PagesInv
    BY <1>1, <1>2 DEF PagesInv, Unread
  <2>4. QED
    BY <1>2, <2>1, <2>2, <2>3 DEF HonestInv
<1>10. QED
  BY <1>1, <1>3, <1>4, <1>5, <1>6, <1>7, <1>8, <1>9
     DEF IInv, PipeInv, OutcomeIsOwnTurn, SkillsStayDisabled, HonestIsHeard

\* A step that changes nothing.
LEMMA StutterKeeps == ASSUME IInv, UNCHANGED vars PROVE IInv'
<1>1. /\ UNCHANGED <<stage, asked, listing, todo, id, messages, usage, rolling, outcome, why>>
      /\ UNCHANGED <<request, channel, enabled, limits, turn, tainted, deviations>>
  BY DEF vars, client, server, counts
<1>2. Places' = Places /\ Twice' = Twice /\ Unborn' = Unborn /\ Listed' = Listed
  BY <1>1 DEF Places, Twice, Unborn, Listed
<1>3. TypeOK'
  BY <1>1 DEF IInv, TypeOK
<1>4. ASSUME stage \notin Ended
      PROVE  /\ FramesInv' /\ RequestInv' /\ TurnInv' /\ EndInv' /\ SpokenInv' /\ HeardInv' /\ UsageInv'
             /\ FinalInv' /\ SkillsInv' /\ AwaitedInv' /\ HonestInv'
  <2>0. /\ FramesInv /\ RequestInv /\ TurnInv /\ EndInv /\ SpokenInv /\ HeardInv /\ UsageInv
        /\ FinalInv /\ SkillsInv /\ AwaitedInv /\ HonestInv
    BY <1>4 DEF IInv, PipeInv
  <2>1. FramesInv' /\ RequestInv' /\ AwaitedInv'
    BY <1>1, <1>2, <2>0 DEF FramesInv, RequestInv, AwaitedInv
  <2>2. TurnInv' /\ EndInv' /\ SpokenInv'
    BY <1>1, <1>2, <2>0 DEF TurnInv, EndInv, SpokenInv
  <2>3. HeardInv' /\ UsageInv'
    BY <1>1, <1>2, <2>0 DEF HeardInv, UsageInv
  <2>4. FinalInv' /\ SkillsInv'
    BY <1>1, <1>2, <2>0 DEF FinalInv, SkillsInv
  <2>5. HonestInv'
    <3>1. ASSUME AnnouncedInv PROVE AnnouncedInv'
      BY <1>1, <1>2, <3>1 DEF AnnouncedInv
    <3>2. ASSUME OrderInv PROVE OrderInv'
      BY <1>1, <1>2, <3>2 DEF OrderInv
    <3>3. ASSUME PagesInv PROVE PagesInv'
      BY <1>1, <1>2, <3>3 DEF PagesInv
    <3>4. QED
      BY <1>1, <1>2, <2>0, <3>1, <3>2, <3>3 DEF HonestInv
  <2>6. QED
    BY <2>1, <2>2, <2>3, <2>4, <2>5
<1>5. PipeInv'
  BY <1>1, <1>4 DEF PipeInv
<1>6. OutcomeIsOwnTurn' /\ SkillsStayDisabled' /\ HonestIsHeard'
  BY <1>1 DEF IInv, OutcomeIsOwnTurn, SkillsStayDisabled, HonestIsHeard
<1>7. QED
  BY <1>3, <1>5, <1>6 DEF IInv

\* The invariant holds throughout every session.
THEOREM TurnInvariance == Spec => []IInv
<1>1. Init => IInv
  BY InitKeeps
<1>2. IInv /\ [Next]_vars => IInv'
  BY ClientKeeps, ServerKeeps, StutterKeeps DEF Next
<1>3. QED
  BY <1>1, <1>2, PTL DEF Spec

\* An outcome is that of the turn the server ran for this request, whatever frames of other
\* threads and turns, and whatever repetitions, were in the pipe, and however many.
THEOREM OutcomeFromOwnTurn == Spec => []OutcomeIsOwnTurn
<1>1. IInv => OutcomeIsOwnTurn
  BY DEF IInv
<1>2. QED
  BY <1>1, TurnInvariance, PTL

\* No outcome comes from a turn during which a skill was enabled, however often and whenever
\* skills are switched.
THEOREM NoSkillInTurn == Spec => []SkillsStayDisabled
<1>1. IInv => SkillsStayDisabled
  BY DEF IInv
<1>2. QED
  BY <1>1, TurnInvariance, PTL

\* A server that does not deviate is never refused for the order of its frames, however many
\* pages, messages and notices it sends.
THEOREM HonestServerIsHeard == Spec => []HonestIsHeard
<1>1. IInv => HonestIsHeard
  BY DEF IInv
<1>2. QED
  BY <1>1, TurnInvariance, PTL
===============================================================================
