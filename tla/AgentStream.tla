------------------------------ MODULE AgentStream ------------------------------
(***************************************************************************)
(* The recommendation stream from end to end: generateRecommendation       *)
(* (stream.controller.ts) writes the events of an orchestrate run as SSE   *)
(* frames, the network delivers them in chunks cut anywhere, and           *)
(* streamEvents, createFrameParser and useAgentStream turn them into the   *)
(* screen of ProductDetailPage.                                            *)
(*                                                                         *)
(* What a run does is in module Pipeline; here it is the events it yields, *)
(* in the orders its control allows.  A page has one live stream; starting *)
(* another or leaving aborts it, and the run behind it goes on.            *)
(***************************************************************************)
EXTENDS Integers, Sequences, SequencesExt

CONSTANTS
  Losable,     \* agents that may fail
  Result,      \* what recommendation_ready may say
  None,
  MaxRuns,     \* bound: runs started
  MaxChunk,    \* bound: pieces in one chunk
  MaxWire,     \* bound: pieces on the way when another frame is written
  MaxFaults    \* bound: throws of a run, breaks and cuts of a connection

Agent == {"MARKET", "INVENTORY", "DEMAND", "STRATEGY", "COMPLIANCE"}

ASSUME StreamInputAssumption == None \notin Result /\ Losable \subseteq Agent
ASSUME StreamBoundAssumption ==
  /\ MaxRuns \in Nat \ {0} /\ MaxChunk \in Nat \ {0}
  /\ MaxWire \in Nat /\ MaxWire >= 3 /\ MaxFaults \in Nat

VARIABLES
  page,       \* whether the product page is mounted
  screen,     \* what useAgentStream returns
  current,    \* the run of abortRef, 0 for none
  streams,    \* of each run: streamEvents, its parser's buffer, the
              \* connection, and the bytes on the way
  servers,    \* of each run: its handler
  faults      \* history

streamVars == <<page, screen, current, streams, servers, faults>>

-----------------------------------------------------------------------------
(* Events. *)

Event ==
       {<<type, a>> : type \in {"started", "completed", "failed"}, a \in Agent}
  \cup {<<"skipped", "DEMAND">>}
  \cup {<<"ready", r>> : r \in Result}
  \cup {<<"lost", a>> : a \in {"INVENTORY", "STRATEGY", None}}

Terminal(e) == e[1] \in {"ready", "lost"}

(* How an agent that was started ends. *)
Outcomes(a) == {<<"completed", a>>} \cup (IF a \in Losable THEN {<<"failed", a>>} ELSE {})

(* The wave after the demand agent's, and the one after the first two's.   *)
WaveThree(inventory) ==
  IF inventory[1] = "completed" THEN <<<<"started", "STRATEGY">>>> ELSE <<>>

WaveTwo(market, inventory) ==
  IF market[1] = "completed" THEN <<<<"started", "DEMAND">>>>
  ELSE <<<<"skipped", "DEMAND">>>> \o WaveThree(inventory)

(* What orchestrate may yield after the events of log, up to its next      *)
(* await.  A lost strategy agent ends the run without an event of its own. *)
Following(log) ==
  LET kind  == Last(log)[1]
      agent == Last(log)[2]
  IN CASE log = <<>> -> {<<<<"started", "MARKET">>, <<"started", "INVENTORY">>>>}
       [] Len(log) = 2 ->
            {ends \o WaveTwo(ends[1], ends[2]) : ends \in Outcomes("MARKET") \X Outcomes("INVENTORY")}
       [] Len(log) > 2 /\ kind = "started" /\ agent = "DEMAND" ->
            {<<d>> \o WaveThree(log[4]) : d \in Outcomes("DEMAND")}
       [] Len(log) > 2 /\ kind # "started" /\ agent = "DEMAND" ->
            {<<<<"lost", "INVENTORY">>>>}
       [] Len(log) > 2 /\ kind = "started" /\ agent = "STRATEGY" ->
            {<<<<"completed", "STRATEGY">>, <<"started", "COMPLIANCE">>>>}
              \cup (IF "STRATEGY" \in Losable THEN {<<<<"lost", "STRATEGY">>>>} ELSE {})
       [] Len(log) > 2 /\ kind = "started" /\ agent = "COMPLIANCE" ->
            {<<c>> : c \in Outcomes("COMPLIANCE")}
       [] Len(log) > 2 /\ kind # "started" /\ agent = "COMPLIANCE" ->
            {<<<<"ready", r>>>> : r \in Result}
       [] OTHER -> {}

-----------------------------------------------------------------------------
(* Frames: the event and data lines, which a chunk may cut, a blank line.  *)

Piece    == {<<"newline">>, <<"comment">>} \cup {<<"data", e, half>> : e \in Event, half \in 1..2}
Newline  == <<"newline">>
Frame(e) == <<<<"data", e, 1>>, <<"data", e, 2>>, Newline, Newline>>
Comment  == <<<<"comment">>, Newline, Newline>>

(* The data lines of a raw frame, when they are the whole JSON of an event: *)
(* a frame without data is no frame, and one that JSON.parse refuses is     *)
(* dropped.                                                                 *)
Parsed(raw) ==
  LET data == {i \in DOMAIN raw : raw[i][1] = "data"}
  IN IF \E i, j \in data : i # j THEN <<raw[Min(data)][2]>> ELSE <<>>

(* A plausible bug: the frames given out stay in the buffer.               *)
TakeAndKeep(parser, piece) ==
  IF piece = Newline /\ parser.rest # <<>> /\ Last(parser.rest) = Newline
  THEN [rest |-> Append(parser.rest, piece), events |-> parser.events \o Parsed(Front(parser.rest))]
  ELSE [parser EXCEPT !.rest = Append(@, piece)]

(* buffer.split, from the left: a blank line ends a frame, and the last    *)
(* part is left for the next chunk.                                        *)
Take(parser, piece) ==
  IF piece = Newline /\ parser.rest # <<>> /\ Last(parser.rest) = Newline
  THEN [rest |-> <<>>, events |-> parser.events \o Parsed(Front(parser.rest))]
  ELSE [parser EXCEPT !.rest = Append(@, piece)]

Split(bytes) ==
  LET parser[i \in 0..Len(bytes)] ==
        IF i = 0 THEN [rest |-> <<>>, events |-> <<>>] ELSE Take(parser[i - 1], bytes[i])
  IN parser[Len(bytes)]

WholeFrame(bytes) == \E i \in 2..Len(bytes) : bytes[i - 1] = Newline /\ bytes[i] = Newline

-----------------------------------------------------------------------------
(* The screen. *)

Blank(status) ==
  [agents |-> [a \in Agent |-> "pending"], status |-> status, result |-> None]

(* onEvent, for one event. *)
Shown(s, e) ==
  CASE e[1] = "started"   -> [s EXCEPT !.agents[e[2]] = "running"]
    [] e[1] = "completed" -> [s EXCEPT !.agents[e[2]] = "done"]
    [] e[1] = "skipped"   -> [s EXCEPT !.agents[e[2]] = "skipped"]
    [] e[1] = "failed"    -> [s EXCEPT !.agents[e[2]] = "failed"]
    [] e[1] = "ready"     -> [s EXCEPT !.result = e[2], !.status = "done"]
    [] e[1] = "lost"      -> [s EXCEPT !.status = "error"]

Stream == [reader : {"fetching", "reading", "over", "aborted"}, buffer : Seq(Piece),
           link : {"open", "ended", "cut", "broken"}, wire : Seq(Piece)]
Server == [at : {"coming", "refused", "running", "over"}, log : Seq(Event)]

(* The parser never holds a whole frame. *)
StreamTypeOK ==
  /\ page \in BOOLEAN
  /\ screen \in [agents : [Agent -> {"pending", "running", "done", "skipped", "failed"}],
                 status : {"idle", "streaming", "done", "error"}, result : Result \cup {None}]
  /\ current \in 0..Len(servers)
  /\ servers \in Seq(Server) /\ streams \in Seq(Stream)
  /\ Len(servers) <= MaxRuns /\ Len(streams) = Len(servers)
  /\ \A r \in DOMAIN streams : ~WholeFrame(streams[r].buffer)
  /\ faults \in 0..MaxFaults

StreamInit ==
  /\ page = TRUE
  /\ screen = Blank("idle") /\ current = 0
  /\ streams = <<>> /\ servers = <<>> /\ faults = 0

-----------------------------------------------------------------------------
(* The page and its hook. *)

(* abort() errors the stream: what it had not read it never reads.         *)
Abort(r, all) ==
  IF r \in DOMAIN all /\ all[r].reader # "over"
  THEN [all EXCEPT ![r] = [reader |-> "aborted", buffer |-> <<>>, link |-> "broken", wire |-> <<>>]]
  ELSE all

(* Unmounting aborts the stream; another visit mounts a new hook.  Going   *)
(* from one product to another in the command palette keeps the route and  *)
(* with it page, hook and stream: it is no step here.                      *)
Leave ==
  /\ page
  /\ page' = FALSE
  /\ screen' = Blank("idle") /\ current' = 0
  /\ streams' = Abort(current, streams)
  /\ UNCHANGED <<servers, faults>>

NewStream == [reader |-> "fetching", buffer |-> <<>>, link |-> "open", wire |-> <<>>]
NewServer == [at |-> "coming", log |-> <<>>]

(* A plausible bug: a stream that has had its last event is left alone.    *)
StartWithoutAbort ==
  /\ page /\ screen.status # "streaming" /\ Len(servers) < MaxRuns
  /\ servers' = Append(servers, NewServer)
  /\ screen' = Blank("streaming") /\ current' = Len(servers')
  /\ streams' = Append(streams, NewStream)
  /\ UNCHANGED <<page, faults>>

(* start, from a button that is disabled while streaming; the stream of a  *)
(* run that has had its last event may not have ended yet.                 *)
Start ==
  /\ page /\ screen.status # "streaming" /\ Len(servers) < MaxRuns
  /\ servers' = Append(servers, NewServer)
  /\ screen' = Blank("streaming") /\ current' = Len(servers')
  /\ streams' = Append(Abort(current, streams), NewStream)
  /\ UNCHANGED <<page, faults>>

-----------------------------------------------------------------------------
(* streamEvents, for the stream of run r. *)

Update(r, stream) == streams' = [streams EXCEPT ![r] = stream]

Dispatch(events) == screen' = FoldLeft(Shown, screen, events)

(* start's catch block, for an error that is no abort. *)
Reject(r) ==
  /\ screen' = [screen EXCEPT !.status = "error"]
  /\ Update(r, [streams[r] EXCEPT !.reader = "over"])

(* fetch resolves: with the stream, or with a status that is not OK.       *)
Fetched(r) ==
  /\ streams[r].reader = "fetching" /\ streams[r].link # "broken"
  /\ \/ /\ servers[r].at \in {"running", "over"}
        /\ Update(r, [streams[r] EXCEPT !.reader = "reading"])
        /\ UNCHANGED screen
     \/ /\ servers[r].at = "refused"
        /\ Reject(r)
  /\ UNCHANGED <<page, current, servers, faults>>

(* reader.read() resolves with a chunk. *)
Read(r, k) ==
  LET stream == streams[r]
  IN /\ stream.reader = "reading" /\ stream.link # "broken"
     /\ \E parser \in {Split(stream.buffer \o SubSeq(stream.wire, 1, k))} :
          /\ Dispatch(parser.events)
          /\ Update(r, [stream EXCEPT !.buffer = parser.rest,
                                      !.wire = SubSeq(stream.wire, k + 1, Len(stream.wire))])
     /\ UNCHANGED <<page, current, servers, faults>>

(* The stream is done: flush takes what is left for a frame. *)
ReadEnd(r) ==
  LET stream == streams[r]
  IN /\ stream.reader = "reading" /\ stream.link \in {"ended", "cut"} /\ stream.wire = <<>>
     /\ Dispatch(Parsed(stream.buffer))
     /\ Update(r, [stream EXCEPT !.buffer = <<>>, !.reader = "over"])
     /\ UNCHANGED <<page, current, servers, faults>>

(* A plausible bug: every error of the stream is taken for an abort.       *)
ConnectionFailsSilently(r) ==
  /\ streams[r].reader \in {"fetching", "reading"} /\ streams[r].link = "broken"
  /\ Update(r, [streams[r] EXCEPT !.reader = "over"])
  /\ UNCHANGED <<page, screen, current, servers, faults>>

(* fetch or read rejects. *)
ConnectionFails(r) ==
  /\ streams[r].reader \in {"fetching", "reading"} /\ streams[r].link = "broken"
  /\ Reject(r)
  /\ UNCHANGED <<page, current, servers, faults>>

-----------------------------------------------------------------------------
(* The handler. *)

Becomes(r, server) == servers' = [servers EXCEPT ![r] = server]

(* The request comes through its middleware, also when its page is gone:   *)
(* the head of the response is flushed.                                    *)
Accept(r) ==
  /\ servers[r].at = "coming"
  /\ Becomes(r, [servers[r] EXCEPT !.at = "running"])
  /\ UNCHANGED <<page, screen, current, streams, faults>>

(* A middleware answers, or the request was lost with its connection.      *)
Refuse(r) ==
  /\ servers[r].at = "coming"
  /\ Becomes(r, [servers[r] EXCEPT !.at = "refused"])
  /\ UNCHANGED <<page, screen, current, streams, faults>>

(* What is written after the connection went is lost, before the handler   *)
(* hears of it (clientGone) and is not written after.                      *)
Write(r, bytes) ==
  \/ /\ streams[r].link = "open" /\ Len(streams[r].wire) <= MaxWire
     /\ Update(r, [streams[r] EXCEPT !.wire = @ \o bytes])
  \/ /\ streams[r].link # "open"
     /\ UNCHANGED streams

Send(r, events) ==
  /\ Becomes(r, [servers[r] EXCEPT !.log = @ \o events])
  /\ Write(r, FlattenSeq([k \in DOMAIN events |-> Frame(events[k])]))

Finished(server) == server.log # <<>> /\ Terminal(Last(server.log))

(* A plausible bug: the loop is left when the client is gone.              *)
YieldWhileWatched(r) ==
  /\ servers[r].at = "running" /\ streams[r].link = "open"
  /\ \E events \in Following(servers[r].log) : Send(r, events)
  /\ UNCHANGED <<page, screen, current, faults>>

(* orchestrate yields and send writes. *)
Yield(r) ==
  /\ servers[r].at = "running"
  /\ \E events \in Following(servers[r].log) : Send(r, events)
  /\ UNCHANGED <<page, screen, current, faults>>

(* orchestrate throws, at its first read as at its last write; the catch   *)
(* block sends recommendation_failed.                                      *)
Throw(r) ==
  /\ servers[r].at = "running" /\ ~Finished(servers[r])
  /\ faults < MaxFaults /\ faults' = faults + 1
  /\ Send(r, <<<<"lost", None>>>>)
  /\ UNCHANGED <<page, screen, current>>

(* finally: the timer is cleared, and the response ended if it is there.   *)
End(r) ==
  /\ servers[r].at = "running" /\ Finished(servers[r])
  /\ Becomes(r, [servers[r] EXCEPT !.at = "over"])
  /\ IF streams[r].link = "open" THEN Update(r, [streams[r] EXCEPT !.link = "ended"])
                                 ELSE UNCHANGED streams
  /\ UNCHANGED <<page, screen, current, faults>>

(* The comment every 15 seconds; one that is under way is not repeated.    *)
KeepAlive(r) ==
  /\ servers[r].at = "running" /\ streams[r].link = "open" /\ streams[r].wire = <<>>
  /\ Update(r, [streams[r] EXCEPT !.wire = Comment])
  /\ UNCHANGED <<page, screen, current, servers, faults>>

-----------------------------------------------------------------------------
(* The network. *)

(* The connection fails, and what was under way is lost. *)
Break(r) ==
  /\ streams[r].reader \in {"fetching", "reading"} /\ streams[r].link \in {"open", "ended"}
  /\ faults < MaxFaults /\ faults' = faults + 1
  /\ Update(r, [streams[r] EXCEPT !.link = "broken", !.wire = <<>>])
  /\ UNCHANGED <<page, screen, current, servers>>

(* An intermediary ends the response early, as if it were complete. *)
Cut(r, k) ==
  /\ streams[r].reader = "reading" /\ streams[r].link = "open"
  /\ faults < MaxFaults /\ faults' = faults + 1
  /\ Update(r, [streams[r] EXCEPT !.link = "cut", !.wire = SubSeq(@, 1, k)])
  /\ UNCHANGED <<page, screen, current, servers>>

-----------------------------------------------------------------------------
User == Leave \/ Start

Reads(r)   == \E k \in 1..MaxChunk : k <= Len(streams[r].wire) /\ Read(r, k)
Browser(r) == Fetched(r) \/ Reads(r) \/ ReadEnd(r) \/ ConnectionFails(r)
Arrive(r)  == Accept(r) \/ Refuse(r)
Handle(r)  == Yield(r) \/ End(r)

Environment(r) ==
  \/ Throw(r) \/ KeepAlive(r) \/ Break(r)
  \/ \E k \in 0..Len(streams[r].wire) : Cut(r, k)

StreamNext ==
  \/ User
  \/ \E r \in DOMAIN servers : Browser(r) \/ Arrive(r) \/ Handle(r) \/ Environment(r)

(* A request arrives or is lost, every agent ends (module AgentLoop), and  *)
(* what is written is delivered or the connection breaks.  The user need   *)
(* do nothing.                                                             *)
StreamFairness ==
  \A r \in 1..MaxRuns :
    /\ WF_streamVars(r \in DOMAIN servers /\ Browser(r))
    /\ WF_streamVars(r \in DOMAIN servers /\ (Arrive(r) \/ Handle(r)))

StreamSpec == StreamInit /\ [][StreamNext]_streamVars /\ StreamFairness

-----------------------------------------------------------------------------
(* Properties. *)

ScreenOf(log) == FoldLeft(Shown, Blank("streaming"), log)

(* However its frames are cut, the screen shows what the first events of   *)
(* the current run amount to, none lost, repeated or of another run, and   *)
(* all of them when the response was read to its end; only an error of the *)
(* connection is added.                                                    *)
ScreenIsPrefix ==
  current # 0 =>
    LET log  == servers[current].log
        over == streams[current].reader = "over"
    IN \E n \in 0..Len(log) :
         /\ (over /\ streams[current].link = "ended") => n = Len(log)
         /\ LET s == ScreenOf(SubSeq(log, 1, n))
            IN screen = s \/ (over /\ screen = [s EXCEPT !.status = "error"])

(* A disconnect does not abort the pipeline: a run that began ends.        *)
EveryRunFinishes == <>[](\A r \in DOMAIN servers : servers[r].at # "running")

Cutoff == current # 0 /\ streams[current].link = "cut"

(* A screen does not stream for ever, unless the response was cut where    *)
(* its end cannot be told from a proper one.  (Runs are bounded, so there  *)
(* is a last one.)                                                         *)
ScreenSettles == <>[](screen.status # "streaming" \/ Cutoff)

(* docs/PRD.md, FR-GEN-3: each agent's failure is individually visible.    *)
FailedAgentIsShown ==
  current # 0 =>
    LET log == servers[current].log
    IN (streams[current].reader = "over" /\ streams[current].link = "ended") =>
         \A a \in Agent : Last(log) = <<"lost", a>> => screen.agents[a] = "failed"
=============================================================================
