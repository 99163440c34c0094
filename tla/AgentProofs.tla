------------------------------ MODULE AgentProofs ------------------------------
(***************************************************************************)
(* Proofs about what an agent's run answers for.  AgentLoop, for every     *)
(* number of rounds, retries and tool calls: its types, and the evidence   *)
(* an output is kept with.  AgentStream, for every number of runs and      *)
(* faults and chunks of every size: its types, and that the screen is what *)
(* the first events of the current run amount to.                          *)
(***************************************************************************)
EXTENDS AgentLoop, AgentStream, FiniteSetTheorems, SequenceTheorems,
        WellFoundedInduction, NaturalsInduction, TLAPS

CallIds == (1..MaxRounds) \X (1..MaxCalls)
Tool    == [role : {"tool"}, id : CallIds, ending : Ending]
Request == [role : {"assistant"}, calls : UNION {[1..n -> CallIds] : n \in 0..MaxCalls}]
Entry   == [id : CallIds, failed : BOOLEAN]

-----------------------------------------------------------------------------
(* The bounds.  A loop spends MaxRetries + 1 requests on each of its       *)
(* rounds at most, and the repair is one more loop.                        *)

Spent == (loop - 1) * (MaxRounds * (MaxRetries + 1)) + (round - 1) * (MaxRetries + 1) + attempt + 1

Bounds ==
  /\ at \in {"asking", "backoff", "tools"} \cup Ended
  /\ loop \in 1..2 /\ round \in 1..MaxRounds /\ attempt \in 0..MaxRetries
  /\ sent \in Nat \ {0} /\ sent <= Spent
  /\ at = "backoff" => attempt < MaxRetries
  /\ running \in UNION {[1..n -> Ending \cup {"running"}] : n \in 0..MaxCalls}
  /\ at # "tools" => running = <<>>

(* A round's worth of requests. *)
LEMMA RoundSpends ==
  ASSUME Bounds
  PROVE  /\ MaxRetries + 1 \in Nat \ {0} /\ MaxRounds * (MaxRetries + 1) \in Nat
         /\ round * (MaxRetries + 1) = (round - 1) * (MaxRetries + 1) + (MaxRetries + 1)
         /\ round * (MaxRetries + 1) <= MaxRounds * (MaxRetries + 1)
         /\ (round - 1) * (MaxRetries + 1) \in Nat /\ round * (MaxRetries + 1) \in Nat
  <1>1. MaxRetries + 1 \in Nat \ {0} /\ round \in Nat \ {0} /\ MaxRounds \in Nat /\ round <= MaxRounds
    BY BoundAssumption DEF Bounds
  <1>2. \A k \in Nat, n \in Nat \ {0}, m \in Nat : n <= m =>
          /\ n * k = (n - 1) * k + k /\ n * k <= m * k /\ (n - 1) * k \in Nat /\ n * k \in Nat /\ m * k \in Nat
    OBVIOUS
  <1>3. QED
    BY <1>1, <1>2

(* The bounds hold after every step. *)
LEMMA NextBounds ==
  ASSUME Bounds, [Next]_vars
  PROVE  Bounds'
  <1> DEFINE K == MaxRetries + 1
             M == MaxRounds * K
             R == (round - 1) * K
  <1>a. K \in Nat \ {0} /\ M \in Nat /\ R \in Nat /\ round * K = R + K /\ R + K <= M
    BY RoundSpends
  <1>b. Spent = (loop - 1) * M + R + attempt + 1
    BY DEF Spent
  <1>c. K = MaxRetries + 1 /\ MaxRetries \in Nat /\ MaxRounds \in Nat \ {0} /\ MaxCalls \in Nat \ {0}
    BY BoundAssumption
  <1>s. Spent \in Nat
    <2>1. loop = 1 \/ loop = 2
      BY DEF Bounds
    <2>2. attempt \in Nat
      BY <1>c DEF Bounds
    <2>3. QED
      BY <1>a, <1>b, <2>1, <2>2
  <1>d. Spent' = (loop' - 1) * M + (round' - 1) * K + attempt' + 1
    BY DEF Spent
  <1>e. << >> \in UNION {[1..n -> Ending \cup {"running"}] : n \in 0..MaxCalls}
    <2>1. << >> \in [1..0 -> Ending \cup {"running"}] /\ 0 \in 0..MaxCalls
      BY <1>c
    <2>2. QED
      BY <2>1
  <1> HIDE DEF K, M, R
  <1>1. CASE UNCHANGED vars
    BY <1>1 DEF vars, Bounds, Spent
  <1>2. ASSUME NEW retryable \in BOOLEAN, RequestFails(retryable)
        PROVE  Bounds'
    BY <1>2 DEF RequestFails, Bounds, Ended, Spent
  <1>3. CASE Retry
    <2>1. Spent' = Spent + 1
      BY <1>3, <1>a, <1>b, <1>d DEF Retry, Bounds, R, K
    <2>2. attempt' \in 0..MaxRetries
      BY <1>3, <1>c DEF Retry, Bounds
    <2>3. QED
      BY <1>3, <1>s, <2>1, <2>2 DEF Retry, Bounds
  <1>4. ASSUME NEW content \in Content, Answers(content)
        PROVE  Bounds'
    <2>1. CASE content = "invalid" /\ loop = 1
      <3>1. /\ loop' = 2 /\ round' = 1 /\ attempt' = 0 /\ sent' = sent + 1 /\ at = "asking"
            /\ UNCHANGED <<at, running>>
        BY <1>4, <2>1 DEF Answers
      <3>2. Spent' = M + 1
        BY <1>a, <1>d, <3>1
      <3>3. Spent <= M
        BY <1>a, <1>b, <1>c, <2>1 DEF Bounds
      <3>4. sent' \in Nat \ {0} /\ sent' <= Spent'
        BY <1>a, <1>s, <3>1, <3>2, <3>3 DEF Bounds
      <3>5. round' \in 1..MaxRounds /\ attempt' \in 0..MaxRetries
        BY <1>c, <3>1
      <3>6. QED
        BY <3>1, <3>4, <3>5 DEF Bounds
    <2>2. CASE ~(content = "invalid" /\ loop = 1)
      BY <1>4, <2>2 DEF Answers, Bounds, Ended, Spent
    <2>3. QED
      BY <2>1, <2>2
  <1>5. ASSUME NEW n \in 1..MaxCalls, AsksForTools(n)
        PROVE  Bounds'
    <2>1. running' \in [1..n -> Ending \cup {"running"}] /\ n \in 0..MaxCalls
      BY <1>5, <1>c DEF AsksForTools
    <2>2. QED
      BY <1>5, <2>1 DEF AsksForTools, Bounds, Spent
  <1>6. ASSUME NEW k \in DOMAIN running, NEW ending \in Ending, ToolEnds(k, ending)
        PROVE  Bounds'
    <2>1. PICK n \in 0..MaxCalls : running \in [1..n -> Ending \cup {"running"}]
      BY DEF Bounds
    <2>2. running' \in [1..n -> Ending \cup {"running"}]
      BY <1>6, <2>1 DEF ToolEnds
    <2>3. QED
      BY <1>6, <2>2 DEF ToolEnds, Bounds, Spent
  <1>7. CASE ToolsJoin
    <2>1. CASE round < MaxRounds
      <3>1. /\ round' = round + 1 /\ attempt' = 0 /\ sent' = sent + 1 /\ at' = "asking" /\ running' = <<>>
            /\ UNCHANGED loop
        BY <1>7, <2>1 DEF ToolsJoin
      <3>2. (round' - 1) * K = R + K
        BY <1>a, <3>1 DEF Bounds
      <3>3. PICK A \in Nat : A = (loop - 1) * M
        BY <1>a DEF Bounds
      <3>4. Spent' = A + R + K + 1 /\ Spent <= A + R + K
        BY <1>a, <1>b, <1>c, <1>d, <3>1, <3>2, <3>3 DEF Bounds
      <3>5. sent' \in Nat \ {0} /\ sent' <= Spent'
        BY <1>a, <1>s, <3>1, <3>4, <3>3 DEF Bounds
      <3>6. round' \in 1..MaxRounds /\ attempt' \in 0..MaxRetries
        BY <1>c, <2>1, <3>1 DEF Bounds
      <3>7. QED
        BY <1>e, <3>1, <3>5, <3>6 DEF Bounds
    <2>2. CASE ~(round < MaxRounds)
      BY <1>7, <1>e, <2>2 DEF ToolsJoin, Bounds, Ended, Spent
    <2>3. QED
      BY <2>1, <2>2
  <1>8. QED
    BY <1>1, <1>2, <1>3, <1>4, <1>5, <1>6, <1>7 DEF Next, ModelStep, ToolStep

-----------------------------------------------------------------------------
(* The evidence.  Every call that ends is recorded at once and told to the *)
(* model when its round's calls have all ended; what is recorded and not   *)
(* yet told is in running.                                                 *)

Recorded(id, failed) == [id |-> id, failed |-> failed] \in {evidence[q] : q \in DOMAIN evidence}

Noted == {k \in DOMAIN running : running[k] \in {"data", "thrown"}}

ChatTyped == chat \in Seq(Tool \cup Request) /\ evidence \in Seq(Entry)

RecordedOnce == \A p, q \in DOMAIN evidence : evidence[p].id = evidence[q].id => p = q
ToldOnce     == \A p, q \in Told : chat[p].id = chat[q].id => p = q
ToldIsRecorded  == \A p \in Told : Recorded(chat[p].id, chat[p].ending = "thrown")
NotedIsRecorded == \A k \in Noted : Recorded(CallId(round, k), running[k] = "thrown")
NothingElse ==
  \A q \in DOMAIN evidence :
    \/ \E p \in Told : chat[p].id = evidence[q].id
    \/ \E k \in Noted : CallId(round, k) = evidence[q].id
ToldIsPast == at \notin Ended => \A p \in Told : chat[p].id[1] < round

Records ==
  /\ ChatTyped
  /\ RecordedOnce /\ ToldOnce /\ ToldIsRecorded /\ NotedIsRecorded /\ NothingElse
  /\ ToldIsPast

LoopInv == Bounds /\ Records

(* An interval from 1 is finite, and has as many elements as its end. *)
LEMMA UpTo == \A n \in Nat : IsFiniteSet(1..n) /\ Cardinality(1..n) = n
  <1> SUFFICES ASSUME NEW n \in Nat PROVE IsFiniteSet(1..n) /\ Cardinality(1..n) = n
    OBVIOUS
  <1>1. 1 \in Int /\ n \in Int
    OBVIOUS
  <1>2. IsFiniteSet(1..n) /\ Cardinality(1..n) = IF 1 > n THEN 0 ELSE n - 1 + 1
    BY <1>1, FS_Interval
  <1>3. QED
    BY <1>2

(* What the chat and the evidence are made of. *)
LEMMA Lengths ==
  ASSUME Bounds, ChatTyped
  PROVE  /\ Len(chat) \in Nat /\ DOMAIN chat = 1..Len(chat)
         /\ Len(evidence) \in Nat /\ DOMAIN evidence = 1..Len(evidence)
         /\ \A q \in DOMAIN evidence : evidence[q] \in Entry
         /\ \A p \in DOMAIN chat : chat[p] \in Tool \cup Request
         /\ \A p \in Told : chat[p] \in Tool
  <1>1. /\ Len(chat) \in Nat /\ DOMAIN chat = 1..Len(chat) /\ chat \in [1..Len(chat) -> Tool \cup Request]
        /\ Len(evidence) \in Nat /\ DOMAIN evidence = 1..Len(evidence) /\ evidence \in [1..Len(evidence) -> Entry]
    BY LenProperties DEF ChatTyped
  <1>2. \A p \in Told : chat[p] \in Tool
    BY <1>1 DEF Told, Tool, Request
  <1>3. QED
    BY <1>1, <1>2

(* The ids of a round's calls. *)
LEMMA CallIdTyped ==
  ASSUME Bounds, NEW k \in DOMAIN running
  PROVE  CallId(round, k) \in CallIds /\ k \in 1..MaxCalls
  BY BoundAssumption DEF Bounds, CallId, CallIds

(* A step that says and records nothing new. *)
LEMMA QuietRecords ==
  ASSUME LoopInv, UNCHANGED <<chat, evidence, running, round>>, at \in Ended => at' \in Ended
  PROVE  Records'
  BY DEF LoopInv, Records, ChatTyped, RecordedOnce, ToldOnce, ToldIsRecorded, NotedIsRecorded, NothingElse, ToldIsPast,
         Recorded, Noted, Told, CallId

(* The repair starts with empty records. *)
LEMMA EmptyRecords ==
  ASSUME chat = <<>>, evidence = <<>>, running = <<>>
  PROVE  Records
  BY DEF Records, ChatTyped, RecordedOnce, ToldOnce, ToldIsRecorded, NotedIsRecorded, NothingElse, ToldIsPast,
         Recorded, Noted, Told

(* An answer that asks for tools is said, and notes nothing. *)
LEMMA AskingRecords ==
  ASSUME LoopInv, NEW n \in 1..MaxCalls, AsksForTools(n)
  PROVE  Records'
  <1> DEFINE request == [role |-> "assistant", calls |-> [k \in 1..n |-> CallId(round, k)]]
  <1>1. request \in Request
    <2>1. n \in 0..MaxCalls /\ \A k \in 1..n : CallId(round, k) \in CallIds
      BY BoundAssumption DEF LoopInv, Bounds, CallId, CallIds
    <2>2. [k \in 1..n |-> CallId(round, k)] \in [1..n -> CallIds]
      BY <2>1
    <2>3. QED
      BY <2>1, <2>2 DEF Request
  <1>2. /\ chat' = Append(chat, request) /\ running = <<>> /\ running' = [k \in 1..n |-> "running"]
        /\ UNCHANGED <<evidence, round>> /\ at = "asking"
    BY DEF AsksForTools, LoopInv, Bounds
  <1>3. request.role = "assistant"
    OBVIOUS
  <1> HIDE DEF request
  <1>4. /\ chat' \in Seq(Tool \cup Request) /\ Len(chat') = Len(chat) + 1 /\ DOMAIN chat' = 1..(Len(chat) + 1)
        /\ \A p \in DOMAIN chat : chat'[p] = chat[p]
        /\ chat'[Len(chat) + 1] = request
    BY <1>1, <1>2, Lengths, AppendProperties, LenProperties DEF LoopInv, Records, ChatTyped
  <1>5. Told' = Told /\ \A p \in Told : chat'[p] = chat[p]
    BY <1>3, <1>4, Lengths DEF Told, LoopInv, Records
  <1>6. Noted = {} /\ Noted' = {}
    BY <1>2 DEF Noted
  <1>7. ChatTyped'
    BY <1>2, <1>4 DEF ChatTyped, LoopInv, Records
  <1>a. RecordedOnce /\ ToldOnce /\ NothingElse /\ \A p \in Told : chat[p].id[1] < round
    BY <1>2 DEF LoopInv, Records, ToldIsPast, Ended
  <1>8. RecordedOnce' /\ NotedIsRecorded'
    BY <1>2, <1>6, <1>a DEF RecordedOnce, NotedIsRecorded
  <1>b. NothingElse'
    BY <1>2, <1>5, <1>6, <1>a DEF NothingElse
  <1>c. ToldOnce'
    BY <1>5, <1>a DEF ToldOnce
  <1>9. ToldIsPast'
    BY <1>2, <1>5, <1>a DEF ToldIsPast
  <1>10. ToldIsRecorded'
    BY <1>2, <1>5 DEF LoopInv, Records, ToldIsRecorded, Recorded
  <1>11. QED
    BY <1>7, <1>8, <1>9, <1>10, <1>b, <1>c DEF Records

(* A call ends: it was not recorded before.  *)
LEMMA EndingRecords ==
  ASSUME LoopInv, NEW k \in DOMAIN running, NEW ending \in Ending, ToolEnds(k, ending)
  PROVE  Records'
  <1>1. /\ at = "tools" /\ running[k] = "running" /\ running' = [running EXCEPT ![k] = ending]
        /\ UNCHANGED <<at, chat, round>>
    BY DEF ToolEnds
  <1>2. Told' = Told
    BY <1>1 DEF Told
  <1>3. DOMAIN running' = DOMAIN running /\ running'[k] = ending /\ \A j \in DOMAIN running : j # k => running'[j] = running[j]
    BY <1>1
  <1>4. CASE ending = "unknown"
    <2>1. evidence' = evidence /\ Noted' = Noted /\ \A j \in Noted : running'[j] = running[j]
      BY <1>1, <1>3, <1>4 DEF ToolEnds, Noted
    <2>2. QED
      BY <1>1, <1>2, <2>1 DEF LoopInv, Records, ChatTyped, RecordedOnce, ToldOnce, ToldIsRecorded, NotedIsRecorded,
         NothingElse, ToldIsPast, Recorded, CallId
  <1>5. CASE ending # "unknown"
    <2> DEFINE new == [id |-> CallId(round, k), failed |-> ending = "thrown"]
    <2>1. new \in Entry /\ new.id = CallId(round, k)
      BY CallIdTyped DEF Entry, LoopInv
    <2>2. evidence' = Append(evidence, new)
      BY <1>5 DEF ToolEnds
    <2>3. [id |-> CallId(round, k), failed |-> ending = "thrown"] = new
      OBVIOUS
    <2> HIDE DEF new
    <2>4. /\ evidence' \in Seq(Entry) /\ DOMAIN evidence' = DOMAIN evidence \cup {Len(evidence) + 1}
          /\ Len(evidence) + 1 \notin DOMAIN evidence
          /\ \A q \in DOMAIN evidence : evidence'[q] = evidence[q]
          /\ evidence'[Len(evidence) + 1] = new
      BY <2>1, <2>2, Lengths, AppendProperties, LenProperties DEF LoopInv, Records, ChatTyped
    <2>5. Noted' = Noted \cup {k} /\ k \notin Noted /\ \A j \in Noted : running'[j] = running[j]
      BY <1>1, <1>3, <1>5 DEF Noted, Ending
    <2>6. \A q \in DOMAIN evidence : evidence[q].id # CallId(round, k)
      <3> SUFFICES ASSUME NEW q \in DOMAIN evidence, evidence[q].id = CallId(round, k) PROVE FALSE
        OBVIOUS
      <3>1. CASE \E p \in Told : chat[p].id = evidence[q].id
        <4>1. PICK p \in Told : chat[p].id = CallId(round, k)
          BY <3>1
        <4>2. chat[p].id[1] = round
          BY <4>1 DEF CallId
        <4>3. chat[p].id[1] < round /\ round \in Nat
          BY <1>1 DEF LoopInv, Bounds, Records, ToldIsPast, Ended
        <4>4. QED
          BY <4>2, <4>3
      <3>2. CASE \E j \in Noted : CallId(round, j) = evidence[q].id
        <4>1. PICK j \in Noted : CallId(round, j) = CallId(round, k)
          BY <3>2
        <4>2. j = k
          BY <4>1 DEF CallId
        <4>3. QED
          BY <2>5, <4>2
      <3>3. QED
        BY <3>1, <3>2 DEF LoopInv, Records, NothingElse
    <2>7. RecordedOnce'
      BY <2>1, <2>4, <2>6 DEF LoopInv, Records, RecordedOnce
    <2>8. \A id, failed : Recorded(id, failed) => Recorded(id, failed)'
      BY <2>4 DEF Recorded
    <2>9. ToldOnce' /\ ToldIsRecorded' /\ ToldIsPast'
      BY <1>1, <1>2, <2>8 DEF LoopInv, Records, ToldOnce, ToldIsRecorded, ToldIsPast
    <2>10. NotedIsRecorded'
      <3>1. Recorded(CallId(round, k), ending = "thrown")'
        <4>1. [id |-> CallId(round', k), failed |-> ending = "thrown"] = new
          BY <1>1, <2>3
        <4>2. new \in {evidence'[q] : q \in DOMAIN evidence'}
          BY <2>4
        <4>3. QED
          BY <4>1, <4>2 DEF Recorded
      <3>2. QED
        BY <1>1, <1>3, <2>5, <2>8, <3>1 DEF LoopInv, Records, NotedIsRecorded, CallId
    <2>11. NothingElse'
      BY <1>1, <1>2, <2>1, <2>4, <2>5 DEF LoopInv, Records, NothingElse, CallId
    <2>12. ChatTyped'
      BY <1>1, <2>4 DEF LoopInv, Records, ChatTyped
    <2>13. QED
      BY <2>7, <2>9, <2>10, <2>11, <2>12 DEF Records
  <1>6. QED
    BY <1>4, <1>5

(* The round's results are told together. *)
LEMMA JoiningRecords ==
  ASSUME LoopInv, ToolsJoin
  PROVE  Records'
  <1>1. /\ at = "tools" /\ (\A k \in DOMAIN running : running[k] # "running")
        /\ chat' = chat \o Results /\ running' = <<>> /\ UNCHANGED evidence
        /\ (at' = "asking" /\ round' = round + 1) \/ at' = "failed"
    BY DEF ToolsJoin
  <1>2. PICK n \in 0..MaxCalls : running \in [1..n -> Ending \cup {"running"}]
    BY DEF LoopInv, Bounds
  <1>3. Results \in Seq(Tool) /\ Len(Results) = n
        /\ \A k \in 1..n : Results[k] = [role |-> "tool", id |-> CallId(round, k), ending |-> running[k]]
    <2>1. n \in Nat /\ DOMAIN running = 1..n
      BY <1>2, BoundAssumption
    <2>2. \A k \in 1..n : [role |-> "tool", id |-> CallId(round, k), ending |-> running[k]] \in Tool
      BY <1>1, <1>2, <2>1, CallIdTyped DEF Tool, LoopInv
    <2>3. Results \in [1..n -> Tool]
      BY <2>1, <2>2 DEF Results
    <2>4. Results \in Seq(Tool) /\ Len(Results) = n
      BY <2>1, <2>3
    <2>5. QED
      BY <2>1, <2>4 DEF Results
  <1>4. Results \in Seq(Tool \cup Request) /\ chat \in Seq(Tool \cup Request)
    BY <1>3 DEF LoopInv, Records, ChatTyped
  <1> DEFINE l == Len(chat)
  <1>5. l \in Nat /\ n \in Nat /\ DOMAIN chat = 1..l
    BY Lengths, BoundAssumption DEF LoopInv, Records
  <1>6. /\ chat' \in Seq(Tool \cup Request) /\ DOMAIN chat' = 1..(l + n)
        /\ \A p \in 1..l : chat'[p] = chat[p]
        /\ \A k \in 1..n : chat'[l + k] = Results[k]
    <2>1. /\ chat' \in Seq(Tool \cup Request) /\ Len(chat') = l + n
          /\ \A p \in 1..(l + n) : chat'[p] = IF p <= l THEN chat[p] ELSE Results[p - l]
      BY <1>1, <1>3, <1>4, ConcatProperties
    <2>2. DOMAIN chat' = 1..(l + n)
      BY <2>1, LenProperties
    <2>3. \A k \in 1..n : l + k \in 1..(l + n) /\ ~(l + k <= l) /\ l + k - l = k
      BY <1>5
    <2>4. \A p \in 1..l : p \in 1..(l + n) /\ p <= l
      BY <1>5
    <2>5. QED
      BY <2>1, <2>2, <2>3, <2>4
  <1> HIDE DEF l
  <1>7. Noted \subseteq 1..n /\ \A k \in 1..n : k \in Noted <=> running[k] # "unknown"
    BY <1>1, <1>2 DEF Noted, Ending
  <1>8. Told' = Told \cup {l + k : k \in Noted}
    <2>1. \A p \in 1..l : p \in Told' <=> p \in Told
      BY <1>5, <1>6 DEF Told
    <2>2. \A k \in 1..n : l + k \in Told' <=> k \in Noted
      BY <1>3, <1>5, <1>6, <1>7 DEF Told
    <2>3. \A p \in 1..(l + n) : p \in 1..l \/ \E k \in 1..n : p = l + k
      <3> SUFFICES ASSUME NEW p \in 1..(l + n), p \notin 1..l PROVE \E k \in 1..n : p = l + k
        OBVIOUS
      <3>1. p - l \in 1..n /\ p = l + (p - l)
        BY <1>5
      <3>2. QED
        BY <3>1
    <2>4. Told \subseteq 1..l /\ Told' \subseteq 1..(l + n)
      BY <1>5, <1>6 DEF Told
    <2>5. QED
      BY <1>7, <2>1, <2>2, <2>3, <2>4
  <1>9. /\ \A p \in Told : chat'[p] = chat[p] /\ chat'[p].id = chat[p].id
        /\ \A k \in Noted : chat'[l + k].id = CallId(round, k) /\ chat'[l + k].ending = running[k]
    <2>1. \A p \in Told : p \in 1..l
      BY <1>5 DEF Told
    <2>2. \A k \in Noted : chat'[l + k] = [role |-> "tool", id |-> CallId(round, k), ending |-> running[k]]
      BY <1>3, <1>6, <1>7
    <2>3. ASSUME NEW k \in Noted
          PROVE  chat'[l + k].id = CallId(round, k) /\ chat'[l + k].ending = running[k]
      <3>1. chat'[l + k] = [role |-> "tool", id |-> CallId(round, k), ending |-> running[k]]
        BY <2>2
      <3> DEFINE told == chat'[l + k]
      <3>2. told.id = CallId(round, k) /\ told.ending = running[k]
        BY <3>1
      <3>3. QED
        BY <3>2
    <2>4. \A p \in Told : chat'[p] = chat[p]
      BY <1>6, <2>1
    <2>5. QED
      BY <2>3, <2>4
  <1>10. \A p \in Told : chat[p].id[1] < round
    BY <1>1 DEF LoopInv, Records, ToldIsPast, Ended
  <1>11. Noted' = {}
    BY <1>1 DEF Noted
  <1>12. round \in Nat /\ Noted \subseteq Nat
    BY <1>5, <1>7 DEF LoopInv, Bounds
  <1>13. ToldOnce'
    <2>1. \A p \in Told, k \in Noted : chat[p].id # CallId(round, k)
      BY <1>10, <1>12 DEF CallId
    <2>2. \A j, k \in Noted : CallId(round, j) = CallId(round, k) => j = k
      BY DEF CallId
    <2>3. QED
      BY <1>8, <1>9, <2>1, <2>2 DEF ToldOnce, LoopInv, Records
  <1>14. \A id, failed : Recorded(id, failed)' <=> Recorded(id, failed)
    BY <1>1 DEF Recorded
  <1>15. ToldIsRecorded'
    BY <1>8, <1>9, <1>14 DEF ToldIsRecorded, NotedIsRecorded, LoopInv, Records
  <1>16. NothingElse'
    <2> SUFFICES ASSUME NEW q \in DOMAIN evidence PROVE \E p \in Told' : chat'[p].id = evidence[q].id
      BY <1>1 DEF NothingElse
    <2>1. CASE \E p \in Told : chat[p].id = evidence[q].id
      BY <1>8, <1>9, <2>1
    <2>2. ASSUME NEW k \in Noted, CallId(round, k) = evidence[q].id
          PROVE  \E p \in Told' : chat'[p].id = evidence[q].id
      <3>1. l + k \in Told' /\ chat'[l + k].id = evidence[q].id
        BY <1>8, <1>9, <2>2
      <3>2. QED
        BY <3>1
    <2>3. QED
      BY <2>1, <2>2 DEF NothingElse, LoopInv, Records
  <1>17. ToldIsPast'
    <2>1. \A k \in Noted : CallId(round, k)[1] = round
      BY DEF CallId
    <2>2. at' \notin Ended => round' = round + 1
      BY <1>1 DEF Ended
    <2>3. ASSUME NEW p \in Told, round' = round + 1
          PROVE  chat'[p].id[1] < round'
      <3>1. chat[p] \in Tool
        BY Lengths DEF LoopInv, Records
      <3>2. chat[p].id[1] \in Nat
        BY <3>1 DEF Tool, CallIds
      <3>3. QED
        BY <1>9, <1>10, <1>12, <2>3, <3>2
    <2>4. ASSUME NEW k \in Noted, round' = round + 1
          PROVE  chat'[l + k].id[1] < round'
      BY <1>9, <1>12, <2>1, <2>4
    <2>5. QED
      BY <1>8, <2>2, <2>3, <2>4 DEF ToldIsPast
  <1>18. ChatTyped'
    BY <1>1, <1>6 DEF ChatTyped, LoopInv, Records
  <1>19. NotedIsRecorded' /\ RecordedOnce'
    BY <1>1, <1>11 DEF NotedIsRecorded, RecordedOnce, LoopInv, Records
  <1>20. QED
    BY <1>13, <1>15, <1>16, <1>17, <1>18, <1>19 DEF Records

(* Every step keeps the records. *)
LEMMA NextRecords ==
  ASSUME LoopInv, [Next]_vars
  PROVE  Records'
  <1>1. CASE UNCHANGED vars
    BY <1>1, QuietRecords DEF vars
  <1>2. ASSUME NEW retryable \in BOOLEAN, RequestFails(retryable)
        PROVE  Records'
    BY <1>2, QuietRecords DEF RequestFails, Ended
  <1>3. CASE Retry
    BY <1>3, QuietRecords DEF Retry, Ended
  <1>4. ASSUME NEW content \in Content, Answers(content)
        PROVE  Records'
    <2>1. CASE content = "invalid" /\ loop = 1
      <3>1. chat' = <<>> /\ evidence' = <<>> /\ running' = <<>>
        BY <1>4, <2>1 DEF Answers, LoopInv, Bounds
      <3>2. QED
        BY <3>1 DEF Records, ChatTyped, RecordedOnce, ToldOnce, ToldIsRecorded, NotedIsRecorded, NothingElse, ToldIsPast,
           Recorded, Noted, Told
    <2>2. CASE ~(content = "invalid" /\ loop = 1)
      BY <1>4, <2>2, QuietRecords DEF Answers, Ended
    <2>3. QED
      BY <2>1, <2>2
  <1>5. QED
    BY <1>1, <1>2, <1>3, <1>4, AskingRecords, EndingRecords, JoiningRecords DEF Next, ModelStep, ToolStep

(* The invariant always holds. *)
LEMMA LoopAlways == Spec => []LoopInv
  <1>1. Init => LoopInv
    <2> SUFFICES ASSUME Init PROVE LoopInv
      OBVIOUS
    <2>1. Spent = 1
      <3>1. /\ (1 - 1) * (MaxRounds * (MaxRetries + 1)) = 0 /\ (1 - 1) * (MaxRetries + 1) = 0
        BY BoundAssumption
      <3>2. QED
        BY <3>1 DEF Spent, Init
    <2>2. << >> \in [1..0 -> Ending \cup {"running"}] /\ 0 \in 0..MaxCalls
      BY BoundAssumption
    <2>3. Bounds
      BY <2>1, <2>2, BoundAssumption DEF Init, Bounds
    <2>4. QED
      BY <2>3, EmptyRecords DEF LoopInv, Init
  <1>2. LoopInv /\ [Next]_vars => LoopInv'
    BY NextBounds, NextRecords DEF LoopInv
  <1>3. QED
    BY <1>1, <1>2, PTL DEF Spec

-----------------------------------------------------------------------------
(* Every variable of AgentLoop keeps its type; in particular an agent      *)
(* makes no more requests than its rounds, retries and its one repair      *)
(* allow (runAgent, withTimeoutAndRetry).                                  *)
THEOREM LoopTypeCorrect == Spec => []TypeOK
  <1>1. ASSUME LoopInv
        PROVE  Len(evidence) <= MaxRounds * MaxCalls
    <2>1. /\ Len(evidence) \in Nat /\ DOMAIN evidence = 1..Len(evidence)
          /\ \A q \in DOMAIN evidence : evidence[q].id \in CallIds
      BY <1>1, Lengths DEF LoopInv, Records, Entry
    <2>2. IsFiniteSet(CallIds) /\ Cardinality(CallIds) = MaxRounds * MaxCalls
      <3>1. /\ IsFiniteSet(1..MaxRounds) /\ Cardinality(1..MaxRounds) = MaxRounds
            /\ IsFiniteSet(1..MaxCalls) /\ Cardinality(1..MaxCalls) = MaxCalls
        BY BoundAssumption, FS_Interval
      <3>2. QED
        BY <3>1, FS_Product DEF CallIds
    <2> DEFINE f == [q \in DOMAIN evidence |-> evidence[q].id]
    <2>3. f \in Injection(1..Len(evidence), CallIds)
      <3>1. f \in [1..Len(evidence) -> CallIds]
        BY <2>1
      <3>2. \A p, q \in 1..Len(evidence) : f[p] = f[q] => p = q
        BY <1>1, <2>1 DEF LoopInv, Records, RecordedOnce
      <3>3. QED
        BY <3>1, <3>2 DEF Injection, IsInjective
    <2>4. Cardinality(1..Len(evidence)) <= Cardinality(CallIds)
      BY <2>2, <2>3, FS_Injection
    <2>5. Cardinality(1..Len(evidence)) = Len(evidence)
      BY <2>1, UpTo
    <2>6. QED
      BY <2>2, <2>4, <2>5
  <1>2. ASSUME LoopInv
        PROVE  sent \in 1..(2 * MaxRounds * (MaxRetries + 1))
    <2>1. PICK K \in Nat : K = MaxRetries + 1
      BY BoundAssumption
    <2>2. PICK M \in Nat : M = MaxRounds * K
      BY <2>1, RoundSpends, <1>2 DEF LoopInv
    <2>3. PICK R \in Nat : R = (round - 1) * K /\ R + K <= M
      BY <1>2, <2>1, <2>2, RoundSpends DEF LoopInv
    <2>4. Spent = (loop - 1) * M + R + attempt + 1
      BY <2>1, <2>2, <2>3 DEF Spent
    <2>5. (loop = 1 \/ loop = 2) /\ attempt \in Nat /\ attempt + 1 <= K
      BY <1>2, <2>1, BoundAssumption DEF LoopInv, Bounds
    <2>6. Spent \in Nat /\ Spent <= M + M
      BY <2>3, <2>4, <2>5
    <2>7. 2 * MaxRounds * (MaxRetries + 1) = M + M
      BY <2>1, <2>2, BoundAssumption
    <2>8. QED
      BY <1>2, <2>6, <2>7 DEF LoopInv, Bounds
  <1>3. LoopInv => TypeOK
    BY <1>1, <1>2 DEF LoopInv, Bounds, TypeOK
  <1>4. QED
    BY <1>3, LoopAlways, PTL

(* The evidence an output is kept with is what the model was told: every   *)
(* tool's data or failure once, failures marked, and nothing of the loop a *)
(* repair replaced (toolCalls and messages of runAgent).                   *)
THEOREM EvidenceIsTrue == Spec => []EvidenceIsWhatTheModelSaw
  <1>1. ASSUME LoopInv, at = "output"
        PROVE  Len(evidence) = Cardinality(Told)
    <2>1. /\ Len(evidence) \in Nat /\ DOMAIN evidence = 1..Len(evidence)
      BY <1>1, Lengths DEF LoopInv, Records
    <2>2. Noted = {}
      BY <1>1 DEF LoopInv, Bounds, Noted
    <2>3. \A q \in 1..Len(evidence) : \E p \in Told : chat[p].id = evidence[q].id
      BY <1>1, <2>1, <2>2 DEF LoopInv, Records, NothingElse
    <2> DEFINE f == [q \in 1..Len(evidence) |-> CHOOSE p \in Told : chat[p].id = evidence[q].id]
    <2>4. \A q \in 1..Len(evidence) : f[q] \in Told /\ chat[f[q]].id = evidence[q].id
      BY <2>3
    <2>5. f \in [1..Len(evidence) -> Told]
      BY <2>4
    <2> HIDE DEF f
    <2>6. \A p, q \in 1..Len(evidence) : f[p] = f[q] => p = q
      BY <1>1, <2>1, <2>4 DEF LoopInv, Records, RecordedOnce
    <2>7. \A p \in Told : \E q \in 1..Len(evidence) : f[q] = p
      <3> SUFFICES ASSUME NEW p \in Told PROVE \E q \in 1..Len(evidence) : f[q] = p
        OBVIOUS
      <3>1. PICK q \in 1..Len(evidence) : evidence[q] = [id |-> chat[p].id, failed |-> chat[p].ending = "thrown"]
        BY <1>1, <2>1 DEF LoopInv, Records, ToldIsRecorded, Recorded
      <3>2. chat[f[q]].id = chat[p].id /\ f[q] \in Told
        BY <2>4, <3>1
      <3>3. QED
        BY <1>1, <3>2 DEF LoopInv, Records, ToldOnce
    <2>8. f \in Bijection(1..Len(evidence), Told)
      BY <2>5, <2>6, <2>7 DEF Bijection, Injection, Surjection, IsInjective
    <2>9. IsFiniteSet(1..Len(evidence)) /\ Cardinality(1..Len(evidence)) = Len(evidence)
      BY <2>1, UpTo
    <2>10. QED
      BY <2>8, <2>9, FS_Bijection DEF ExistsBijection
  <1>2. ASSUME LoopInv, NEW p \in Told
        PROVE  \E q \in DOMAIN evidence : evidence[q] = [id |-> chat[p].id, failed |-> chat[p].ending = "thrown"]
    BY <1>2 DEF LoopInv, Records, ToldIsRecorded, Recorded
  <1>3. LoopInv => EvidenceIsWhatTheModelSaw
    BY <1>1, <1>2 DEF EvidenceIsWhatTheModelSaw
  <1>4. QED
    BY <1>3, LoopAlways, PTL

-----------------------------------------------------------------------------
(***************************************************************************)
(* The stream.  The screen is a fold of onEvent over a sequence of events; *)
(* a fold is the end of its trace, the screens after each event.           *)
(***************************************************************************)

(* What useAgentStream may return. *)
Screen == [agents : [Agent -> {"pending", "running", "done", "skipped", "failed"}],
           status : {"idle", "streaming", "done", "error"}, result : Result \cup {None}]

(* The least element of a set of naturals. *)
LEMMA SmallestExists ==
  ASSUME NEW N \in SUBSET Nat, N # {}
  PROVE  \E x \in N : \A y \in N : x <= y
  <1>1. \A x, y \in Nat : y < x => <<y, x>> \in OpToRel(<, Nat)
    BY DEF OpToRel
  <1>2. PICK less : IsWellFoundedOn(less, Nat) /\ \A x, y \in Nat : y < x => <<y, x>> \in less
    BY <1>1, NatLessThanWellFounded, Zenon
  <1>3. PICK x \in N : \A y \in N : <<y, x>> \notin less
    BY <1>2, WFMin
  <1>4. \A y \in N : x \in Nat /\ y \in Nat /\ ~(y < x)
    BY <1>2, <1>3, Zenon
  <1>5. QED
    BY <1>4

(* Max of 1..k is k. *)
LEMMA MaxUpTo ==
  ASSUME NEW k \in Nat, NEW T \in SUBSET (1..k), k \in T
  PROVE  Max(T) = k
  <1>1. \A y \in T : k >= y
    OBVIOUS
  <1>2. \A x \in T : (\A y \in T : x >= y) => x = k
    OBVIOUS
  <1>3. QED
    BY <1>1, <1>2 DEF Max

(* FoldLeft's recursive function, over the positions up to n. *)
Folds(g, s, b, n) ==
  g = [T \in SUBSET (1..n) |-> IF T = {} THEN b ELSE Shown(g[T \ {Max(T)}], s[Max(T)])]

(* FoldLeft's recursive function exists. *)
LEMMA FoldExists ==
  ASSUME NEW s, NEW b, NEW n \in Nat
  PROVE  \E g : Folds(g, s, b, n)
  <1> DEFINE Good(k, g) == Folds(g, s, b, k)
             Bad == {k \in Nat : ~ \E g : Good(k, g)}
  <1>1. Good(0, [T \in SUBSET (1..0) |-> b])
    <2>1. \A T \in SUBSET (1..0) : T = {}
      OBVIOUS
    <2>2. QED
      BY <2>1 DEF Folds
  <1>2. ASSUME NEW k \in Nat, NEW g, Good(k, g)
        PROVE  \E h : Good(k + 1, h)
    <2> DEFINE h == [T \in SUBSET (1..(k + 1)) |->
                       IF k + 1 \in T THEN Shown(g[T \ {k + 1}], s[k + 1]) ELSE g[T]]
    <2>1. ASSUME NEW T \in SUBSET (1..(k + 1)), T # {}
          PROVE  h[T] = Shown(h[T \ {Max(T)}], s[Max(T)])
      <3>1. CASE k + 1 \in T
        <4>1. Max(T) = k + 1
          <5>1. k + 1 \in Nat
            OBVIOUS
          <5>2. QED
            BY <3>1, <5>1, MaxUpTo
        <4>2. T \ {k + 1} \in SUBSET (1..k) /\ k + 1 \notin T \ {k + 1}
          OBVIOUS
        <4>3. h[T \ {k + 1}] = g[T \ {k + 1}]
          BY <4>2
        <4>4. QED
          BY <3>1, <4>1, <4>3
      <3>2. CASE k + 1 \notin T
        <4>1. T \in SUBSET (1..k)
          BY <3>2
        <4>3. T \ {Max(T)} \in SUBSET (1..(k + 1)) /\ k + 1 \notin T \ {Max(T)}
          BY <3>2
        <4>4. QED
          BY <3>2, <4>1, <4>3, <1>2, <2>1 DEF Folds
      <3>3. QED
        BY <3>1, <3>2
    <2>2. h[{}] = b
      <3>1. {} \in SUBSET (1..k) /\ {} \in SUBSET (1..(k + 1)) /\ k + 1 \notin {}
        OBVIOUS
      <3>2. QED
        BY <1>2, <3>1 DEF Folds
    <2>3. Good(k + 1, h)
      <3> HIDE DEF h
      <3>1. DOMAIN h = SUBSET (1..(k + 1)) /\ h = [T \in SUBSET (1..(k + 1)) |-> h[T]]
        BY DEF h
      <3>2. QED
        BY <2>1, <2>2, <3>1 DEF Folds
    <2>4. QED
      BY <2>3
  <1> HIDE DEF Good
  <1>3. Bad = {}
    <2>1. SUFFICES ASSUME Bad # {} PROVE FALSE
      OBVIOUS
    <2>2. PICK x \in Bad : \A y \in Bad : x <= y
      <3>1. Bad \in SUBSET Nat
        OBVIOUS
      <3>2. QED
        BY <2>1, <3>1, SmallestExists
    <2>3. x # 0
      BY <1>1
    <2>4. x - 1 \in Nat /\ x - 1 \notin Bad
      BY <2>2, <2>3
    <2>5. PICK g : Good(x - 1, g)
      BY <2>4
    <2>6. \E h : Good((x - 1) + 1, h)
      BY <1>2, <2>4, <2>5
    <2>7. QED
      BY <2>6, <2>2
  <1>4. QED
    BY <1>3 DEF Good

(* FoldLeft as the last of its steps. *)
LEMMA FoldUnfolds ==
  ASSUME NEW s, NEW b, NEW n \in Nat, DOMAIN s = 1..n
  PROVE  \E g : Folds(g, s, b, n) /\ FoldLeft(Shown, b, s) = g[1..n]
  <1>1. FoldLeft(Shown, b, s) = (CHOOSE g : Folds(g, s, b, n))[1..n]
    BY DEF FoldLeft, MapThenFoldSet, Folds
  <1>2. \E g : Folds(g, s, b, n)
    BY FoldExists
  <1>3. QED
    BY <1>1, <1>2

(* The fold as a trace: the screen after each event. *)
Trace(f, s, b) ==
  /\ DOMAIN f = 0..Len(s) /\ f[0] = b
  /\ \A k \in 1..Len(s) : f[k] = Shown(f[k - 1], s[k])

(* A fold is the end of a trace... *)
LEMMA FoldTrace ==
  ASSUME NEW s \in Seq(Event), NEW b
  PROVE  \E f : Trace(f, s, b) /\ FoldLeft(Shown, b, s) = f[Len(s)]
  <1> DEFINE n == Len(s)
  <1>1. n \in Nat /\ DOMAIN s = 1..n
    OBVIOUS
  <1>2. PICK g : Folds(g, s, b, n) /\ FoldLeft(Shown, b, s) = g[1..n]
    BY <1>1, FoldUnfolds
  <1> DEFINE f == [k \in 0..n |-> g[1..k]]
  <1>3. f[0] = b
    <2>1. 1..0 = {} /\ {} \in SUBSET (1..n)
      OBVIOUS
    <2>2. QED
      BY <1>1, <1>2, <2>1 DEF Folds
  <1>4. ASSUME NEW k \in 1..n
        PROVE  f[k] = Shown(f[k - 1], s[k])
    <2>1. k \in Nat /\ 1..k \in SUBSET (1..n) /\ k \in 1..k
      BY <1>1
    <2>2. Max(1..k) = k
      BY <2>1, MaxUpTo
    <2>3. (1..k) \ {k} = 1..(k - 1)
      BY <2>1
    <2>4. g[1..k] = Shown(g[1..(k - 1)], s[k])
      <3>1. 1..k # {}
        BY <2>1
      <3>2. QED
        BY <1>2, <2>1, <2>2, <2>3, <3>1 DEF Folds
    <2>5. QED
      BY <2>4, <1>1
  <1>5. QED
    <2>1. Trace(f, s, b)
      BY <1>1, <1>3, <1>4 DEF Trace
    <2>2. f[n] = g[1..n]
      BY <1>1
    <2>3. QED
      BY <1>2, <2>1, <2>2

(* ... and there is one trace. *)
LEMMA TraceUnique ==
  ASSUME NEW s \in Seq(Event), NEW b, NEW f, NEW g, Trace(f, s, b), Trace(g, s, b)
  PROVE  \A k \in 0..Len(s) : f[k] = g[k]
  <1> DEFINE Bad == {k \in 0..Len(s) : f[k] # g[k]}
  <1>1. SUFFICES ASSUME Bad # {} PROVE FALSE
    OBVIOUS
  <1>2. Len(s) \in Nat /\ Bad \in SUBSET Nat
    OBVIOUS
  <1>3. PICK x \in Bad : \A y \in Bad : x <= y
    BY <1>1, <1>2, SmallestExists
  <1>4. x \in 1..Len(s)
    BY <1>2, <1>3 DEF Trace
  <1>5. x - 1 \in 0..Len(s) /\ x - 1 \notin Bad
    BY <1>2, <1>3, <1>4
  <1>6. f[x] = g[x]
    BY <1>4, <1>5 DEF Trace
  <1>7. QED
    BY <1>3, <1>6

(* The fold has the value of every trace at its end. *)
LEMMA FoldIsTrace ==
  ASSUME NEW s \in Seq(Event), NEW b, NEW f, Trace(f, s, b)
  PROVE  FoldLeft(Shown, b, s) = f[Len(s)]
  <1>1. PICK g : Trace(g, s, b) /\ FoldLeft(Shown, b, s) = g[Len(s)]
    BY FoldTrace
  <1>2. Len(s) \in 0..Len(s)
    OBVIOUS
  <1>3. f[Len(s)] = g[Len(s)]
    BY <1>1, <1>2, TraceUnique
  <1>4. QED
    BY <1>1, <1>3

(* An event leaves a screen a screen. *)
LEMMA ShownType ==
  ASSUME NEW s \in Screen, NEW e \in Event
  PROVE  Shown(s, e) \in Screen
  <1>1. CASE \E a \in Agent : e = <<"started", a>>
    BY <1>1 DEF Shown, Screen
  <1>2. CASE \E a \in Agent : e = <<"completed", a>>
    BY <1>2 DEF Shown, Screen
  <1>3. CASE \E a \in Agent : e = <<"failed", a>>
    BY <1>3 DEF Shown, Screen
  <1>4. CASE e = <<"skipped", "DEMAND">>
    <2>1. "DEMAND" \in Agent
      BY DEF Agent
    <2>2. QED
      BY <1>4, <2>1 DEF Shown, Screen
  <1>5. CASE \E r \in Result : e = <<"ready", r>>
    <2>1. PICK r \in Result : e = <<"ready", r>>
      BY <1>5
    <2>2. e[1] = "ready" /\ e[2] = r
      BY <2>1
    <2>3. Shown(s, e) = [s EXCEPT !.result = r, !.status = "done"]
      BY <2>2 DEF Shown
    <2>4. QED
      BY <2>3 DEF Screen
  <1>6. CASE \E a \in {"INVENTORY", "STRATEGY", None} : e = <<"lost", a>>
    BY <1>6 DEF Shown, Screen
  <1>7. QED
    BY <1>1, <1>2, <1>3, <1>4, <1>5, <1>6 DEF Event

(* Folding events into a screen gives a screen. *)
LEMMA FoldType ==
  ASSUME NEW s \in Seq(Event), NEW b \in Screen
  PROVE  FoldLeft(Shown, b, s) \in Screen
  <1>1. PICK f : Trace(f, s, b) /\ FoldLeft(Shown, b, s) = f[Len(s)]
    BY FoldTrace
  <1> DEFINE Bad == {k \in 0..Len(s) : f[k] \notin Screen}
  <1>2. SUFFICES ASSUME Bad # {} PROVE FALSE
    BY <1>1
  <1>3. Len(s) \in Nat /\ Bad \in SUBSET Nat
    OBVIOUS
  <1>4. PICK x \in Bad : \A y \in Bad : x <= y
    BY <1>2, <1>3, SmallestExists
  <1>5. x \in 1..Len(s)
    BY <1>1, <1>3, <1>4 DEF Trace
  <1>6. x - 1 \in 0..Len(s) /\ x - 1 \notin Bad
    BY <1>3, <1>4, <1>5
  <1>7. f[x] \in Screen
    <2>1. s[x] \in Event /\ f[x - 1] \in Screen
      BY <1>5, <1>6
    <2>2. f[x] = Shown(f[x - 1], s[x])
      BY <1>1, <1>5 DEF Trace
    <2>3. QED
      BY <2>1, <2>2, ShownType
  <1>8. QED
    BY <1>4, <1>7

(* Dispatching one batch after another is dispatching them together. *)
LEMMA FoldConcat ==
  ASSUME NEW s \in Seq(Event), NEW t \in Seq(Event), NEW b
  PROVE  FoldLeft(Shown, FoldLeft(Shown, b, s), t) = FoldLeft(Shown, b, s \o t)
  <1> DEFINE m == Len(s)
             n == Len(t)
             c == FoldLeft(Shown, b, s)
  <1>1. m \in Nat /\ n \in Nat /\ s \o t \in Seq(Event) /\ Len(s \o t) = m + n
    OBVIOUS
  <1>2. PICK f : Trace(f, s, b) /\ c = f[m]
    BY FoldTrace
  <1>3. PICK g : Trace(g, t, c) /\ FoldLeft(Shown, c, t) = g[n]
    BY FoldTrace
  <1> DEFINE h == [k \in 0..(m + n) |-> IF k <= m THEN f[k] ELSE g[k - m]]
  <1> HIDE DEF c
  <1>4. \A k \in 1..m : (s \o t)[k] = s[k]
    OBVIOUS
  <1>5. \A k \in 1..n : (s \o t)[m + k] = t[k]
    OBVIOUS
  <1> HIDE DEF m, n
  <1>6. ASSUME NEW k \in 1..(m + n)
        PROVE  h[k] = Shown(h[k - 1], (s \o t)[k])
    <2>1. CASE k <= m
      <3>1. k \in 1..m /\ k - 1 <= m /\ k - 1 \in 0..(m + n)
        BY <1>1, <2>1
      <3>2. f[k] = Shown(f[k - 1], s[k])
        BY <1>2, <3>1 DEF Trace, m
      <3>3. h[k] = f[k] /\ h[k - 1] = f[k - 1]
        BY <1>1, <2>1, <3>1
      <3>4. (s \o t)[k] = s[k]
        BY <1>4, <3>1
      <3>5. QED
        BY <3>2, <3>3, <3>4
    <2>2. CASE k = m + 1
      <3>1. 1 \in 1..n /\ k - m = 1 /\ k - 1 = m /\ k - 1 \in 0..(m + n) /\ ~(k <= m)
        BY <1>1, <2>2
      <3>2. g[1] = Shown(g[0], t[1]) /\ g[0] = f[m]
        <4>1. g[1] = Shown(g[1 - 1], t[1]) /\ g[0] = c
          BY <1>3, <3>1 DEF Trace, n
        <4>2. 1 - 1 = 0
          OBVIOUS
        <4>3. QED
          BY <1>2, <4>1, <4>2
      <3>3. (s \o t)[k] = t[1]
        BY <1>5, <2>2, <3>1
      <3>4. h[k] = g[1] /\ h[k - 1] = f[m]
        BY <3>1, <1>1
      <3>5. QED
        BY <3>2, <3>3, <3>4
    <2>3. CASE k > m + 1
      <3>1. /\ k - m \in 1..n /\ k - m - 1 = (k - 1) - m /\ k - 1 \in 0..(m + n)
            /\ ~(k <= m) /\ ~(k - 1 <= m) /\ k = m + (k - m)
        BY <1>1, <2>3
      <3>2. g[k - m] = Shown(g[(k - 1) - m], t[k - m])
        BY <1>3, <3>1 DEF Trace, n
      <3>3. (s \o t)[k] = t[k - m]
        BY <1>5, <3>1
      <3>4. QED
        BY <3>1, <3>2, <3>3
    <2>4. QED
      BY <1>1, <2>1, <2>2, <2>3
  <1>7. h[0] = b /\ DOMAIN h = 0..(m + n)
    BY <1>1, <1>2 DEF Trace
  <1>8. Trace(h, s \o t, b)
    <2> HIDE DEF h
    <2>1. QED
      BY <1>1, <1>6, <1>7 DEF Trace
  <1>9. h[m + n] = g[n]
    <2>1. CASE n = 0
      BY <1>1, <1>2, <1>3, <2>1 DEF Trace
    <2>2. CASE n # 0
      <3>1. ~(m + n <= m) /\ (m + n) - m = n /\ m + n \in 0..(m + n)
        BY <1>1, <2>2
      <3>2. QED
        BY <3>1
    <2>3. QED
      BY <2>1, <2>2
  <1>10. QED
    <2> HIDE DEF h
    <2>1. FoldLeft(Shown, b, s \o t) = h[m + n]
      BY <1>1, <1>8, FoldIsTrace
    <2>2. QED
      BY <1>3, <1>9, <2>1 DEF c

(* The phase of a frame: 0 between two frames, 1 to 3 inside the frame of  *)
(* an event, 4 and 5 inside a comment; and what the buffer holds of it.    *)
Phase == 0..5

Part(q, e) ==
  CASE q = 0 -> <<>>
    [] q = 1 -> <<<<"data", e, 1>>>>
    [] q = 2 -> <<<<"data", e, 1>>, <<"data", e, 2>>>>
    [] q = 3 -> <<<<"data", e, 1>>, <<"data", e, 2>>, Newline>>
    [] q = 4 -> <<<<"comment">>>>
    [] q = 5 -> <<<<"comment">>, Newline>>

(* Piece p takes the bytes of log from phase q, after n events, to phase r *)
(* after m.                                                                *)
Carry(log, p, q, n, r, m) ==
  \/ q = 0 /\ r = 1 /\ m = n /\ p = <<"data", log[n + 1], 1>>
  \/ q = 1 /\ r = 2 /\ m = n /\ p = <<"data", log[n + 1], 2>>
  \/ q = 2 /\ r = 3 /\ m = n /\ p = Newline
  \/ q = 3 /\ r = 0 /\ m = n + 1 /\ p = Newline
  \/ q = 0 /\ r = 4 /\ m = n /\ p = <<"comment">>
  \/ q = 4 /\ r = 5 /\ m = n /\ p = Newline
  \/ q = 5 /\ r = 0 /\ m = n /\ p = Newline

(* The bytes are those of log from phase q, after n events, to phase r     *)
(* after m: ph and got are the phase and the events after each piece.      *)
Carries(ph, got, bytes, log, q, n, r, m) ==
  /\ ph \in [0..Len(bytes) -> Phase] /\ got \in [0..Len(bytes) -> 0..Len(log)]
  /\ ph[0] = q /\ got[0] = n /\ ph[Len(bytes)] = r /\ got[Len(bytes)] = m
  /\ \A i \in 0..Len(bytes) : ph[i] \in 1..3 => got[i] < Len(log)
  /\ \A i \in 1..Len(bytes) : Carry(log, bytes[i], ph[i - 1], got[i - 1], ph[i], got[i])

(* A run of pieces, which delivers the events of log after the first n up *)
(* to the m-th.                                                           *)
Run(bytes, log, q, n, r, m) == \E ph, got : Carries(ph, got, bytes, log, q, n, r, m)

(* Whether a raw frame has its event, phase by phase. *)
LEMMA ParsedPart ==
  ASSUME NEW e
  PROVE  /\ Parsed(<<>>) = <<>>
         /\ Parsed(<<<<"data", e, 1>>>>) = <<>>
         /\ Parsed(<<<<"data", e, 1>>, <<"data", e, 2>>>>) = <<e>>
         /\ Parsed(<<<<"data", e, 1>>, <<"data", e, 2>>, Newline>>) = <<e>>
         /\ Parsed(<<<<"comment">>>>) = <<>>
         /\ Parsed(<<<<"comment">>, Newline>>) = <<>>
  <1> DEFINE Data(raw) == {i \in DOMAIN raw : raw[i][1] = "data"}
  <1>1. ASSUME NEW raw, Data(raw) = {1, 2}, raw[1] = <<"data", e, 1>>
        PROVE  Parsed(raw) = <<e>>
    <2>1. Min(Data(raw)) = 1
      BY <1>1 DEF Min
    <2>2. \E i, j \in Data(raw) : i # j
      BY <1>1
    <2>3. Parsed(raw) = <<raw[Min(Data(raw))][2]>>
      BY <2>2 DEF Parsed
    <2>4. QED
      BY <2>1, <2>3, <1>1
  <1>2. ASSUME NEW raw, \A i, j \in Data(raw) : i = j
        PROVE  Parsed(raw) = <<>>
    BY <1>2 DEF Parsed
  <1>3. Parsed(<<>>) = <<>>
    <2>1. Data(<<>>) = {}
      OBVIOUS
    <2>2. QED
      BY <1>2, <2>1
  <1>4. Parsed(<<<<"data", e, 1>>>>) = <<>>
    <2>1. Data(<<<<"data", e, 1>>>>) \subseteq {1}
      OBVIOUS
    <2>2. QED
      BY <1>2, <2>1
  <1>5. Parsed(<<<<"data", e, 1>>, <<"data", e, 2>>>>) = <<e>>
    <2>1. Data(<<<<"data", e, 1>>, <<"data", e, 2>>>>) = {1, 2}
      OBVIOUS
    <2>2. QED
      BY <1>1, <2>1
  <1>6. Parsed(<<<<"data", e, 1>>, <<"data", e, 2>>, Newline>>) = <<e>>
    <2>1. Data(<<<<"data", e, 1>>, <<"data", e, 2>>, Newline>>) = {1, 2}
      BY DEF Newline
    <2>2. QED
      BY <1>1, <2>1
  <1>7. Parsed(<<<<"comment">>>>) = <<>>
    <2>1. Data(<<<<"comment">>>>) = {}
      OBVIOUS
    <2>2. QED
      BY <1>2, <2>1
  <1>8. Parsed(<<<<"comment">>, Newline>>) = <<>>
    <2>1. Data(<<<<"comment">>, Newline>>) = {}
      BY DEF Newline
    <2>2. QED
      BY <1>2, <2>1
  <1>9. QED
    BY <1>3, <1>4, <1>5, <1>6, <1>7, <1>8

(* What the buffer holds in each phase. *)
LEMMA Parts ==
  ASSUME NEW e
  PROVE  /\ Part(0, e) = <<>>
         /\ Part(1, e) = <<<<"data", e, 1>>>>
         /\ Part(2, e) = <<<<"data", e, 1>>, <<"data", e, 2>>>>
         /\ Part(3, e) = <<<<"data", e, 1>>, <<"data", e, 2>>, Newline>>
         /\ Part(4, e) = <<<<"comment">>>>
         /\ Part(5, e) = <<<<"comment">>, Newline>>
  BY DEF Part

(* Short tuples. *)
LEMMA AppendThird ==
  ASSUME NEW a, NEW b, NEW c
  PROVE  Append(<<a, b>>, c) = <<a, b, c>>
  <1> DEFINE S == {a, b, c}
             s == <<a, b>>
             t == <<a, b, c>>
  <1>1. s \in Seq(S) /\ t \in Seq(S) /\ c \in S
    OBVIOUS
  <1>2. /\ Len(s) = 2 /\ Len(t) = 3
        /\ s[1] = a /\ s[2] = b /\ t[1] = a /\ t[2] = b /\ t[3] = c
    OBVIOUS
  <1> HIDE DEF s, t, S
  <1>3. /\ Append(s, c) \in Seq(S) /\ Len(Append(s, c)) = Len(s) + 1
        /\ \A i \in 1..Len(s) : Append(s, c)[i] = s[i]
        /\ Append(s, c)[Len(s) + 1] = c
    BY <1>1, AppendProperties
  <1>4. Len(Append(s, c)) = Len(t) /\ \A i \in 1..Len(Append(s, c)) : Append(s, c)[i] = t[i]
    BY <1>2, <1>3
  <1>5. Append(s, c) = t
    BY <1>1, <1>3, <1>4, SeqEqual
  <1>6. QED
    BY <1>5 DEF s, t

(* Short tuples under Append, Front and Last. *)
LEMMA Tuples ==
  ASSUME NEW a, NEW b, NEW c
  PROVE  /\ Append(<<>>, a) = <<a>>
         /\ Append(<<a>>, b) = <<a, b>> /\ Append(<<a, b>>, c) = <<a, b, c>>
         /\ Front(<<a, b, c>>) = <<a, b>> /\ Front(<<a, b>>) = <<a>>
         /\ Last(<<a, b, c>>) = c /\ Last(<<a, b>>) = b /\ Last(<<a>>) = a
  <1> DEFINE S == {a, b, c}
  <1>1. /\ <<>> \in Seq(S) /\ <<a>> \in Seq(S) /\ <<a, b>> \in Seq(S) /\ <<a, b, c>> \in Seq(S)
        /\ a \in S /\ b \in S /\ c \in S
    OBVIOUS
  <1>2. /\ Len(<<>>) = 0 /\ Len(<<a>>) = 1 /\ Len(<<a, b>>) = 2 /\ Len(<<a, b, c>>) = 3
        /\ <<a>>[1] = a /\ <<a, b>>[1] = a /\ <<a, b>>[2] = b
        /\ <<a, b, c>>[1] = a /\ <<a, b, c>>[2] = b /\ <<a, b, c>>[3] = c
    OBVIOUS
  <1>3. Append(<<>>, a) = <<a>>
    OBVIOUS
  <1>4. Append(<<a>>, b) = <<a, b>>
    <2> DEFINE s == <<a>>
               t == <<a, b>>
    <2>1. /\ Append(s, b) \in Seq(S) /\ Len(Append(s, b)) = Len(s) + 1
          /\ \A i \in 1..Len(s) : Append(s, b)[i] = s[i]
          /\ Append(s, b)[Len(s) + 1] = b
      BY <1>1, AppendProperties
    <2>2. t \in Seq(S) /\ Len(s) = 1 /\ Len(t) = 2 /\ s[1] = a /\ t[1] = a /\ t[2] = b
      BY <1>1, <1>2
    <2> HIDE DEF s, t, S
    <2>3. Len(Append(s, b)) = Len(t) /\ \A i \in 1..Len(Append(s, b)) : Append(s, b)[i] = t[i]
      BY <2>1, <2>2
    <2>4. Append(s, b) = t
      BY <2>1, <2>2, <2>3, SeqEqual
    <2>5. QED
      BY <2>4 DEF s, t
  <1>5. Append(<<a, b>>, c) = <<a, b, c>>
    BY AppendThird
  <1>6. Front(<<a, b, c>>) = <<a, b>>
    <2>1. Front(<<a, b, c>>) = SubSeq(<<a, b, c>>, 1, 2)
      BY DEF Front
    <2>2. QED
      BY <2>1
  <1>7. Front(<<a, b>>) = <<a>>
    <2>1. Front(<<a, b>>) = SubSeq(<<a, b>>, 1, 1)
      BY DEF Front
    <2>2. QED
      BY <2>1
  <1>8. Last(<<a, b, c>>) = c /\ Last(<<a, b>>) = b /\ Last(<<a>>) = a
    BY <1>2 DEF Last
  <1>9. QED
    BY <1>3, <1>4, <1>5, <1>6, <1>7, <1>8

(* What a buffer becomes with a piece more, and where its frame ends. *)
LEMMA PartGrows ==
  ASSUME NEW e
  PROVE  /\ Append(Part(0, e), <<"data", e, 1>>) = Part(1, e)
         /\ Append(Part(1, e), <<"data", e, 2>>) = Part(2, e)
         /\ Append(Part(2, e), Newline) = Part(3, e)
         /\ Append(Part(0, e), <<"comment">>) = Part(4, e)
         /\ Append(Part(4, e), Newline) = Part(5, e)
         /\ Part(3, e) # <<>> /\ Last(Part(3, e)) = Newline /\ Front(Part(3, e)) = Part(2, e)
         /\ Part(5, e) # <<>> /\ Last(Part(5, e)) = Newline /\ Front(Part(5, e)) = Part(4, e)
         /\ Last(Part(1, e)) # Newline /\ Last(Part(2, e)) # Newline /\ Last(Part(4, e)) # Newline
  <1> DEFINE d1 == <<"data", e, 1>>
             d2 == <<"data", e, 2>>
             c  == <<"comment">>
  <1>1. /\ Part(0, e) = <<>> /\ Part(1, e) = <<d1>> /\ Part(2, e) = <<d1, d2>>
        /\ Part(3, e) = <<d1, d2, Newline>> /\ Part(4, e) = <<c>> /\ Part(5, e) = <<c, Newline>>
    BY Parts
  <1>2. d1 # Newline /\ d2 # Newline /\ c # Newline
    BY DEF Newline
  <1> HIDE DEF d1, d2, c
  <1>3. Append(Part(0, e), d1) = Part(1, e) /\ Append(Part(0, e), c) = Part(4, e)
    BY <1>1, Tuples
  <1>4. Append(Part(1, e), d2) = Part(2, e)
    BY <1>1, Tuples
  <1>5. Append(Part(2, e), Newline) = Part(3, e)
    BY <1>1, AppendThird
  <1>6. Append(Part(4, e), Newline) = Part(5, e)
    BY <1>1, Tuples
  <1>7. Part(3, e) # <<>> /\ Part(5, e) # <<>>
    BY <1>1
  <1>8. Last(Part(3, e)) = Newline /\ Front(Part(3, e)) = Part(2, e)
    BY <1>1, Tuples
  <1>9. Last(Part(5, e)) = Newline /\ Front(Part(5, e)) = Part(4, e)
    <2>1. Last(<<c, Newline>>) = Newline /\ Front(<<c, Newline>>) = <<c>>
      BY Tuples
    <2>2. QED
      BY <1>1, <2>1
  <1>10. Last(Part(1, e)) = d1 /\ Last(Part(4, e)) = c
    BY <1>1, Tuples
  <1>11. Last(Part(2, e)) = d2
    BY <1>1, Tuples
  <1>12. QED
    BY <1>2, <1>3, <1>4, <1>5, <1>6, <1>7, <1>8, <1>9, <1>10, <1>11 DEF d1, d2, c

(* One piece of the parser. *)
Parser(log, q, n, events) == [rest |-> Part(q, log[n + 1]), events |-> events]

(* One piece through the parser: the next phase, and an event when the     *)
(* frame it ends has one.                                                  *)
LEMMA TakeCarries ==
  ASSUME NEW log, NEW p, NEW q, NEW n \in Nat, NEW r, NEW m, NEW events \in Seq(Event),
         Carry(log, p, q, n, r, m), q = 3 => log[n + 1] \in Event
  PROVE  Take(Parser(log, q, n, events), p)
           = Parser(log, r, m, IF m = n THEN events ELSE Append(events, log[n + 1]))
  <1> DEFINE e == log[n + 1]
  <1>1. \A rest : LET parser == [rest |-> rest, events |-> events]
                  IN IF p = Newline /\ rest # <<>> /\ Last(rest) = Newline
                     THEN Take(parser, p) = [rest |-> <<>>, events |-> events \o Parsed(Front(rest))]
                     ELSE Take(parser, p) = [rest |-> Append(rest, p), events |-> events]
    BY DEF Take
  <1> HIDE DEF e, Parser
  <1>2. CASE q = 0 /\ r = 1 /\ m = n /\ p = <<"data", e, 1>>
    <2>1. Take([rest |-> Part(0, e), events |-> events], p)
            = [rest |-> Append(Part(0, e), p), events |-> events]
      BY <1>1, Parts
    <2>2. Append(Part(0, e), p) = Part(1, e)
      BY <1>2, PartGrows
    <2>3. QED
      BY <1>2, <2>1, <2>2 DEF e, Parser
  <1>3. CASE q = 1 /\ r = 2 /\ m = n /\ p = <<"data", e, 2>>
    <2>1. Take([rest |-> Part(1, e), events |-> events], p)
            = [rest |-> Append(Part(1, e), p), events |-> events]
      BY <1>1, PartGrows
    <2>2. Append(Part(1, e), p) = Part(2, e)
      BY <1>3, PartGrows
    <2>3. QED
      BY <1>3, <2>1, <2>2 DEF e, Parser
  <1>4. CASE q = 2 /\ r = 3 /\ m = n /\ p = Newline
    <2>1. Take([rest |-> Part(2, e), events |-> events], p)
            = [rest |-> Append(Part(2, e), p), events |-> events]
      BY <1>1, PartGrows
    <2>2. Append(Part(2, e), p) = Part(3, e)
      BY <1>4, PartGrows
    <2>3. QED
      BY <1>4, <2>1, <2>2 DEF e, Parser
  <1>5. CASE q = 3 /\ r = 0 /\ m = n + 1 /\ p = Newline
    <2>1. Take([rest |-> Part(3, e), events |-> events], p)
            = [rest |-> <<>>, events |-> events \o Parsed(Part(2, e))]
      BY <1>1, <1>5, PartGrows
    <2>2. events \o Parsed(Part(2, e)) = Append(events, e)
      <3>1. Parsed(Part(2, e)) = <<e>>
        BY Parts, ParsedPart
      <3>2. e \in Event
        BY <1>5 DEF e, Parser
      <3>3. QED
        BY <3>1, <3>2, AppendIsConcat
    <2>3. m # n
      BY <1>5
    <2>4. Part(r, log[m + 1]) = <<>>
      BY <1>5, Parts
    <2>5. QED
      BY <1>5, <2>1, <2>2, <2>3, <2>4 DEF e, Parser
  <1>6. CASE q = 0 /\ r = 4 /\ m = n /\ p = <<"comment">>
    <2>1. Take([rest |-> Part(0, e), events |-> events], p)
            = [rest |-> Append(Part(0, e), p), events |-> events]
      BY <1>1, Parts
    <2>2. Append(Part(0, e), p) = Part(4, e)
      BY <1>6, PartGrows
    <2>3. QED
      BY <1>6, <2>1, <2>2 DEF e, Parser
  <1>7. CASE q = 4 /\ r = 5 /\ m = n /\ p = Newline
    <2>1. Take([rest |-> Part(4, e), events |-> events], p)
            = [rest |-> Append(Part(4, e), p), events |-> events]
      BY <1>1, PartGrows
    <2>2. Append(Part(4, e), p) = Part(5, e)
      BY <1>7, PartGrows
    <2>3. QED
      BY <1>7, <2>1, <2>2 DEF e, Parser
  <1>8. CASE q = 5 /\ r = 0 /\ m = n /\ p = Newline
    <2>1. Take([rest |-> Part(5, e), events |-> events], p)
            = [rest |-> <<>>, events |-> events \o Parsed(Part(4, e))]
      BY <1>1, <1>8, PartGrows
    <2>2. events \o Parsed(Part(4, e)) = events
      <3>1. Parsed(Part(4, e)) = <<>>
        BY Parts, ParsedPart
      <3>2. QED
        BY <3>1, ConcatEmptySeq
    <2>3. m = n
      BY <1>8
    <2>4. Part(r, log[m + 1]) = <<>>
      BY <1>8, Parts
    <2>5. QED
      BY <1>8, <2>1, <2>2, <2>3, <2>4 DEF e, Parser
  <1>9. QED
    BY <1>2, <1>3, <1>4, <1>5, <1>6, <1>7, <1>8 DEF Carry, e

(* The events given out only grow. *)
LEMMA CarriesGrow ==
  ASSUME NEW log \in Seq(Event), NEW bytes \in Seq(Piece), NEW q, NEW n, NEW r, NEW m,
         NEW ph, NEW got, Carries(ph, got, bytes, log, q, n, r, m)
  PROVE  \A i \in 0..Len(bytes) : n <= got[i] /\ got[i] <= Len(log) /\ got[i] \in Nat
  <1> DEFINE Bad == {i \in 0..Len(bytes) : ~(n <= got[i])}
  <1>1. Len(bytes) \in Nat /\ Len(log) \in Nat /\ Bad \in SUBSET Nat
    OBVIOUS
  <1>2. \A i \in 0..Len(bytes) : got[i] \in 0..Len(log) /\ got[i] \in Nat
    BY <1>1 DEF Carries
  <1>3. SUFFICES ASSUME Bad # {} PROVE FALSE
    BY <1>1, <1>2
  <1>4. PICK x \in Bad : \A y \in Bad : x <= y
    BY <1>1, <1>3, SmallestExists
  <1>5. got[0] = n /\ n \in Nat
    BY <1>1, <1>2 DEF Carries
  <1>6. x \in 1..Len(bytes)
    BY <1>1, <1>4, <1>5
  <1>7. x - 1 \in 0..Len(bytes) /\ n <= got[x - 1]
    BY <1>1, <1>4, <1>6
  <1>8. got[x] = got[x - 1] \/ got[x] = got[x - 1] + 1
    BY <1>6 DEF Carries, Carry
  <1>9. QED
    BY <1>2, <1>4, <1>5, <1>6, <1>7, <1>8

(* Split's recursive function. *)
Splits(g, bytes) ==
  g = [i \in 0..Len(bytes) |->
         IF i = 0 THEN [rest |-> <<>>, events |-> <<>>] ELSE Take(g[i - 1], bytes[i])]

(* What the parser makes of bytes that begin between two frames. *)
LEMMA SplitRun ==
  ASSUME NEW log \in Seq(Event), NEW bytes \in Seq(Piece), NEW n, NEW r, NEW m,
         Run(bytes, log, 0, n, r, m)
  PROVE  /\ n \in Nat /\ m \in Nat /\ n <= m /\ m <= Len(log)
         /\ Split(bytes) = [rest |-> Part(r, log[m + 1]), events |-> SubSeq(log, n + 1, m)]
  <1>1. PICK ph, got : Carries(ph, got, bytes, log, 0, n, r, m)
    BY DEF Run
  <1>2. \A i \in 0..Len(bytes) : n <= got[i] /\ got[i] <= Len(log) /\ got[i] \in Nat
    BY <1>1, CarriesGrow
  <1>3. /\ Len(bytes) \in Nat /\ Len(log) \in Nat /\ 0 \in 0..Len(bytes) /\ Len(bytes) \in 0..Len(bytes)
        /\ ph[0] = 0 /\ got[0] = n /\ ph[Len(bytes)] = r /\ got[Len(bytes)] = m
    BY <1>1 DEF Carries
  <1>4. n \in Nat /\ m \in Nat /\ n <= m /\ m <= Len(log)
    BY <1>2, <1>3
  <1> DEFINE F == [i \in 0..Len(bytes) |->
                     [rest |-> Part(ph[i], log[got[i] + 1]), events |-> SubSeq(log, n + 1, got[i])]]
  <1>5. F[0] = [rest |-> <<>>, events |-> <<>>]
    <2>1. Part(0, log[n + 1]) = <<>>
      BY Parts
    <2>2. SubSeq(log, n + 1, n) = <<>>
      BY <1>4, SubSeqEmpty
    <2>3. QED
      BY <1>3, <2>1, <2>2
  <1>6. ASSUME NEW i \in 1..Len(bytes)
        PROVE  F[i] = Take(F[i - 1], bytes[i])
    <2>1. i - 1 \in 0..Len(bytes) /\ i \in 0..Len(bytes)
      BY <1>3
    <2>2. Carry(log, bytes[i], ph[i - 1], got[i - 1], ph[i], got[i])
      BY <1>1 DEF Carries
    <2> DEFINE k == got[i - 1]
    <2>3. k \in Nat /\ n <= k /\ k <= Len(log) /\ got[i] \in Nat /\ got[i] <= Len(log)
      BY <1>2, <2>1
    <2>4. ph[i - 1] = 3 => k < Len(log)
      BY <1>1, <2>1 DEF Carries
    <2>5. SubSeq(log, n + 1, k) \in Seq(Event)
      <3>1. \A j \in (n + 1)..k : log[j] \in Event
        BY <1>4, <2>3
      <3>2. n + 1 \in Int /\ k \in Int
        BY <1>4, <2>3
      <3>3. QED
        BY <3>1, <3>2, SubSeqProperties
    <2>6. Take(F[i - 1], bytes[i])
            = [rest   |-> Part(ph[i], log[got[i] + 1]),
               events |-> IF got[i] = k THEN SubSeq(log, n + 1, k)
                                        ELSE Append(SubSeq(log, n + 1, k), log[k + 1])]
      <3>1. ph[i - 1] = 3 => log[k + 1] \in Event
        BY <1>3, <2>3, <2>4
      <3>2. F[i - 1] = [rest |-> Part(ph[i - 1], log[k + 1]), events |-> SubSeq(log, n + 1, k)]
        BY <2>1
      <3> HIDE DEF F, k
      <3>3. Carry(log, bytes[i], ph[i - 1], k, ph[i], got[i])
        BY <2>2 DEF k
      <3> DEFINE so == SubSeq(log, n + 1, k)
                 q  == ph[i - 1]
                 r2 == ph[i]
                 m2 == got[i]
                 p  == bytes[i]
      <3>4. k \in Nat /\ so \in Seq(Event) /\ Carry(log, p, q, k, r2, m2) /\ (q = 3 => log[k + 1] \in Event)
        BY <3>1, <3>3, <2>3, <2>5
      <3> HIDE DEF so, q, r2, m2, p
      <3>5. Take(Parser(log, q, k, so), p)
              = Parser(log, r2, m2, IF m2 = k THEN so ELSE Append(so, log[k + 1]))
        BY <3>4, TakeCarries
      <3>6. QED
        BY <3>2, <3>5 DEF so, q, r2, m2, p, Parser
    <2>7. CASE got[i] = k
      BY <2>1, <2>6, <2>7
    <2>8. CASE got[i] = k + 1
      <3>1. n + 1 \in 1..Len(log) /\ k + 1 \in (n + 1)..Len(log) /\ log[k + 1] \in Event
        BY <1>3, <1>4, <2>3, <2>8
      <3>2. SubSeq(log, n + 1, k + 1) = SubSeq(log, n + 1, (k + 1) - 1) \o <<log[k + 1]>>
        BY <3>1, SubSeqRecursiveSecond
      <3>3. (k + 1) - 1 = k
        BY <2>3
      <3>4. Append(SubSeq(log, n + 1, k), log[k + 1]) = SubSeq(log, n + 1, k) \o <<log[k + 1]>>
        BY <2>5, <3>1, AppendIsConcat
      <3>5. Append(SubSeq(log, n + 1, k), log[k + 1]) = SubSeq(log, n + 1, k + 1)
        BY <3>2, <3>3, <3>4
      <3>6. got[i] # k
        BY <2>3, <2>8
      <3>7. F[i] = [rest |-> Part(ph[i], log[got[i] + 1]), events |-> SubSeq(log, n + 1, k + 1)]
        BY <2>1, <2>8
      <3>8. QED
        BY <2>6, <3>5, <3>6, <3>7
    <2>9. QED
      BY <2>2, <2>7, <2>8 DEF Carry
  <1>7. Splits(F, bytes)
    <2>1. F = [i \in 0..Len(bytes) |-> F[i]]
      OBVIOUS
    <2> HIDE DEF F
    <2>2. \A i \in 0..Len(bytes) : F[i] = IF i = 0 THEN [rest |-> <<>>, events |-> <<>>]
                                                 ELSE Take(F[i - 1], bytes[i])
      BY <1>3, <1>5, <1>6
    <2>3. QED
      BY <2>1, <2>2 DEF Splits
  <1>8. Split(bytes) = (CHOOSE g : Splits(g, bytes))[Len(bytes)]
    BY DEF Split, Splits
  <1>9. PICK g : Splits(g, bytes) /\ Split(bytes) = g[Len(bytes)]
    BY <1>7, <1>8
  <1>10. \A i \in 0..Len(bytes) : g[i] = F[i]
    <2> DEFINE Bad == {i \in 0..Len(bytes) : g[i] # F[i]}
    <2> HIDE DEF F
    <2>1. SUFFICES ASSUME Bad # {} PROVE FALSE
      OBVIOUS
    <2>2. Bad \in SUBSET Nat
      BY <1>3
    <2>3. PICK x \in Bad : \A y \in Bad : x <= y
      BY <2>1, <2>2, SmallestExists
    <2>4. x # 0
      BY <1>3, <1>5, <1>9, <2>3 DEF Splits
    <2>5. x \in 1..Len(bytes) /\ x - 1 \in 0..Len(bytes) /\ x - 1 \notin Bad /\ x \in 0..Len(bytes)
      BY <1>3, <2>2, <2>3, <2>4
    <2>6. g[x] = Take(g[x - 1], bytes[x])
      BY <1>9, <2>4, <2>5 DEF Splits
    <2>7. QED
      BY <1>6, <2>3, <2>5, <2>6
  <1>11. QED
    BY <1>3, <1>4, <1>9, <1>10

-----------------------------------------------------------------------------
(* Runs, put together and taken apart. *)

Between(log, q, n) == q \in Phase /\ n \in 0..Len(log) /\ (q \in 1..3 => n < Len(log))

(* A run of pieces begins and ends in proper phases. *)
LEMMA RunEnds ==
  ASSUME NEW log \in Seq(Event), NEW bytes \in Seq(Piece), NEW q, NEW n, NEW r, NEW m,
         Run(bytes, log, q, n, r, m)
  PROVE  Between(log, q, n) /\ Between(log, r, m)
  <1>1. PICK ph, got : Carries(ph, got, bytes, log, q, n, r, m)
    BY DEF Run
  <1>2. 0 \in 0..Len(bytes) /\ Len(bytes) \in 0..Len(bytes)
    OBVIOUS
  <1>3. QED
    BY <1>1, <1>2 DEF Carries, Between

(* No pieces: nothing is delivered. *)
LEMMA RunEmpty ==
  ASSUME NEW log \in Seq(Event), NEW q, NEW n, Between(log, q, n)
  PROVE  Run(<<>>, log, q, n, q, n)
  <1> DEFINE ph  == [i \in 0..0 |-> q]
             got == [i \in 0..0 |-> n]
  <1>1. Len(<<>>) = 0
    OBVIOUS
  <1>2. Carries(ph, got, <<>>, log, q, n, q, n)
    BY <1>1 DEF Carries, Between
  <1>3. QED
    BY <1>2 DEF Run

(* One piece more. *)
LEMMA RunAppend ==
  ASSUME NEW log \in Seq(Event), NEW bytes \in Seq(Piece), NEW p \in Piece,
         NEW q, NEW n, NEW r, NEW m, NEW r2, NEW m2,
         Run(bytes, log, q, n, r, m), Carry(log, p, r, m, r2, m2), Between(log, r2, m2)
  PROVE  Append(bytes, p) \in Seq(Piece) /\ Run(Append(bytes, p), log, q, n, r2, m2)
  <1>1. PICK ph, got : Carries(ph, got, bytes, log, q, n, r, m)
    BY DEF Run
  <1> DEFINE l    == Len(bytes)
             more == Append(bytes, p)
             ph2  == [i \in 0..(l + 1) |-> IF i = l + 1 THEN r2 ELSE ph[i]]
             got2 == [i \in 0..(l + 1) |-> IF i = l + 1 THEN m2 ELSE got[i]]
  <1>2. /\ l \in Nat /\ more \in Seq(Piece) /\ Len(more) = l + 1
        /\ \A i \in 1..l : more[i] = bytes[i]
        /\ more[l + 1] = p
    BY AppendProperties
  <1>3. /\ ph \in [0..l -> Phase] /\ got \in [0..l -> 0..Len(log)]
        /\ ph[0] = q /\ got[0] = n /\ ph[l] = r /\ got[l] = m
        /\ \A i \in 0..l : ph[i] \in 1..3 => got[i] < Len(log)
        /\ \A i \in 1..l : Carry(log, bytes[i], ph[i - 1], got[i - 1], ph[i], got[i])
    BY <1>1 DEF Carries
  <1> HIDE DEF l, more
  <1>4. ph2 \in [0..(l + 1) -> Phase] /\ got2 \in [0..(l + 1) -> 0..Len(log)]
    BY <1>2, <1>3 DEF Between
  <1>5. ph2[0] = q /\ got2[0] = n /\ ph2[l + 1] = r2 /\ got2[l + 1] = m2
    BY <1>2, <1>3
  <1>6. \A i \in 0..(l + 1) : ph2[i] \in 1..3 => got2[i] < Len(log)
    BY <1>2, <1>3 DEF Between
  <1>7. ASSUME NEW i \in 1..(l + 1)
        PROVE  Carry(log, more[i], ph2[i - 1], got2[i - 1], ph2[i], got2[i])
    <2>1. CASE i = l + 1
      <3>1. ph2[i] = r2 /\ got2[i] = m2 /\ ph2[i - 1] = r /\ got2[i - 1] = m /\ more[i] = p
        BY <1>2, <1>3, <2>1
      <3>2. QED
        BY <3>1
    <2>2. CASE i \in 1..l
      <3>1. /\ ph2[i] = ph[i] /\ got2[i] = got[i] /\ more[i] = bytes[i]
            /\ ph2[i - 1] = ph[i - 1] /\ got2[i - 1] = got[i - 1]
        BY <1>2, <2>2
      <3>2. QED
        BY <1>3, <2>2, <3>1
    <2>3. QED
      BY <1>2, <2>1, <2>2
  <1>8. Carries(ph2, got2, more, log, q, n, r2, m2)
    <2> HIDE DEF ph2, got2
    <2>1. QED
      BY <1>2, <1>4, <1>5, <1>6, <1>7 DEF Carries
  <1>9. QED
    BY <1>2, <1>8 DEF Run, more

(* Two runs of pieces, one after the other. *)
LEMMA RunConcat ==
  ASSUME NEW log \in Seq(Event), NEW bytes \in Seq(Piece), NEW more \in Seq(Piece),
         NEW q, NEW n, NEW r, NEW m, NEW r2, NEW m2,
         Run(bytes, log, q, n, r, m), Run(more, log, r, m, r2, m2)
  PROVE  bytes \o more \in Seq(Piece) /\ Run(bytes \o more, log, q, n, r2, m2)
  <1>1. PICK ph, got : Carries(ph, got, bytes, log, q, n, r, m)
    BY DEF Run
  <1>2. PICK ph1, got1 : Carries(ph1, got1, more, log, r, m, r2, m2)
    BY DEF Run
  <1> DEFINE l    == Len(bytes)
             l1   == Len(more)
             all  == bytes \o more
             ph2  == [i \in 0..(l + l1) |-> IF i <= l THEN ph[i] ELSE ph1[i - l]]
             got2 == [i \in 0..(l + l1) |-> IF i <= l THEN got[i] ELSE got1[i - l]]
  <1>3. /\ l \in Nat /\ l1 \in Nat /\ all \in Seq(Piece) /\ Len(all) = l + l1
        /\ \A i \in 1..l : all[i] = bytes[i]
        /\ \A i \in (l + 1)..(l + l1) : all[i] = more[i - l]
    BY ConcatProperties
  <1>4. /\ ph \in [0..l -> Phase] /\ got \in [0..l -> 0..Len(log)]
        /\ ph[0] = q /\ got[0] = n /\ ph[l] = r /\ got[l] = m
        /\ \A i \in 0..l : ph[i] \in 1..3 => got[i] < Len(log)
        /\ \A i \in 1..l : Carry(log, bytes[i], ph[i - 1], got[i - 1], ph[i], got[i])
    BY <1>1 DEF Carries
  <1>5. /\ ph1 \in [0..l1 -> Phase] /\ got1 \in [0..l1 -> 0..Len(log)]
        /\ ph1[0] = r /\ got1[0] = m /\ ph1[l1] = r2 /\ got1[l1] = m2
        /\ \A i \in 0..l1 : ph1[i] \in 1..3 => got1[i] < Len(log)
        /\ \A i \in 1..l1 : Carry(log, more[i], ph1[i - 1], got1[i - 1], ph1[i], got1[i])
    BY <1>2 DEF Carries
  <1> HIDE DEF l, l1, all
  <1>6. ph2 \in [0..(l + l1) -> Phase] /\ got2 \in [0..(l + l1) -> 0..Len(log)]
    <2>1. ASSUME NEW i \in 0..(l + l1)
          PROVE  /\ (IF i <= l THEN ph[i] ELSE ph1[i - l]) \in Phase
                 /\ (IF i <= l THEN got[i] ELSE got1[i - l]) \in 0..Len(log)
      <3>1. CASE i <= l
        BY <1>3, <1>4, <3>1
      <3>2. CASE ~(i <= l)
        <4>1. i - l \in 0..l1
          BY <1>3, <3>2
        <4>2. QED
          BY <1>5, <3>2, <4>1
      <3>3. QED
        BY <3>1, <3>2
    <2>2. QED
      BY <2>1
  <1>7. ph2[0] = q /\ got2[0] = n
    BY <1>3, <1>4
  <1>8. ph2[l + l1] = r2 /\ got2[l + l1] = m2
    <2>1. CASE l1 = 0
      BY <1>3, <1>4, <1>5, <2>1
    <2>2. CASE l1 # 0
      <3>1. ~(l + l1 <= l) /\ (l + l1) - l = l1 /\ l + l1 \in 0..(l + l1)
        BY <1>3, <2>2
      <3>2. QED
        BY <1>5, <3>1
    <2>3. QED
      BY <2>1, <2>2
  <1>9. ASSUME NEW i \in 0..(l + l1), ph2[i] \in 1..3
        PROVE  got2[i] < Len(log)
    <2>1. CASE i <= l
      BY <1>3, <1>4, <1>9, <2>1
    <2>2. CASE ~(i <= l)
      <3>1. i - l \in 0..l1 /\ ph2[i] = ph1[i - l] /\ got2[i] = got1[i - l]
        BY <1>3, <2>2
      <3>2. QED
        BY <1>5, <1>9, <3>1
    <2>3. QED
      BY <2>1, <2>2
  <1>10. ASSUME NEW i \in 1..(l + l1)
         PROVE  Carry(log, all[i], ph2[i - 1], got2[i - 1], ph2[i], got2[i])
    <2>1. CASE i <= l
      <3>1. /\ i \in 1..l /\ i \in 0..(l + l1) /\ i - 1 \in 0..(l + l1) /\ i - 1 <= l
        BY <1>3, <2>1
      <3>2. /\ ph2[i] = ph[i] /\ got2[i] = got[i] /\ all[i] = bytes[i]
            /\ ph2[i - 1] = ph[i - 1] /\ got2[i - 1] = got[i - 1]
        BY <1>3, <2>1, <3>1
      <3>3. QED
        BY <1>4, <3>1, <3>2
    <2>2. CASE i = l + 1
      <3>1. 1 \in 1..l1 /\ i - l = 1 /\ i - 1 = l /\ l \in 0..(l + l1) /\ i \in (l + 1)..(l + l1)
        BY <1>3, <2>2
      <3>2. ph2[i - 1] = r /\ got2[i - 1] = m
        BY <1>3, <1>4, <3>1
      <3>3. ph2[i] = ph1[1] /\ got2[i] = got1[1] /\ all[i] = more[1]
        <4>1. ~(i <= l) /\ i \in 0..(l + l1)
          BY <1>3, <2>2, <3>1
        <4>2. all[i] = more[i - l]
          BY <1>3, <3>1
        <4>3. QED
          BY <3>1, <4>1, <4>2
      <3>4. Carry(log, more[1], ph1[1 - 1], got1[1 - 1], ph1[1], got1[1]) /\ 1 - 1 = 0
        BY <1>5, <3>1
      <3>5. Carry(log, more[1], r, m, ph1[1], got1[1])
        BY <1>5, <3>4
      <3>6. QED
        BY <3>2, <3>3, <3>5
    <2>3. CASE i > l + 1
      <3>1. /\ i - l \in 1..l1 /\ (i - 1) - l = (i - l) - 1 /\ i \in (l + 1)..(l + l1)
            /\ ~(i <= l) /\ ~(i - 1 <= l) /\ i - 1 \in 0..(l + l1) /\ i \in 0..(l + l1)
        BY <1>3, <2>3
      <3>2. /\ ph2[i] = ph1[i - l] /\ got2[i] = got1[i - l] /\ all[i] = more[i - l]
            /\ ph2[i - 1] = ph1[(i - l) - 1] /\ got2[i - 1] = got1[(i - l) - 1]
        BY <1>3, <3>1
      <3>3. QED
        BY <1>5, <3>1, <3>2
    <2>4. QED
      BY <1>3, <2>1, <2>2, <2>3
  <1>11. Carries(ph2, got2, all, log, q, n, r2, m2)
    <2> HIDE DEF ph2, got2
    <2>1. QED
      BY <1>3, <1>6, <1>7, <1>8, <1>9, <1>10 DEF Carries
  <1>12. QED
    BY <1>3, <1>11 DEF Run, all

(* A chunk may be cut from a run of pieces anywhere. *)
LEMMA RunSplit ==
  ASSUME NEW log \in Seq(Event), NEW bytes \in Seq(Piece), NEW k \in 0..Len(bytes),
         NEW q, NEW n, NEW r, NEW m, Run(bytes, log, q, n, r, m)
  PROVE  /\ SubSeq(bytes, 1, k) \in Seq(Piece) /\ SubSeq(bytes, k + 1, Len(bytes)) \in Seq(Piece)
         /\ \E r1, m1 : /\ Run(SubSeq(bytes, 1, k), log, q, n, r1, m1)
                        /\ Run(SubSeq(bytes, k + 1, Len(bytes)), log, r1, m1, r, m)
  <1>1. PICK ph, got : Carries(ph, got, bytes, log, q, n, r, m)
    BY DEF Run
  <1> DEFINE l    == Len(bytes)
             one  == SubSeq(bytes, 1, k)
             two  == SubSeq(bytes, k + 1, l)
             ph1  == [i \in 0..k |-> ph[i]]
             got1 == [i \in 0..k |-> got[i]]
             ph2  == [i \in 0..(l - k) |-> ph[i + k]]
             got2 == [i \in 0..(l - k) |-> got[i + k]]
  <1>2. l \in Nat /\ k \in Nat /\ k <= l
    OBVIOUS
  <1>3. /\ one \in Seq(Piece) /\ Len(one) = k
        /\ \A i \in 1..k : one[i] = bytes[i]
    <2>1. \A i \in 1..k : bytes[i] \in Piece
      BY <1>2
    <2>2. /\ one \in Seq(Piece) /\ Len(one) = IF 1 <= k THEN k - 1 + 1 ELSE 0
          /\ \A i \in 1..(k - 1 + 1) : one[i] = bytes[1 + i - 1]
      BY <1>2, <2>1, SubSeqProperties
    <2>3. \A i \in 1..k : 1 + i - 1 = i /\ k - 1 + 1 = k
      BY <1>2
    <2> HIDE DEF one
    <2>4. QED
      BY <1>2, <2>2, <2>3
  <1>4. /\ two \in Seq(Piece) /\ Len(two) = l - k
        /\ \A i \in 1..(l - k) : two[i] = bytes[i + k]
    <2>1. \A i \in (k + 1)..l : bytes[i] \in Piece
      BY <1>2
    <2>2. k + 1 \in Int /\ l \in Int
      BY <1>2
    <2>3. /\ two \in Seq(Piece) /\ Len(two) = IF k + 1 <= l THEN l - (k + 1) + 1 ELSE 0
          /\ \A i \in 1..(l - (k + 1) + 1) : two[i] = bytes[(k + 1) + i - 1]
      BY <2>1, <2>2, SubSeqProperties
    <2>4. l - (k + 1) + 1 = l - k /\ \A i \in 1..(l - k) : (k + 1) + i - 1 = i + k
      BY <1>2
    <2> HIDE DEF two, l
    <2>5. QED
      BY <1>2, <2>3, <2>4
  <1>5. /\ ph \in [0..l -> Phase] /\ got \in [0..l -> 0..Len(log)]
        /\ ph[0] = q /\ got[0] = n /\ ph[l] = r /\ got[l] = m
        /\ \A i \in 0..l : ph[i] \in 1..3 => got[i] < Len(log)
        /\ \A i \in 1..l : Carry(log, bytes[i], ph[i - 1], got[i - 1], ph[i], got[i])
    BY <1>1 DEF Carries
  <1> HIDE DEF l, one, two
  <1>6. Carries(ph1, got1, one, log, q, n, ph[k], got[k])
    <2>1. ph1 \in [0..k -> Phase] /\ got1 \in [0..k -> 0..Len(log)]
      BY <1>2, <1>5
    <2>2. ph1[0] = q /\ got1[0] = n /\ ph1[k] = ph[k] /\ got1[k] = got[k]
      BY <1>2, <1>5
    <2>3. \A i \in 0..k : ph1[i] \in 1..3 => got1[i] < Len(log)
      BY <1>2, <1>5
    <2>4. ASSUME NEW i \in 1..k
          PROVE  Carry(log, one[i], ph1[i - 1], got1[i - 1], ph1[i], got1[i])
      <3>1. /\ i \in 1..l /\ one[i] = bytes[i] /\ ph1[i] = ph[i] /\ got1[i] = got[i]
            /\ ph1[i - 1] = ph[i - 1] /\ got1[i - 1] = got[i - 1]
        BY <1>2, <1>3
      <3>2. QED
        BY <1>5, <3>1
    <2> HIDE DEF ph1, got1
    <2>5. QED
      BY <1>3, <2>1, <2>2, <2>3, <2>4 DEF Carries
  <1>7. Carries(ph2, got2, two, log, ph[k], got[k], r, m)
    <2>1. ph2 \in [0..(l - k) -> Phase] /\ got2 \in [0..(l - k) -> 0..Len(log)]
      BY <1>2, <1>5
    <2>2. ph2[0] = ph[k] /\ got2[0] = got[k] /\ ph2[l - k] = r /\ got2[l - k] = m
      BY <1>2, <1>5
    <2>3. \A i \in 0..(l - k) : ph2[i] \in 1..3 => got2[i] < Len(log)
      BY <1>2, <1>5
    <2>4. ASSUME NEW i \in 1..(l - k)
          PROVE  Carry(log, two[i], ph2[i - 1], got2[i - 1], ph2[i], got2[i])
      <3>1. i + k \in 1..l /\ (i - 1) + k = (i + k) - 1 /\ i - 1 \in 0..(l - k) /\ i \in 0..(l - k)
        BY <1>2
      <3>2. /\ two[i] = bytes[i + k] /\ ph2[i] = ph[i + k] /\ got2[i] = got[i + k]
            /\ ph2[i - 1] = ph[(i + k) - 1] /\ got2[i - 1] = got[(i + k) - 1]
        BY <1>4, <3>1
      <3>3. QED
        BY <1>5, <3>1, <3>2
    <2> HIDE DEF ph2, got2
    <2>5. QED
      BY <1>2, <1>4, <2>1, <2>2, <2>3, <2>4 DEF Carries
  <1>8. Run(one, log, q, n, ph[k], got[k]) /\ Run(two, log, ph[k], got[k], r, m)
    <2> HIDE DEF ph1, got1, ph2, got2
    <2>1. QED
      BY <1>6, <1>7 DEF Run
  <1>9. QED
    BY <1>3, <1>4, <1>8 DEF one, two, l

(* Events added to a log leave the bytes of the earlier ones as they are. *)
LEMMA RunExtend ==
  ASSUME NEW log \in Seq(Event), NEW events \in Seq(Event), NEW bytes \in Seq(Piece),
         NEW q, NEW n, NEW r, NEW m, Run(bytes, log, q, n, r, m)
  PROVE  Run(bytes, log \o events, q, n, r, m)
  <1>1. PICK ph, got : Carries(ph, got, bytes, log, q, n, r, m)
    BY DEF Run
  <1> DEFINE longer == log \o events
  <1>2. /\ longer \in Seq(Event) /\ Len(log) \in Nat /\ Len(longer) \in Nat /\ Len(log) <= Len(longer)
        /\ \A i \in 1..Len(log) : longer[i] = log[i]
    BY ConcatProperties
  <1> HIDE DEF longer
  <1>3. got \in [0..Len(bytes) -> 0..Len(longer)]
    BY <1>1, <1>2 DEF Carries
  <1>4. ASSUME NEW i \in 0..Len(bytes), ph[i] \in 1..3
        PROVE  got[i] < Len(longer)
    <2>1. got[i] < Len(log) /\ got[i] \in 0..Len(log)
      BY <1>1, <1>4 DEF Carries
    <2>2. QED
      BY <1>2, <2>1
  <1>5. ASSUME NEW i \in 1..Len(bytes)
        PROVE  Carry(longer, bytes[i], ph[i - 1], got[i - 1], ph[i], got[i])
    <2>1. i - 1 \in 0..Len(bytes) /\ i \in 0..Len(bytes)
      OBVIOUS
    <2>2. Carry(log, bytes[i], ph[i - 1], got[i - 1], ph[i], got[i])
      BY <1>1 DEF Carries
    <2>3. got[i - 1] \in Nat /\ (ph[i - 1] \in 1..3 => got[i - 1] < Len(log))
          /\ (ph[i] \in 1..3 => got[i] < Len(log))
      BY <1>1, <1>2, <2>1 DEF Carries
    <2>4. got[i - 1] < Len(log) => longer[got[i - 1] + 1] = log[got[i - 1] + 1]
      BY <1>2, <2>3
    <2>5. QED
      BY <2>2, <2>3, <2>4 DEF Carry
  <1>6. Carries(ph, got, bytes, longer, q, n, r, m)
    BY <1>1, <1>3, <1>4, <1>5 DEF Carries
  <1>7. QED
    BY <1>6 DEF Run, longer

(* The pieces of a frame are pieces. *)
LEMMA PieceType ==
  /\ Newline \in Piece /\ <<"comment">> \in Piece
  /\ \A e \in Event : <<"data", e, 1>> \in Piece /\ <<"data", e, 2>> \in Piece
  BY DEF Piece, Newline

(* The frame of an event delivers it. *)
LEMMA FrameRun ==
  ASSUME NEW log \in Seq(Event), NEW n \in Nat, n < Len(log)
  PROVE  Frame(log[n + 1]) \in Seq(Piece) /\ Run(Frame(log[n + 1]), log, 0, n, 0, n + 1)
  <1> DEFINE e   == log[n + 1]
             d1  == <<"data", e, 1>>
             d2  == <<"data", e, 2>>
             f   == Frame(e)
             ph  == [i \in 0..4 |-> IF i = 4 THEN 0 ELSE i]
             got == [i \in 0..4 |-> IF i = 4 THEN n + 1 ELSE n]
  <1>1. Len(log) \in Nat /\ e \in Event
    OBVIOUS
  <1>2. d1 \in Piece /\ d2 \in Piece /\ Newline \in Piece
    BY <1>1, PieceType
  <1>3. /\ f \in Seq(Piece) /\ Len(f) = 4
        /\ f[1] = d1 /\ f[2] = d2 /\ f[3] = Newline /\ f[4] = Newline
    <2>1. f = <<d1, d2, Newline, Newline>>
      BY DEF Frame
    <2> HIDE DEF d1, d2, f, e
    <2>2. QED
      BY <1>2, <2>1
  <1>4. ph \in [0..4 -> Phase] /\ got \in [0..4 -> 0..Len(log)]
    BY <1>1 DEF Phase
  <1>5. ph[0] = 0 /\ ph[1] = 1 /\ ph[2] = 2 /\ ph[3] = 3 /\ ph[4] = 0
    OBVIOUS
  <1>6. got[0] = n /\ got[1] = n /\ got[2] = n /\ got[3] = n /\ got[4] = n + 1
    OBVIOUS
  <1>7. \A i \in 0..4 : ph[i] \in 1..3 => got[i] < Len(log)
    OBVIOUS
  <1> HIDE DEF ph, got, f
  <1>8. ASSUME NEW i \in 1..4
        PROVE  Carry(log, f[i], ph[i - 1], got[i - 1], ph[i], got[i])
    <2>1. i = 1 \/ i = 2 \/ i = 3 \/ i = 4
      OBVIOUS
    <2>2. Carry(log, f[1], ph[1 - 1], got[1 - 1], ph[1], got[1])
      BY <1>3, <1>5, <1>6 DEF Carry
    <2>3. Carry(log, f[2], ph[2 - 1], got[2 - 1], ph[2], got[2])
      BY <1>3, <1>5, <1>6 DEF Carry
    <2>4. Carry(log, f[3], ph[3 - 1], got[3 - 1], ph[3], got[3])
      BY <1>3, <1>5, <1>6 DEF Carry
    <2>5. Carry(log, f[4], ph[4 - 1], got[4 - 1], ph[4], got[4])
      BY <1>3, <1>5, <1>6 DEF Carry
    <2>6. QED
      BY <2>1, <2>2, <2>3, <2>4, <2>5
  <1>9. Carries(ph, got, f, log, 0, n, 0, n + 1)
    BY <1>3, <1>4, <1>5, <1>6, <1>7, <1>8 DEF Carries
  <1>10. QED
    BY <1>3, <1>9 DEF Run, f

(* A comment delivers nothing. *)
LEMMA CommentRun ==
  ASSUME NEW log \in Seq(Event), NEW n \in 0..Len(log)
  PROVE  Comment \in Seq(Piece) /\ Run(Comment, log, 0, n, 0, n)
  <1> DEFINE c   == <<"comment">>
             ph  == [i \in 0..3 |-> IF i = 1 THEN 4 ELSE IF i = 2 THEN 5 ELSE 0]
             got == [i \in 0..3 |-> n]
  <1>1. /\ Comment \in Seq(Piece) /\ Len(Comment) = 3
        /\ Comment[1] = c /\ Comment[2] = Newline /\ Comment[3] = Newline
    <2>1. Comment = <<c, Newline, Newline>> /\ c \in Piece /\ Newline \in Piece
      BY PieceType DEF Comment
    <2> HIDE DEF c
    <2>2. QED
      BY <2>1
  <1>2. ph \in [0..3 -> Phase] /\ got \in [0..3 -> 0..Len(log)]
    BY DEF Phase
  <1>3. /\ ph[0] = 0 /\ ph[1] = 4 /\ ph[2] = 5 /\ ph[3] = 0
        /\ got[0] = n /\ got[1] = n /\ got[2] = n /\ got[3] = n
    OBVIOUS
  <1>4. \A i \in 0..3 : ~(ph[i] \in 1..3)
    OBVIOUS
  <1> HIDE DEF ph, got
  <1>5. ASSUME NEW i \in 1..3
        PROVE  Carry(log, Comment[i], ph[i - 1], got[i - 1], ph[i], got[i])
    <2>1. i = 1 \/ i = 2 \/ i = 3
      OBVIOUS
    <2>2. Carry(log, Comment[1], ph[1 - 1], got[1 - 1], ph[1], got[1])
      BY <1>1, <1>3 DEF Carry
    <2>3. Carry(log, Comment[2], ph[2 - 1], got[2 - 1], ph[2], got[2])
      BY <1>1, <1>3 DEF Carry
    <2>4. Carry(log, Comment[3], ph[3 - 1], got[3 - 1], ph[3], got[3])
      BY <1>1, <1>3 DEF Carry
    <2>5. QED
      BY <2>1, <2>2, <2>3, <2>4
  <1>6. Carries(ph, got, Comment, log, 0, n, 0, n)
    BY <1>1, <1>2, <1>3, <1>4, <1>5 DEF Carries
  <1>7. QED
    BY <1>1, <1>6 DEF Run

(* The buffer, as bytes from the end of the last frame. *)
LEMMA PartRun ==
  ASSUME NEW log \in Seq(Event), NEW q, NEW n, Between(log, q, n)
  PROVE  /\ Part(q, log[n + 1]) \in Seq(Piece) /\ Run(Part(q, log[n + 1]), log, 0, n, q, n)
         /\ ~WholeFrame(Part(q, log[n + 1]))
  <1> DEFINE e == log[n + 1]
             Ok(r) == Part(r, e) \in Seq(Piece) /\ Run(Part(r, e), log, 0, n, r, n)
  <1>1. n \in Nat /\ n <= Len(log) /\ Len(log) \in Nat /\ q \in Phase
    BY DEF Between
  <1>2. Ok(0)
    <2>1. Between(log, 0, n)
      BY <1>1 DEF Between, Phase
    <2>2. Run(<<>>, log, 0, n, 0, n)
      BY <2>1, RunEmpty
    <2>3. Part(0, e) = <<>> /\ <<>> \in Seq(Piece)
      BY Parts
    <2>4. QED
      BY <2>2, <2>3
  <1>3. n < Len(log) => Ok(1) /\ Ok(2) /\ Ok(3)
    <2> SUFFICES ASSUME n < Len(log) PROVE Ok(1) /\ Ok(2) /\ Ok(3)
      OBVIOUS
    <2>1. e \in Event
      BY <1>1
    <2>2. /\ Between(log, 1, n) /\ Between(log, 2, n) /\ Between(log, 3, n)
      BY <1>1 DEF Between, Phase
    <2>3. Ok(1)
      <3>1. Carry(log, <<"data", e, 1>>, 0, n, 1, n) /\ <<"data", e, 1>> \in Piece
        BY <2>1, PieceType DEF Carry
      <3>2. Append(Part(0, e), <<"data", e, 1>>) = Part(1, e)
        BY PartGrows
      <3> HIDE DEF e
      <3>3. QED
        BY <1>2, <2>2, <3>1, <3>2, RunAppend
    <2>4. Ok(2)
      <3>1. Carry(log, <<"data", e, 2>>, 1, n, 2, n) /\ <<"data", e, 2>> \in Piece
        BY <2>1, PieceType DEF Carry
      <3>2. Append(Part(1, e), <<"data", e, 2>>) = Part(2, e)
        BY PartGrows
      <3> HIDE DEF e
      <3>3. QED
        BY <2>2, <2>3, <3>1, <3>2, RunAppend
    <2>5. Ok(3)
      <3>1. Carry(log, Newline, 2, n, 3, n) /\ Newline \in Piece
        BY PieceType DEF Carry
      <3>2. Append(Part(2, e), Newline) = Part(3, e)
        BY PartGrows
      <3> HIDE DEF e
      <3>3. QED
        BY <2>2, <2>4, <3>1, <3>2, RunAppend
    <2>6. QED
      BY <2>3, <2>4, <2>5
  <1>4. Ok(4) /\ Ok(5)
    <2>1. Between(log, 4, n) /\ Between(log, 5, n)
      BY <1>1 DEF Between, Phase
    <2>2. Ok(4)
      <3>1. Carry(log, <<"comment">>, 0, n, 4, n) /\ <<"comment">> \in Piece
        BY PieceType DEF Carry
      <3>2. Append(Part(0, e), <<"comment">>) = Part(4, e)
        BY PartGrows
      <3> HIDE DEF e
      <3>3. QED
        BY <1>2, <2>1, <3>1, <3>2, RunAppend
    <2>3. Ok(5)
      <3>1. Carry(log, Newline, 4, n, 5, n) /\ Newline \in Piece
        BY PieceType DEF Carry
      <3>2. Append(Part(4, e), Newline) = Part(5, e)
        BY PartGrows
      <3> HIDE DEF e
      <3>3. QED
        BY <2>1, <2>2, <3>1, <3>2, RunAppend
    <2>4. QED
      BY <2>2, <2>3
  <1>5. q = 0 \/ q = 1 \/ q = 2 \/ q = 3 \/ q = 4 \/ q = 5
    BY <1>1 DEF Phase
  <1>6. ~WholeFrame(Part(q, e))
    <2> DEFINE d1 == <<"data", e, 1>>
               d2 == <<"data", e, 2>>
               c  == <<"comment">>
    <2>1. d1 # Newline /\ d2 # Newline /\ c # Newline
      BY DEF Newline
    <2>2. /\ Part(0, e) = <<>> /\ Part(1, e) = <<d1>> /\ Part(2, e) = <<d1, d2>>
          /\ Part(3, e) = <<d1, d2, Newline>> /\ Part(4, e) = <<c>> /\ Part(5, e) = <<c, Newline>>
      BY Parts
    <2> HIDE DEF d1, d2, c
    <2>3. \A x : ~WholeFrame(<<x>>) /\ ~WholeFrame(<<>>)
      BY DEF WholeFrame
    <2>4. \A x, y : x # Newline => ~WholeFrame(<<x, y>>)
      BY DEF WholeFrame
    <2>5. \A x, y, z : (x # Newline /\ y # Newline) => ~WholeFrame(<<x, y, z>>)
      <3>1. SUFFICES ASSUME NEW x, NEW y, NEW z, x # Newline, y # Newline,
                            NEW i \in 2..3, <<x, y, z>>[i - 1] = Newline
                     PROVE  FALSE
        BY DEF WholeFrame
      <3>2. i = 2 \/ i = 3
        OBVIOUS
      <3>3. QED
        BY <3>1, <3>2
    <2>6. QED
      BY <1>5, <2>1, <2>2, <2>3, <2>4, <2>5
  <1>7. q \in 1..3 => n < Len(log)
    BY DEF Between
  <1>8. QED
    <2>1. Ok(q)
      <3> HIDE DEF Ok
      <3>1. QED
        BY <1>2, <1>3, <1>4, <1>5, <1>7
    <2>2. QED
      BY <1>6, <2>1

(* What flush makes of the buffer: the event under way, if all its data is *)
(* there.                                                                  *)
LEMMA FlushedPart ==
  ASSUME NEW log \in Seq(Event), NEW q, NEW n, Between(log, q, n)
  PROVE  \/ Parsed(Part(q, log[n + 1])) = <<>>
         \/ n < Len(log) /\ q # 0 /\ Parsed(Part(q, log[n + 1])) = <<log[n + 1]>>
  <1> DEFINE e == log[n + 1]
  <1>1. q = 0 \/ q = 1 \/ q = 2 \/ q = 3 \/ q = 4 \/ q = 5
    BY DEF Between, Phase
  <1>2. q \in {2, 3} => n < Len(log)
    BY DEF Between
  <1>3. /\ Parsed(Part(0, e)) = <<>> /\ Parsed(Part(1, e)) = <<>>
        /\ Parsed(Part(2, e)) = <<e>> /\ Parsed(Part(3, e)) = <<e>>
        /\ Parsed(Part(4, e)) = <<>> /\ Parsed(Part(5, e)) = <<>>
    BY Parts, ParsedPart
  <1>4. QED
    BY <1>1, <1>2, <1>3

-----------------------------------------------------------------------------
(* The frames of several events, one after the other. *)

Flattens(g, seqs, n) == g = [i \in 1..n |-> IF i = 1 THEN seqs[i] ELSE g[i - 1] \o seqs[i]]

(* FlattenSeq's recursive function exists. *)
LEMMA FlattenExists ==
  ASSUME NEW seqs, NEW n \in Nat
  PROVE  \E g : Flattens(g, seqs, n)
  <1> DEFINE Bad == {k \in Nat : ~ \E g : Flattens(g, seqs, k)}
  <1>1. Flattens([i \in 1..0 |-> <<>>], seqs, 0)
    BY DEF Flattens
  <1>2. ASSUME NEW k \in Nat, NEW g, Flattens(g, seqs, k)
        PROVE  \E h : Flattens(h, seqs, k + 1)
    <2> DEFINE h == [i \in 1..(k + 1) |->
                       IF i = k + 1 THEN IF i = 1 THEN seqs[i] ELSE g[i - 1] \o seqs[i] ELSE g[i]]
    <2>1. ASSUME NEW i \in 1..(k + 1)
          PROVE  h[i] = IF i = 1 THEN seqs[i] ELSE h[i - 1] \o seqs[i]
      <3>1. CASE i = k + 1
        <4>1. i # 1 => h[i - 1] = g[i - 1]
          BY <3>1
        <4>2. QED
          BY <3>1, <4>1
      <3>2. CASE i # k + 1
        <4>1. i \in 1..k /\ h[i] = g[i]
          BY <3>2
        <4>2. i # 1 => i - 1 \in 1..(k + 1) /\ i - 1 # k + 1 /\ h[i - 1] = g[i - 1]
          BY <4>1
        <4>3. g[i] = IF i = 1 THEN seqs[i] ELSE g[i - 1] \o seqs[i]
          BY <1>2, <4>1 DEF Flattens
        <4>4. QED
          BY <4>1, <4>2, <4>3
      <3>3. QED
        BY <3>1, <3>2
    <2>2. h = [i \in 1..(k + 1) |-> h[i]]
      OBVIOUS
    <2> HIDE DEF h
    <2>3. Flattens(h, seqs, k + 1)
      BY <2>1, <2>2 DEF Flattens
    <2>4. QED
      BY <2>3
  <1>3. Bad = {}
    <2>1. SUFFICES ASSUME Bad # {} PROVE FALSE
      OBVIOUS
    <2>2. Bad \in SUBSET Nat
      OBVIOUS
    <2>3. PICK x \in Bad : \A y \in Bad : x <= y
      BY <2>1, <2>2, SmallestExists
    <2>4. x # 0
      BY <1>1
    <2>5. x - 1 \in Nat /\ x - 1 \notin Bad
      BY <2>3, <2>4
    <2>6. PICK g : Flattens(g, seqs, x - 1)
      BY <2>5
    <2>7. \E h : Flattens(h, seqs, (x - 1) + 1)
      BY <1>2, <2>5, <2>6
    <2>8. QED
      BY <2>3, <2>7
  <1>4. QED
    BY <1>3

(* What Send writes. *)
Written(events) == FlattenSeq([k \in DOMAIN events |-> Frame(events[k])])

(* What Send writes delivers the events it adds to the log. *)
LEMMA WrittenRun ==
  ASSUME NEW log \in Seq(Event), NEW events \in Seq(Event)
  PROVE  /\ log \o events \in Seq(Event) /\ Written(events) \in Seq(Piece)
         /\ Run(Written(events), log \o events, 0, Len(log), 0, Len(log \o events))
  <1> DEFINE longer == log \o events
             l      == Len(log)
             n      == Len(events)
             seqs   == [k \in DOMAIN events |-> Frame(events[k])]
  <1>1. /\ longer \in Seq(Event) /\ l \in Nat /\ n \in Nat /\ Len(longer) = l + n
        /\ DOMAIN events = 1..n
        /\ \A k \in 1..n : longer[l + k] = events[k]
    BY ConcatProperties
  <1>2. DOMAIN seqs = 1..n /\ Len(seqs) = n /\ \A k \in 1..n : seqs[k] = Frame(longer[l + k])
    BY <1>1
  <1>3. CASE n = 0
    <2>1. Written(events) = seqs
      BY <1>2, <1>3 DEF Written, FlattenSeq
    <2>2. seqs = <<>>
      BY <1>1, <1>3
    <2>3. Between(longer, 0, l)
      BY <1>1 DEF Between, Phase
    <2>4. Run(<<>>, longer, 0, l, 0, l) /\ <<>> \in Seq(Piece)
      <3> HIDE DEF longer, l
      <3>1. QED
        BY <1>1, <2>3, RunEmpty
    <2>5. Len(longer) = l
      BY <1>1, <1>3
    <2>6. QED
      BY <1>1, <2>1, <2>2, <2>4, <2>5
  <1>4. CASE n # 0
    <2>1. Written(events) = (CHOOSE g : Flattens(g, seqs, n))[n]
      <3>1. Len(seqs) # 0
        BY <1>2, <1>4
      <3> HIDE DEF n
      <3>2. FlattenSeq(seqs) = (CHOOSE g : Flattens(g, seqs, Len(seqs)))[Len(seqs)]
        <4> HIDE DEF seqs
        <4>1. QED
          BY <3>1 DEF FlattenSeq, Flattens
      <3>3. QED
        BY <1>2, <3>2 DEF Written
    <2>2. PICK g : Flattens(g, seqs, n) /\ Written(events) = g[n]
      BY <1>1, <2>1, FlattenExists
    <2> HIDE DEF longer, l, n, seqs
    <2> DEFINE Ok(k) == g[k] \in Seq(Piece) /\ Run(g[k], longer, 0, l, 0, l + k)
               Bad   == {k \in 1..n : ~Ok(k)}
    <2>3. ASSUME NEW k \in 1..n
          PROVE  /\ seqs[k] \in Seq(Piece)
                 /\ Run(seqs[k], longer, 0, l + (k - 1), 0, l + k)
      <3> DEFINE j == l + (k - 1)
      <3>1. j \in Nat /\ j < Len(longer) /\ j + 1 = l + k
        BY <1>1
      <3> HIDE DEF j
      <3>2. Frame(longer[j + 1]) \in Seq(Piece) /\ Run(Frame(longer[j + 1]), longer, 0, j, 0, j + 1)
        BY <1>1, <3>1, FrameRun
      <3>3. QED
        BY <1>2, <3>1, <3>2 DEF j
    <2>4. Ok(1)
      <3>1. 1 \in 1..n /\ l + (1 - 1) = l
        BY <1>1, <1>4
      <3>2. g[1] = seqs[1]
        BY <2>2, <3>1 DEF Flattens
      <3>3. QED
        BY <2>3, <3>1, <3>2
    <2>5. ASSUME NEW k \in 1..n, k # 1, Ok(k - 1)
          PROVE  Ok(k)
      <3>1. g[k] = g[k - 1] \o seqs[k]
        BY <2>2, <2>5 DEF Flattens
      <3> DEFINE a == g[k - 1]
                 b == seqs[k]
      <3>2. a \in Seq(Piece) /\ Run(a, longer, 0, l, 0, l + (k - 1))
        BY <2>5
      <3>3. b \in Seq(Piece) /\ Run(b, longer, 0, l + (k - 1), 0, l + k)
        BY <2>3
      <3> HIDE DEF a, b
      <3>4. a \o b \in Seq(Piece) /\ Run(a \o b, longer, 0, l, 0, l + k)
        BY <1>1, <3>2, <3>3, RunConcat
      <3>5. QED
        BY <3>1, <3>4 DEF a, b
    <2>6. Bad = {}
      <3>1. SUFFICES ASSUME Bad # {} PROVE FALSE
        OBVIOUS
      <3>2. Bad \in SUBSET Nat
        BY <1>1
      <3>3. PICK x \in Bad : \A y \in Bad : x <= y
        <4> HIDE DEF Bad
        <4>1. QED
          BY <3>1, <3>2, SmallestExists
      <3>4. x \in 1..n /\ ~Ok(x)
        OBVIOUS
      <3>5. x # 1
        BY <2>4, <3>4
      <3>6. x - 1 \in 1..n /\ x - 1 \notin Bad
        <4>1. x - 1 \in 1..n /\ ~(x <= x - 1)
          BY <1>1, <3>4, <3>5
        <4>2. QED
          BY <3>3, <4>1
      <3>7. Ok(x - 1)
        BY <3>6
      <3> HIDE DEF Ok
      <3>8. QED
        BY <2>5, <3>4, <3>5, <3>7
    <2>7. Ok(n)
      <3>1. n \in 1..n
        BY <1>1, <1>4
      <3> HIDE DEF Ok
      <3>2. QED
        BY <2>6, <3>1
    <2>8. QED
      BY <1>1, <2>2, <2>7 DEF longer, l
  <1>5. QED
    BY <1>3, <1>4

(***************************************************************************)
(* The invariant.  A run that is not the page's is over or aborted for its *)
(* reader.  The current one's screen shows the first n events of the log;  *)
(* while its reader waits or reads, the buffer holds the frame under way,  *)
(* and the bytes on the way are those of the rest of the log: all of it,   *)
(* unless the response was cut.                                            *)
(***************************************************************************)
RunOk(live, st, sv) ==
  /\ ~live => st.reader \in {"over", "aborted"}
  /\ live => st.reader # "aborted"
  /\ st.link = "ended" => sv.at = "over"
  /\ (st.reader = "over" /\ st.link = "open") => sv.at = "refused"

Waiting(st, log, q, n) ==
  /\ st.buffer = Part(q, log[n + 1])
  /\ \E q2, n2 : /\ Run(st.wire, log, q, n, q2, n2)
                 /\ st.link # "cut" => (q2 = 0 /\ n2 = Len(log))

Delivered(scr, st, log) ==
  \E q, n : /\ Between(log, q, n) /\ scr = ScreenOf(SubSeq(log, 1, n))
            /\ st.link # "broken" => Waiting(st, log, q, n)

Shows(scr, st, log) ==
  \E n \in 0..Len(log) :
    /\ st.link = "ended" => n = Len(log)
    /\ scr = ScreenOf(SubSeq(log, 1, n)) \/ scr = [ScreenOf(SubSeq(log, 1, n)) EXCEPT !.status = "error"]

CurrentOk(scr, st, sv) ==
  /\ st.reader \in {"fetching", "reading"} => Delivered(scr, st, sv.log)
  /\ st.reader = "over" => Shows(scr, st, sv.log)

RunsOk    == \A r \in DOMAIN streams : RunOk(r = current, streams[r], servers[r])
ScreenOk  == current # 0 => CurrentOk(screen, streams[current], servers[current])
StreamInv == StreamTypeOK /\ RunsOk /\ ScreenOk

-----------------------------------------------------------------------------
(* The screen, as far as the reader has got. *)

LEMMA Prefix ==
  ASSUME NEW log \in Seq(Event), NEW n \in 0..Len(log), NEW m \in 0..Len(log), n <= m
  PROVE  /\ SubSeq(log, 1, n) \in Seq(Event) /\ SubSeq(log, n + 1, m) \in Seq(Event)
         /\ SubSeq(log, 1, n) \o SubSeq(log, n + 1, m) = SubSeq(log, 1, m)
  <1>1. Len(log) \in Nat /\ n \in Nat /\ m \in Nat /\ \A i \in 1..Len(log) : log[i] \in Event
    OBVIOUS
  <1>2. SubSeq(log, 1, n) \in Seq(Event)
    <2>1. 1 \in Int /\ n \in Int /\ \A i \in 1..n : log[i] \in Event
      BY <1>1
    <2>2. QED
      BY <2>1, SubSeqProperties
  <1>3. SubSeq(log, n + 1, m) \in Seq(Event)
    <2>1. n + 1 \in Int /\ m \in Int /\ \A i \in (n + 1)..m : log[i] \in Event
      BY <1>1
    <2>2. QED
      BY <2>1, SubSeqProperties
  <1>4. 1 \in 1..(Len(log) + 1) /\ n \in (1 - 1)..Len(log) /\ m \in n..Len(log)
    BY <1>1
  <1>5. SubSeq(log, 1, n) \o SubSeq(log, n + 1, m) = SubSeq(log, 1, m)
    BY <1>4, ConcatAdjacentSubSeq
  <1>6. QED
    BY <1>2, <1>3, <1>5

(* From the screen after n events to the screen after m. *)
LEMMA ScreenSteps ==
  ASSUME NEW log \in Seq(Event), NEW n \in 0..Len(log), NEW m \in 0..Len(log), n <= m
  PROVE  FoldLeft(Shown, ScreenOf(SubSeq(log, 1, n)), SubSeq(log, n + 1, m)) = ScreenOf(SubSeq(log, 1, m))
  <1> DEFINE a == SubSeq(log, 1, n)
             b == SubSeq(log, n + 1, m)
  <1>1. a \in Seq(Event) /\ b \in Seq(Event) /\ a \o b = SubSeq(log, 1, m)
    BY Prefix
  <1> HIDE DEF a, b
  <1>2. FoldLeft(Shown, FoldLeft(Shown, Blank("streaming"), a), b) = FoldLeft(Shown, Blank("streaming"), a \o b)
    BY <1>1, FoldConcat
  <1>3. QED
    BY <1>1, <1>2 DEF ScreenOf, a, b

(* A blank screen is a screen. *)
LEMMA BlankType == \A st \in {"idle", "streaming"} : Blank(st) \in Screen
  BY DEF Blank, Screen

(* The screen after n events is a screen. *)
LEMMA ScreenOfType ==
  ASSUME NEW log \in Seq(Event), NEW n \in 0..Len(log)
  PROVE  ScreenOf(SubSeq(log, 1, n)) \in Screen
  <1> DEFINE a == SubSeq(log, 1, n)
  <1>1. a \in Seq(Event)
    BY Prefix
  <1>2. Blank("streaming") \in Screen
    BY BlankType
  <1> HIDE DEF a
  <1>3. FoldLeft(Shown, Blank("streaming"), a) \in Screen
    BY <1>1, <1>2, FoldType
  <1>4. QED
    BY <1>3 DEF ScreenOf, a

(* Events yielded later change nothing of what was shown or is under way. *)
LEMMA PrefixExtends ==
  ASSUME NEW log \in Seq(Event), NEW events \in Seq(Event), NEW n \in 0..Len(log)
  PROVE  SubSeq(log \o events, 1, n) = SubSeq(log, 1, n)
  <1>1. CASE n = 0
    BY <1>1, SubSeqEmpty
  <1>2. CASE n # 0
    <2>1. 1 \in 1..Len(log) /\ n \in 1..Len(log)
      BY <1>2
    <2>2. QED
      BY <2>1, SubSeqOfConcat1
  <1>3. QED
    BY <1>1, <1>2

(* A frame under way is the same in a longer log. *)
LEMMA PartExtends ==
  ASSUME NEW log \in Seq(Event), NEW longer \in Seq(Event), Len(log) <= Len(longer),
         \A i \in 1..Len(log) : longer[i] = log[i],
         NEW q, NEW n, Between(log, q, n)
  PROVE  /\ Between(longer, q, n)
         /\ Part(q, longer[n + 1]) = Part(q, log[n + 1])
  <1>1. Len(log) \in Nat /\ Len(longer) \in Nat
    OBVIOUS
  <1>2. q \in Phase /\ n \in 0..Len(log) /\ (q \in 1..3 => n < Len(log))
    BY DEF Between
  <1>3. Between(longer, q, n)
    BY <1>1, <1>2 DEF Between
  <1>4. Part(q, longer[n + 1]) = Part(q, log[n + 1])
    <2>1. CASE q \in 1..3
      BY <1>1, <1>2, <2>1
    <2>2. CASE q \notin 1..3
      <3>1. q = 0 \/ q = 4 \/ q = 5
        BY <1>2, <2>2 DEF Phase
      <3>2. QED
        BY <3>1, Parts
    <2>3. QED
      BY <2>1, <2>2
  <1>5. QED
    BY <1>3, <1>4

(* When nothing is on the way, nothing is left to deliver. *)
LEMMA RunOfEmpty ==
  ASSUME NEW log \in Seq(Event), NEW q, NEW n, NEW r, NEW m, Run(<<>>, log, q, n, r, m)
  PROVE  q = r /\ n = m
  <1>1. PICK ph, got : Carries(ph, got, <<>>, log, q, n, r, m)
    BY DEF Run
  <1>2. Len(<<>>) = 0
    OBVIOUS
  <1>3. QED
    BY <1>1, <1>2 DEF Carries

-----------------------------------------------------------------------------
(* The steps, for one stream and its server. *)

(* push: the bytes of a chunk. *)
LEMMA ReadDelivers ==
  ASSUME NEW log \in Seq(Event), NEW wire \in Seq(Piece), NEW k \in 0..Len(wire),
         NEW q, NEW n, NEW q2, NEW n2, Between(log, q, n), Run(wire, log, q, n, q2, n2),
         NEW parser, parser = Split(Part(q, log[n + 1]) \o SubSeq(wire, 1, k))
  PROVE  /\ SubSeq(wire, k + 1, Len(wire)) \in Seq(Piece)
         /\ parser.rest \in Seq(Piece) /\ ~WholeFrame(parser.rest)
         /\ \E r, m : /\ Between(log, r, m) /\ parser.rest = Part(r, log[m + 1])
                      /\ FoldLeft(Shown, ScreenOf(SubSeq(log, 1, n)), parser.events)
                           = ScreenOf(SubSeq(log, 1, m))
                      /\ Run(SubSeq(wire, k + 1, Len(wire)), log, r, m, q2, n2)
  <1> DEFINE part == Part(q, log[n + 1])
             one  == SubSeq(wire, 1, k)
             two  == SubSeq(wire, k + 1, Len(wire))
  <1>1. part \in Seq(Piece) /\ Run(part, log, 0, n, q, n)
    BY PartRun
  <1>2. PICK r, m : /\ one \in Seq(Piece) /\ two \in Seq(Piece)
                    /\ Run(one, log, q, n, r, m) /\ Run(two, log, r, m, q2, n2)
    BY RunSplit
  <1> HIDE DEF part, one, two
  <1>3. part \o one \in Seq(Piece) /\ Run(part \o one, log, 0, n, r, m)
    BY <1>1, <1>2, RunConcat
  <1>4. /\ n \in Nat /\ m \in Nat /\ n <= m /\ m <= Len(log)
        /\ Split(part \o one) = [rest |-> Part(r, log[m + 1]), events |-> SubSeq(log, n + 1, m)]
    <2> DEFINE bs == part \o one
    <2>1. bs \in Seq(Piece) /\ Run(bs, log, 0, n, r, m)
      BY <1>3
    <2> HIDE DEF bs
    <2>2. /\ n \in Nat /\ m \in Nat /\ n <= m /\ m <= Len(log)
          /\ Split(bs) = [rest |-> Part(r, log[m + 1]), events |-> SubSeq(log, n + 1, m)]
      BY <2>1, SplitRun
    <2>3. QED
      BY <2>2 DEF bs
  <1>5. Between(log, r, m)
    BY <1>2, RunEnds
  <1>6. parser.rest = Part(r, log[m + 1]) /\ parser.events = SubSeq(log, n + 1, m)
    BY <1>4 DEF part, one
  <1>7. parser.rest \in Seq(Piece) /\ ~WholeFrame(parser.rest)
    BY <1>5, <1>6, PartRun
  <1>8. n \in 0..Len(log) /\ m \in 0..Len(log)
    BY <1>4
  <1>9. FoldLeft(Shown, ScreenOf(SubSeq(log, 1, n)), SubSeq(log, n + 1, m)) = ScreenOf(SubSeq(log, 1, m))
    BY <1>4, <1>8, ScreenSteps
  <1>10. FoldLeft(Shown, ScreenOf(SubSeq(log, 1, n)), parser.events) = ScreenOf(SubSeq(log, 1, m))
    BY <1>6, <1>9
  <1>11. QED
    BY <1>2, <1>5, <1>6, <1>7, <1>10 DEF two

(* flush, at the end of a response that may have been cut. *)
LEMMA FlushDelivers ==
  ASSUME NEW log \in Seq(Event), NEW q, NEW n, Between(log, q, n)
  PROVE  \E m \in 0..Len(log) :
           /\ q = 0 => m = n
           /\ FoldLeft(Shown, ScreenOf(SubSeq(log, 1, n)), Parsed(Part(q, log[n + 1])))
                = ScreenOf(SubSeq(log, 1, m))
  <1>1. n \in 0..Len(log) /\ n \in Nat /\ Len(log) \in Nat
    BY DEF Between
  <1>2. CASE Parsed(Part(q, log[n + 1])) = <<>>
    <2>1. SubSeq(log, n + 1, n) = <<>>
      BY <1>1, SubSeqEmpty
    <2>2. FoldLeft(Shown, ScreenOf(SubSeq(log, 1, n)), SubSeq(log, n + 1, n)) = ScreenOf(SubSeq(log, 1, n))
      BY <1>1, ScreenSteps
    <2>3. QED
      BY <1>1, <1>2, <2>1, <2>2
  <1>3. CASE n < Len(log) /\ q # 0 /\ Parsed(Part(q, log[n + 1])) = <<log[n + 1]>>
    <2>1. n + 1 \in 0..Len(log) /\ n <= n + 1
      BY <1>1, <1>3
    <2>2. SubSeq(log, n + 1, n + 1) = <<log[n + 1]>>
      <3>1. n + 1 \in 1..Len(log) /\ n + 1 \in (n + 1)..Len(log) /\ (n + 1) - 1 = n
        BY <1>1, <1>3
      <3>2. SubSeq(log, n + 1, n + 1) = SubSeq(log, n + 1, (n + 1) - 1) \o <<log[n + 1]>>
        BY <3>1, SubSeqRecursiveSecond
      <3>3. SubSeq(log, n + 1, n) = <<>>
        BY <1>1, SubSeqEmpty
      <3>4. <<log[n + 1]>> \in Seq(Event)
        BY <3>1
      <3>5. QED
        BY <3>1, <3>2, <3>3, <3>4, ConcatEmptySeq
    <2>3. FoldLeft(Shown, ScreenOf(SubSeq(log, 1, n)), SubSeq(log, n + 1, n + 1)) = ScreenOf(SubSeq(log, 1, n + 1))
      BY <1>1, <2>1, ScreenSteps
    <2>4. QED
      BY <1>3, <2>1, <2>2, <2>3
  <1>4. QED
    BY <1>2, <1>3, FlushedPart

(* A connection's states. *)
Link == {"open", "ended", "cut", "broken"}

(* What the invariant says of one run. *)
LEMMA StreamFacts ==
  ASSUME StreamInv, NEW r \in DOMAIN servers
  PROVE  /\ DOMAIN servers = 1..Len(servers) /\ DOMAIN streams = 1..Len(servers) /\ Len(servers) \in Nat
         /\ r \in Nat /\ r # 0 /\ r \in DOMAIN streams
         /\ streams[r] \in Stream /\ servers[r] \in Server
         /\ streams[r].reader \in {"fetching", "reading", "over", "aborted"}
         /\ streams[r].link \in Link
         /\ streams[r].buffer \in Seq(Piece) /\ streams[r].wire \in Seq(Piece)
         /\ servers[r].at \in {"coming", "refused", "running", "over"} /\ servers[r].log \in Seq(Event)
         /\ ~WholeFrame(streams[r].buffer)
         /\ RunOk(r = current, streams[r], servers[r])
         /\ r = current => CurrentOk(screen, streams[r], servers[r])
         /\ streams[r].reader \in {"fetching", "reading"} => r = current
  <1>1. /\ DOMAIN servers = 1..Len(servers) /\ DOMAIN streams = 1..Len(servers) /\ Len(servers) \in Nat
    BY DEF StreamInv, StreamTypeOK
  <1>2. r \in Nat /\ r # 0 /\ r \in DOMAIN streams
    BY <1>1
  <1>3. streams[r] \in Stream /\ servers[r] \in Server
    BY <1>1, <1>2 DEF StreamInv, StreamTypeOK
  <1>4. /\ streams[r].reader \in {"fetching", "reading", "over", "aborted"}
        /\ streams[r].link \in Link
        /\ streams[r].buffer \in Seq(Piece) /\ streams[r].wire \in Seq(Piece)
        /\ servers[r].at \in {"coming", "refused", "running", "over"} /\ servers[r].log \in Seq(Event)
    BY <1>3 DEF Stream, Server, Link
  <1>5. ~WholeFrame(streams[r].buffer)
    BY <1>2 DEF StreamInv, StreamTypeOK
  <1>6. RunOk(r = current, streams[r], servers[r])
    BY <1>2 DEF StreamInv, RunsOk
  <1>7. r = current => CurrentOk(screen, streams[r], servers[r])
    BY <1>2 DEF StreamInv, ScreenOk
  <1>8. streams[r].reader \in {"fetching", "reading"} => r = current
    BY <1>6 DEF RunOk
  <1>9. QED
    BY <1>1, <1>2, <1>3, <1>4, <1>5, <1>6, <1>7, <1>8

(* A step of one run.  What becomes of the others is what they were. *)
LEMMA UpdateKeeps ==
  ASSUME StreamInv, NEW r \in DOMAIN servers, NEW st, NEW sv,
         streams' = [streams EXCEPT ![r] = st], servers' = [servers EXCEPT ![r] = sv],
         UNCHANGED <<page, current>>, faults' \in 0..MaxFaults,
         st \in Stream, sv \in Server, ~WholeFrame(st.buffer),
         screen' \in Screen, r = current \/ screen' = screen,
         RunOk(r = current, st, sv), r = current => CurrentOk(screen', st, sv)
  PROVE  StreamInv'
  <1>1. /\ streams \in Seq(Stream) /\ servers \in Seq(Server) /\ Len(streams) = Len(servers)
        /\ Len(servers) <= MaxRuns /\ current \in 0..Len(servers) /\ page \in BOOLEAN
        /\ \A i \in DOMAIN streams : ~WholeFrame(streams[i].buffer)
    BY DEF StreamInv, StreamTypeOK
  <1>2. DOMAIN streams = 1..Len(servers) /\ DOMAIN servers = 1..Len(servers) /\ Len(servers) \in Nat
    BY <1>1
  <1>3. r \in 1..Len(servers) /\ r \in 1..Len(streams)
    BY <1>1, <1>2
  <1>4. streams' \in Seq(Stream) /\ Len(streams') = Len(streams)
        /\ \A i \in 1..Len(streams) : streams'[i] = IF i = r THEN st ELSE streams[i]
    BY <1>1, <1>3, ExceptSeq
  <1>5. servers' \in Seq(Server) /\ Len(servers') = Len(servers)
        /\ \A i \in 1..Len(servers) : servers'[i] = IF i = r THEN sv ELSE servers[i]
    BY <1>1, <1>3, ExceptSeq
  <1>6. DOMAIN streams' = 1..Len(servers) /\ DOMAIN servers' = 1..Len(servers)
    BY <1>1, <1>4, <1>5
  <1>7. \A i \in DOMAIN streams' : ~WholeFrame(streams'[i].buffer)
    BY <1>1, <1>2, <1>4, <1>6
  <1>8. StreamTypeOK'
    <2>1. screen' \in [agents : [Agent -> {"pending", "running", "done", "skipped", "failed"}],
                       status : {"idle", "streaming", "done", "error"}, result : Result \cup {None}]
      BY DEF Screen
    <2>2. current' \in 0..Len(servers') /\ page' \in BOOLEAN
      BY <1>1, <1>5
    <2>3. ~ \E i \in DOMAIN streams' : WholeFrame(streams'[i].buffer)
      BY <1>7
    <2>4. QED
      BY <1>1, <1>4, <1>5, <1>7, <2>1, <2>2 DEF StreamTypeOK, WholeFrame
  <1>9. RunsOk'
    <2>1. SUFFICES ASSUME NEW i \in 1..Len(servers)
                   PROVE  RunOk(i = current, streams'[i], servers'[i])
      BY <1>6 DEF RunsOk, RunOk
    <2>2. CASE i = r
      BY <1>1, <1>4, <1>5, <2>2
    <2>3. CASE i # r
      <3>1. streams'[i] = streams[i] /\ servers'[i] = servers[i]
        BY <1>1, <1>4, <1>5, <2>3
      <3>2. RunOk(i = current, streams[i], servers[i])
        BY <1>2 DEF StreamInv, RunsOk
      <3>3. QED
        BY <3>1, <3>2
    <2>4. QED
      BY <2>2, <2>3
  <1>10. current # 0 => CurrentOk(screen', streams'[current], servers'[current])
    <2> SUFFICES ASSUME current # 0
                 PROVE  CurrentOk(screen', streams'[current], servers'[current])
      OBVIOUS
    <2>1. current \in 1..Len(servers)
      BY <1>1, <1>2
    <2>2. CASE current = r
      <3>1. streams'[current] = st /\ servers'[current] = sv
        BY <1>1, <1>4, <1>5, <2>1, <2>2
      <3>2. QED
        BY <2>2, <3>1
    <2>3. CASE current # r
      <3>1. streams'[current] = streams[current] /\ servers'[current] = servers[current]
        BY <1>1, <1>4, <1>5, <2>1, <2>3
      <3>2. CurrentOk(screen, streams[current], servers[current]) /\ screen' = screen
        BY <2>3 DEF StreamInv, ScreenOk
      <3>3. QED
        BY <3>1, <3>2
    <2>4. QED
      BY <2>2, <2>3
  <1>11. ScreenOk'
    <2>1. current' = current
      OBVIOUS
    <2>2. QED
      BY <1>10, <2>1 DEF ScreenOk
  <1>12. QED
    BY <1>8, <1>9, <1>11 DEF StreamInv

(* An update with what was there. *)
LEMMA SameStream ==
  ASSUME StreamInv, NEW r \in DOMAIN servers
  PROVE  /\ [streams EXCEPT ![r] = streams[r]] = streams
         /\ [servers EXCEPT ![r] = servers[r]] = servers
  <1>1. streams \in Seq(Stream) /\ servers \in Seq(Server) /\ r \in 1..Len(streams) /\ r \in 1..Len(servers)
    BY DEF StreamInv, StreamTypeOK
  <1>2. streams = [i \in 1..Len(streams) |-> streams[i]] /\ servers = [i \in 1..Len(servers) |-> servers[i]]
    BY <1>1
  <1>3. QED
    BY <1>1, <1>2

(* A step of one stream. *)
LEMMA StreamChanges ==
  ASSUME StreamInv, NEW r \in DOMAIN servers, NEW st,
         streams' = [streams EXCEPT ![r] = st],
         UNCHANGED <<page, current, servers>>, faults' \in 0..MaxFaults,
         st \in Stream, ~WholeFrame(st.buffer),
         screen' \in Screen, r = current \/ screen' = screen,
         RunOk(r = current, st, servers[r]), r = current => CurrentOk(screen', st, servers[r])
  PROVE  StreamInv'
  <1>1. servers' = [servers EXCEPT ![r] = servers[r]]
    BY SameStream
  <1>2. servers[r] \in Server
    BY StreamFacts
  <1>3. QED
    BY <1>1, <1>2, UpdateKeeps

(* A step of one handler. *)
LEMMA ServerChanges ==
  ASSUME StreamInv, NEW r \in DOMAIN servers, NEW sv,
         servers' = [servers EXCEPT ![r] = sv],
         UNCHANGED <<page, screen, current, streams>>, faults' \in 0..MaxFaults,
         sv \in Server,
         RunOk(r = current, streams[r], sv), r = current => CurrentOk(screen, streams[r], sv)
  PROVE  StreamInv'
  <1>1. streams' = [streams EXCEPT ![r] = streams[r]]
    BY SameStream
  <1>2. streams[r] \in Stream /\ ~WholeFrame(streams[r].buffer)
    BY StreamFacts
  <1>3. screen' \in Screen /\ screen' = screen
    BY DEF StreamInv, StreamTypeOK, Screen
  <1>4. CASE r = current
    <2>1. CurrentOk(screen', streams[r], sv)
      BY <1>3, <1>4
    <2>2. QED
      BY <1>1, <1>2, <1>3, <2>1, UpdateKeeps
  <1>5. CASE r # current
    BY <1>1, <1>2, <1>3, <1>5, UpdateKeeps
  <1>6. QED
    BY <1>4, <1>5

(* The faults are within their bound. *)
LEMMA FaultsType == StreamInv => faults \in 0..MaxFaults
  BY DEF StreamInv, StreamTypeOK

(* The screen is a screen. *)
LEMMA ScreenType == StreamInv => screen \in Screen
  BY DEF StreamInv, StreamTypeOK, Screen

(* The current run's reader, waiting or reading. *)
LEMMA ReaderFacts ==
  ASSUME StreamInv, NEW r \in DOMAIN servers, streams[r].reader \in {"fetching", "reading"}
  PROVE  /\ r = current
         /\ \E q, n : /\ Between(servers[r].log, q, n)
                      /\ n \in 0..Len(servers[r].log)
                      /\ screen = ScreenOf(SubSeq(servers[r].log, 1, n))
                      /\ streams[r].link # "broken" => Waiting(streams[r], servers[r].log, q, n)
  <1>1. r = current /\ CurrentOk(screen, streams[r], servers[r])
    BY StreamFacts
  <1>2. Delivered(screen, streams[r], servers[r].log)
    BY <1>1 DEF CurrentOk
  <1>3. QED
    BY <1>1, <1>2 DEF Delivered, Between

(* An error of the connection, on what was shown. *)
LEMMA RejectKeeps ==
  ASSUME StreamInv, NEW r \in DOMAIN servers, streams[r].reader \in {"fetching", "reading"}, Reject(r),
         streams[r].link = "broken" \/ servers[r].at = "refused",
         UNCHANGED <<page, current, servers, faults>>
  PROVE  StreamInv'
  <1> DEFINE st  == [streams[r] EXCEPT !.reader = "over"]
             log == servers[r].log
  <1>1. /\ streams[r] \in Stream /\ log \in Seq(Event) /\ ~WholeFrame(streams[r].buffer)
        /\ RunOk(r = current, streams[r], servers[r])
    BY StreamFacts
  <1>2. st \in Stream /\ st.reader = "over" /\ st.link = streams[r].link /\ st.buffer = streams[r].buffer
    BY <1>1 DEF Stream
  <1>3. r = current /\ \E k \in 0..Len(log) : screen = ScreenOf(SubSeq(log, 1, k))
    BY ReaderFacts
  <1>4. PICK n \in 0..Len(log) : screen = ScreenOf(SubSeq(log, 1, n))
    BY <1>3
  <1>5. screen' = [screen EXCEPT !.status = "error"] /\ streams' = [streams EXCEPT ![r] = st]
    BY DEF Reject, Update
  <1> HIDE DEF st, log
  <1>6. st.link = "ended" => FALSE
    BY <1>1, <1>2 DEF RunOk
  <1>7. RunOk(r = current, st, servers[r])
    BY <1>1, <1>2, <1>3, <1>6 DEF RunOk
  <1>8. screen' \in Screen
    BY <1>5, ScreenType DEF Screen
  <1>9. Shows(screen', st, log)
    BY <1>4, <1>5, <1>6 DEF Shows
  <1>10. CurrentOk(screen', st, servers[r])
    BY <1>2, <1>9 DEF CurrentOk, log
  <1>11. ~WholeFrame(st.buffer)
    BY <1>1, <1>2
  <1>12. faults' \in 0..MaxFaults
    BY FaultsType
  <1>13. QED
    BY <1>2, <1>3, <1>5, <1>7, <1>8, <1>10, <1>11, <1>12, StreamChanges

(* fetch or read rejects. *)
LEMMA ConnectionFailsKeeps ==
  ASSUME StreamInv, NEW r \in DOMAIN servers, ConnectionFails(r)
  PROVE  StreamInv'
  BY RejectKeeps DEF ConnectionFails

(* fetch resolves, with the stream or with a refusal. *)
LEMMA FetchedKeeps ==
  ASSUME StreamInv, NEW r \in DOMAIN servers, Fetched(r)
  PROVE  StreamInv'
  <1>1. /\ streams[r].reader = "fetching" /\ streams[r].link # "broken"
        /\ UNCHANGED <<page, current, servers, faults>>
    BY DEF Fetched
  <1>2. CASE Reject(r) /\ servers[r].at = "refused"
    BY <1>1, <1>2, RejectKeeps
  <1>3. CASE Update(r, [streams[r] EXCEPT !.reader = "reading"]) /\ UNCHANGED screen
    <2> DEFINE st == [streams[r] EXCEPT !.reader = "reading"]
    <2>1. /\ streams[r] \in Stream /\ ~WholeFrame(streams[r].buffer) /\ r = current
          /\ RunOk(r = current, streams[r], servers[r]) /\ CurrentOk(screen, streams[r], servers[r])
      BY <1>1, StreamFacts
    <2>2. /\ st \in Stream /\ st.reader = "reading" /\ st.link = streams[r].link
          /\ st.buffer = streams[r].buffer /\ st.wire = streams[r].wire
      BY <2>1 DEF Stream
    <2>3. streams' = [streams EXCEPT ![r] = st]
      BY <1>3 DEF Update
    <2> HIDE DEF st
    <2>4. RunOk(r = current, st, servers[r])
      BY <2>1, <2>2 DEF RunOk
    <2>5. Delivered(screen, st, servers[r].log)
      BY <1>1, <2>1, <2>2 DEF CurrentOk, Delivered, Waiting
    <2>6. CurrentOk(screen, st, servers[r])
      BY <2>2, <2>5 DEF CurrentOk
    <2>7. screen' = screen /\ screen' \in Screen /\ faults' \in 0..MaxFaults
      BY <1>1, <1>3, ScreenType, FaultsType
    <2>8. CurrentOk(screen', st, servers[r]) /\ ~WholeFrame(st.buffer)
      BY <2>1, <2>2, <2>6, <2>7
    <2>9. QED
      BY <1>1, <2>1, <2>2, <2>3, <2>4, <2>7, <2>8, StreamChanges
  <1>4. QED
    BY <1>2, <1>3 DEF Fetched

(* read resolves with a chunk, which may end inside a frame. *)
LEMMA ReadKeeps ==
  ASSUME StreamInv, NEW r \in DOMAIN servers, NEW k \in 1..Len(streams[r].wire), Read(r, k)
  PROVE  StreamInv'
  <1> DEFINE stream == streams[r]
             log    == servers[r].log
             two    == SubSeq(stream.wire, k + 1, Len(stream.wire))
  <1>1. /\ stream.reader = "reading" /\ stream.link # "broken"
        /\ UNCHANGED <<page, current, servers, faults>>
    BY DEF Read
  <1>2. PICK parser : /\ parser = Split(stream.buffer \o SubSeq(stream.wire, 1, k))
                      /\ screen' = FoldLeft(Shown, screen, parser.events)
                      /\ streams' = [streams EXCEPT ![r] = [stream EXCEPT !.buffer = parser.rest, !.wire = two]]
    BY DEF Read, Dispatch, Update
  <1> DEFINE st == [stream EXCEPT !.buffer = parser.rest, !.wire = two]
  <1>3. /\ stream \in Stream /\ log \in Seq(Event) /\ stream.wire \in Seq(Piece)
        /\ RunOk(r = current, stream, servers[r])
    BY StreamFacts
  <1>4. k \in 0..Len(stream.wire)
    BY <1>3
  <1>5. r = current
    BY <1>1, ReaderFacts
  <1>6. PICK q, n : /\ Between(log, q, n) /\ screen = ScreenOf(SubSeq(log, 1, n)) /\ n \in 0..Len(log)
                    /\ Waiting(stream, log, q, n)
    BY <1>1, ReaderFacts
  <1>7. PICK q2, n2 : /\ Run(stream.wire, log, q, n, q2, n2)
                      /\ stream.link # "cut" => (q2 = 0 /\ n2 = Len(log))
    BY <1>6 DEF Waiting
  <1> DEFINE wire == stream.wire
  <1>8. wire \in Seq(Piece) /\ k \in 0..Len(wire) /\ Run(wire, log, q, n, q2, n2)
        /\ parser = Split(Part(q, log[n + 1]) \o SubSeq(wire, 1, k)) /\ two = SubSeq(wire, k + 1, Len(wire))
    BY <1>2, <1>3, <1>4, <1>6, <1>7 DEF Waiting
  <1> HIDE DEF wire, log, two, stream
  <1>9. /\ two \in Seq(Piece) /\ parser.rest \in Seq(Piece) /\ ~WholeFrame(parser.rest)
        /\ \E q1, m1 : /\ Between(log, q1, m1) /\ parser.rest = Part(q1, log[m1 + 1])
                       /\ FoldLeft(Shown, ScreenOf(SubSeq(log, 1, n)), parser.events)
                            = ScreenOf(SubSeq(log, 1, m1))
                       /\ Run(two, log, q1, m1, q2, n2)
    BY <1>3, <1>6, <1>8, ReadDelivers
  <1>10. /\ st \in Stream /\ st.reader = "reading" /\ st.link = stream.link
         /\ st.buffer = parser.rest /\ st.wire = two
    BY <1>1, <1>3, <1>9 DEF Stream
  <1> HIDE DEF st
  <1>11. PICK q1, m1 : /\ Between(log, q1, m1) /\ parser.rest = Part(q1, log[m1 + 1])
                       /\ screen' = ScreenOf(SubSeq(log, 1, m1))
                       /\ Run(two, log, q1, m1, q2, n2)
    BY <1>2, <1>6, <1>9
  <1>12. Waiting(st, log, q1, m1)
    BY <1>7, <1>10, <1>11 DEF Waiting
  <1>13. CurrentOk(screen', st, servers[r])
    BY <1>10, <1>11, <1>12 DEF CurrentOk, Delivered, log
  <1>14. RunOk(r = current, st, servers[r])
    BY <1>3, <1>5, <1>10 DEF RunOk
  <1>15. m1 \in 0..Len(log)
    BY <1>11 DEF Between
  <1>16. screen' \in Screen
    BY <1>3, <1>11, <1>15, ScreenOfType
  <1>17. faults' \in 0..MaxFaults /\ streams' = [streams EXCEPT ![r] = st] /\ ~WholeFrame(st.buffer)
    BY <1>1, <1>2, <1>9, <1>10, FaultsType DEF st, stream
  <1>18. QED
    BY <1>1, <1>5, <1>10, <1>13, <1>14, <1>16, <1>17, StreamChanges

(* The end of the response, proper or not, and the flush. *)
LEMMA ReadEndKeeps ==
  ASSUME StreamInv, NEW r \in DOMAIN servers, ReadEnd(r)
  PROVE  StreamInv'
  <1> DEFINE stream == streams[r]
             log    == servers[r].log
             st     == [stream EXCEPT !.buffer = <<>>, !.reader = "over"]
  <1>1. /\ stream.reader = "reading" /\ stream.link \in {"ended", "cut"} /\ stream.wire = <<>>
        /\ screen' = FoldLeft(Shown, screen, Parsed(stream.buffer))
        /\ streams' = [streams EXCEPT ![r] = st]
        /\ UNCHANGED <<page, current, servers, faults>>
    BY DEF ReadEnd, Dispatch, Update
  <1>2. stream \in Stream /\ log \in Seq(Event) /\ RunOk(r = current, stream, servers[r])
    BY StreamFacts
  <1>3. r = current
    BY <1>1, ReaderFacts
  <1>4. stream.link # "broken"
    BY <1>1
  <1>5. PICK q, n : /\ Between(log, q, n) /\ screen = ScreenOf(SubSeq(log, 1, n))
                    /\ Waiting(stream, log, q, n)
    BY <1>1, <1>4, ReaderFacts
  <1>6. /\ st \in Stream /\ st.reader = "over" /\ st.link = stream.link /\ st.buffer = <<>>
    <2>1. <<>> \in Seq(Piece)
      OBVIOUS
    <2>2. QED
      BY <1>2, <2>1 DEF Stream
  <1> HIDE DEF st, log, stream
  <1>7. stream.link = "ended" => (q = 0 /\ n = Len(log))
    <2> SUFFICES ASSUME stream.link = "ended" PROVE q = 0 /\ n = Len(log)
      OBVIOUS
    <2>1. Run(<<>>, log, q, n, 0, Len(log))
      BY <1>1, <1>5 DEF Waiting
    <2>2. QED
      BY <1>2, <2>1, RunOfEmpty
  <1>8. PICK m \in 0..Len(log) : /\ q = 0 => m = n
                                 /\ screen' = ScreenOf(SubSeq(log, 1, m))
    <2>1. stream.buffer = Part(q, log[n + 1])
      BY <1>5 DEF Waiting
    <2>2. QED
      BY <1>1, <1>2, <1>5, <2>1, FlushDelivers
  <1>9. Shows(screen', st, log)
    BY <1>6, <1>7, <1>8 DEF Shows
  <1>10. CurrentOk(screen', st, servers[r])
    BY <1>6, <1>9 DEF CurrentOk, log
  <1>11. RunOk(r = current, st, servers[r])
    BY <1>1, <1>2, <1>3, <1>6 DEF RunOk
  <1>12. screen' \in Screen
    BY <1>2, <1>8, ScreenOfType
  <1>13. faults' \in 0..MaxFaults
    BY <1>1, FaultsType
  <1>14. ~WholeFrame(st.buffer)
    <2>1. Len(<<>>) = 0
      OBVIOUS
    <2>2. QED
      BY <1>6, <2>1 DEF WholeFrame
  <1>15. QED
    BY <1>1, <1>3, <1>6, <1>10, <1>11, <1>12, <1>13, <1>14, StreamChanges

-----------------------------------------------------------------------------
(* The handler. *)

LEMMA ArriveKeeps ==
  ASSUME StreamInv, NEW r \in DOMAIN servers, Arrive(r)
  PROVE  StreamInv'
  <1>1. PICK sv \in {[servers[r] EXCEPT !.at = "running"], [servers[r] EXCEPT !.at = "refused"]} :
          servers' = [servers EXCEPT ![r] = sv]
    BY DEF Arrive, Accept, Refuse, Becomes
  <1>2. servers[r].at = "coming" /\ UNCHANGED <<page, screen, current, streams, faults>>
    BY DEF Arrive, Accept, Refuse
  <1>3. /\ servers[r] \in Server /\ streams[r] \in Stream /\ RunOk(r = current, streams[r], servers[r])
        /\ r = current => CurrentOk(screen, streams[r], servers[r])
    BY StreamFacts
  <1>4. sv \in Server /\ sv.log = servers[r].log
    BY <1>3 DEF Server
  <1>5. RunOk(r = current, streams[r], sv)
    BY <1>2, <1>3 DEF RunOk
  <1>6. r = current => CurrentOk(screen, streams[r], sv)
    BY <1>3, <1>4 DEF CurrentOk
  <1>7. faults' \in 0..MaxFaults
    BY <1>2, FaultsType
  <1>8. QED
    BY <1>1, <1>2, <1>4, <1>5, <1>6, <1>7, ServerChanges

(* What orchestrate yields are events. *)
LEMMA FollowingType ==
  ASSUME NEW log \in Seq(Event), NEW events \in Following(log)
  PROVE  events \in Seq(Event)
  <1>1. \A a \in Agent : <<"started", a>> \in Event /\ <<"completed", a>> \in Event /\ <<"failed", a>> \in Event
    BY DEF Event
  <1>2. <<"skipped", "DEMAND">> \in Event /\ <<"lost", "INVENTORY">> \in Event /\ <<"lost", "STRATEGY">> \in Event
    BY DEF Event
  <1>3. \A x \in Result : <<"ready", x>> \in Event
    BY DEF Event
  <1>4. \A a \in Agent : Outcomes(a) \subseteq Event
    BY <1>1 DEF Outcomes
  <1>5. \A i : WaveThree(i) \in Seq(Event)
    BY <1>1 DEF Agent, WaveThree
  <1>6. \A m, i : WaveTwo(m, i) \in Seq(Event)
    BY <1>1, <1>2, <1>5 DEF Agent, WaveTwo
  <1>7. \A a \in Agent : \A e \in Outcomes(a) : <<e>> \in Seq(Event)
    BY <1>4
  <1>9. \A a \in Agent : \A d \in Outcomes(a) : \A i : <<d>> \o WaveThree(i) \in Seq(Event)
    BY <1>5, <1>7
  <1>10. <<<<"started", "MARKET">>, <<"started", "INVENTORY">>>> \in Seq(Event)
    BY <1>1 DEF Agent
  <1>11. <<<<"lost", "INVENTORY">>>> \in Seq(Event) /\ <<<<"lost", "STRATEGY">>>> \in Seq(Event)
    BY <1>2
  <1>12. <<<<"completed", "STRATEGY">>, <<"started", "COMPLIANCE">>>> \in Seq(Event)
    BY <1>1 DEF Agent
  <1>13. ASSUME NEW x \in Result PROVE <<<<"ready", x>>>> \in Seq(Event)
    <2> DEFINE e == <<"ready", x>>
    <2>1. e \in Event
      BY <1>3
    <2> HIDE DEF e
    <2>2. <<e>> \in Seq(Event)
      BY <2>1
    <2>3. QED
      BY <2>2 DEF e
  <1>14. "MARKET" \in Agent /\ "INVENTORY" \in Agent /\ "DEMAND" \in Agent /\ "COMPLIANCE" \in Agent
    BY DEF Agent
  <1>15. CASE log = <<>>
    <2>1. Following(log) = {<<<<"started", "MARKET">>, <<"started", "INVENTORY">>>>}
      BY <1>15 DEF Following
    <2>2. QED
      BY <1>10, <2>1
  <1>16. CASE log # <<>> /\ Len(log) = 2
    <2>1. Following(log)
            = {ends \o WaveTwo(ends[1], ends[2]) : ends \in Outcomes("MARKET") \X Outcomes("INVENTORY")}
      BY <1>16 DEF Following
    <2>2. PICK ends \in Outcomes("MARKET") \X Outcomes("INVENTORY") : events = ends \o WaveTwo(ends[1], ends[2])
      BY <2>1
    <2> DEFINE m == ends[1]
               i == ends[2]
               wave == WaveTwo(m, i)
    <2>3. ends = <<m, i>> /\ m \in Outcomes("MARKET") /\ i \in Outcomes("INVENTORY")
      OBVIOUS
    <2>4. m \in Event /\ i \in Event
      BY <1>4, <1>14, <2>3
    <2>5. wave \in Seq(Event)
      BY <1>6
    <2>6. events = <<m, i>> \o wave
      BY <2>2, <2>3
    <2> HIDE DEF m, i, wave
    <2>7. <<m, i>> \in Seq(Event)
      BY <2>4
    <2>8. QED
      BY <2>5, <2>6, <2>7
  <1>17. CASE Len(log) > 2 /\ Last(log)[2] = "DEMAND"
    <2>1. CASE Last(log)[1] = "started"
      <3>1. Following(log) = {<<d>> \o WaveThree(log[4]) : d \in Outcomes("DEMAND")}
        BY <1>17, <2>1 DEF Following
      <3>2. QED
        BY <1>9, <1>14, <3>1
    <2>2. CASE Last(log)[1] # "started"
      <3>1. events \in {<<<<"lost", "INVENTORY">>>>}
        BY <1>17, <2>2 DEF Following
      <3>2. QED
        BY <1>11, <3>1
    <2>3. QED
      BY <2>1, <2>2
  <1>18. CASE Len(log) > 2 /\ Last(log)[2] = "STRATEGY"
    <2> Len(log) > 2 /\ Last(log)[2] = "STRATEGY"
      BY <1>18
    <2> log # <<>>
      OBVIOUS
    <2> Len(log) # 2
      <3> DEFINE l == Len(log)
      <3>1. l \in Nat /\ l > 2
        OBVIOUS
      <3> HIDE DEF l
      <3>2. l # 2
        BY <3>1
      <3>3. QED
        BY <3>2 DEF l
    <2>1. CASE Last(log)[1] = "started"
      <3>2. events \in {<<<<"completed", "STRATEGY">>, <<"started", "COMPLIANCE">>>>, <<<<"lost", "STRATEGY">>>>}
        BY <2>1 DEF Following
      <3>3. QED
        BY <1>11, <1>12, <3>2
    <2>2. CASE Last(log)[1] # "started"
      BY <2>2 DEF Following
    <2>3. QED
      BY <2>1, <2>2
  <1>19. CASE Len(log) > 2 /\ Last(log)[2] = "COMPLIANCE"
    <2>1. CASE Last(log)[1] = "started"
      <3>1. events \in {<<c>> : c \in Outcomes("COMPLIANCE")}
        BY <1>19, <2>1 DEF Following
      <3>2. QED
        BY <1>7, <1>14, <3>1
    <2>2. CASE Last(log)[1] # "started"
      <3>1. events \in {<<<<"ready", x>>>> : x \in Result}
        BY <1>19, <2>2 DEF Following
      <3>2. QED
        BY <1>13, <3>1
    <2>3. QED
      BY <2>1, <2>2
  <1>20. CASE /\ log # <<>> /\ Len(log) # 2
              /\ ~(Len(log) > 2 /\ Last(log)[2] \in {"DEMAND", "STRATEGY", "COMPLIANCE"})
    BY <1>20 DEF Following
  <1>21. QED
    BY <1>15, <1>16, <1>17, <1>18, <1>19, <1>20

(* Yield and Throw: the log grows, and the bytes of its new events are on  *)
(* the way if the connection is there.                                     *)
LEMMA SendKeeps ==
  ASSUME StreamInv, NEW r \in DOMAIN servers, NEW events \in Seq(Event), servers[r].at = "running",
         Send(r, events), UNCHANGED <<page, screen, current>>, faults' \in 0..MaxFaults
  PROVE  StreamInv'
  <1> DEFINE stream == streams[r]
             log    == servers[r].log
             longer == log \o events
             sv     == [servers[r] EXCEPT !.log = longer]
             bytes  == Written(events)
  <1>1. servers' = [servers EXCEPT ![r] = sv] /\ Write(r, bytes)
    BY DEF Send, Becomes, Written
  <1>2. /\ servers[r] \in Server /\ stream \in Stream /\ RunOk(r = current, stream, servers[r])
        /\ log \in Seq(Event) /\ stream.wire \in Seq(Piece) /\ ~WholeFrame(stream.buffer)
        /\ r = current => CurrentOk(screen, stream, servers[r])
    BY StreamFacts
  <1>3. longer \in Seq(Event) /\ bytes \in Seq(Piece) /\ Run(bytes, longer, 0, Len(log), 0, Len(longer))
    BY <1>2, WrittenRun
  <1>4. sv \in Server /\ sv.at = "running" /\ sv.log = longer
    BY <1>2, <1>3 DEF Server
  <1>5. stream.link # "ended" /\ ~(stream.reader = "over" /\ stream.link = "open")
    BY <1>2 DEF RunOk
  <1> DEFINE st == IF stream.link = "open" THEN [stream EXCEPT !.wire = @ \o bytes] ELSE stream
  <1>6. streams' = [streams EXCEPT ![r] = st]
    BY <1>1, SameStream DEF Write, Update
  <1>7. /\ st \in Stream /\ st.reader = stream.reader /\ st.link = stream.link /\ st.buffer = stream.buffer
        /\ st.wire = IF stream.link = "open" THEN stream.wire \o bytes ELSE stream.wire
    <2>1. stream.wire \o bytes \in Seq(Piece)
      BY <1>2, <1>3
    <2>2. QED
      BY <1>2, <2>1 DEF Stream
  <1> HIDE DEF st, sv, stream, log, bytes
  <1>8. RunOk(r = current, st, sv)
    BY <1>2, <1>4, <1>5, <1>7 DEF RunOk
  <1>9. ASSUME r = current, st.reader \in {"fetching", "reading"}
        PROVE  Delivered(screen, st, longer)
    <2>1. Delivered(screen, stream, log)
      BY <1>2, <1>7, <1>9 DEF CurrentOk, log
    <2>2. PICK q, n : /\ Between(log, q, n) /\ screen = ScreenOf(SubSeq(log, 1, n))
                      /\ stream.link # "broken" => Waiting(stream, log, q, n)
      BY <2>1 DEF Delivered
    <2>3. n \in 0..Len(log)
      BY <2>2 DEF Between
    <2>4. Between(longer, q, n) /\ Part(q, longer[n + 1]) = Part(q, log[n + 1])
      <3>1. /\ Len(log) <= Len(longer)
            /\ \A i \in 1..Len(log) : longer[i] = log[i]
        BY <1>2, ConcatProperties
      <3>2. log \in Seq(Event) /\ longer \in Seq(Event) /\ Between(log, q, n)
        BY <1>2, <1>3, <2>2
      <3> HIDE DEF longer
      <3>3. QED
        BY <3>1, <3>2, PartExtends
    <2>5. screen = ScreenOf(SubSeq(longer, 1, n))
      BY <1>2, <2>2, <2>3, PrefixExtends
    <2>6. ASSUME st.link # "broken" PROVE Waiting(st, longer, q, n)
      <3>1. Waiting(stream, log, q, n)
        BY <1>7, <2>2, <2>6
      <3>2. PICK q2, n2 : /\ Run(stream.wire, log, q, n, q2, n2)
                          /\ stream.link # "cut" => (q2 = 0 /\ n2 = Len(log))
        BY <3>1 DEF Waiting
      <3>3. Run(stream.wire, longer, q, n, q2, n2)
        BY <1>2, <3>2, RunExtend
      <3>4. st.buffer = Part(q, longer[n + 1])
        BY <1>7, <2>4, <3>1 DEF Waiting
      <3>5. CASE stream.link = "open"
        <4>1. Run(stream.wire, longer, q, n, 0, Len(log))
          BY <3>2, <3>3, <3>5
        <4> HIDE DEF longer
        <4>2. Run(stream.wire \o bytes, longer, q, n, 0, Len(longer))
          BY <1>2, <1>3, <4>1, RunConcat
        <4>3. QED
          BY <1>7, <3>4, <3>5, <4>2 DEF Waiting
      <3>6. CASE stream.link # "open"
        <4>1. st.link = "cut" /\ st.wire = stream.wire
          BY <1>2, <1>5, <1>7, <2>6, <3>6 DEF Stream
        <4>2. QED
          BY <3>3, <3>4, <4>1 DEF Waiting
      <3>7. QED
        BY <3>5, <3>6
    <2>7. QED
      BY <2>4, <2>5, <2>6 DEF Delivered
  <1>10. ASSUME r = current, st.reader = "over"
         PROVE  Shows(screen, st, longer)
    <2>1. Shows(screen, stream, log)
      BY <1>2, <1>7, <1>10 DEF CurrentOk, log
    <2>2. PICK n \in 0..Len(log) :
            screen = ScreenOf(SubSeq(log, 1, n)) \/ screen = [ScreenOf(SubSeq(log, 1, n)) EXCEPT !.status = "error"]
      BY <2>1 DEF Shows
    <2>3. SubSeq(longer, 1, n) = SubSeq(log, 1, n)
      BY <1>2, PrefixExtends
    <2>4. n \in 0..Len(longer)
      BY <1>2, ConcatProperties
    <2>5. QED
      BY <1>5, <1>7, <2>2, <2>3, <2>4 DEF Shows
  <1>11. r = current => CurrentOk(screen', st, sv)
    BY <1>4, <1>9, <1>10 DEF CurrentOk
  <1>12. screen' \in Screen /\ screen' = screen /\ ~WholeFrame(st.buffer)
    BY <1>2, <1>7, ScreenType
  <1>13. QED
    BY <1>1, <1>4, <1>6, <1>7, <1>8, <1>11, <1>12, UpdateKeeps

(* orchestrate yields. *)
LEMMA YieldKeeps ==
  ASSUME StreamInv, NEW r \in DOMAIN servers, Yield(r)
  PROVE  StreamInv'
  <1>1. PICK events \in Following(servers[r].log) : Send(r, events)
    BY DEF Yield
  <1>2. servers[r].at = "running" /\ UNCHANGED <<page, screen, current, faults>>
    BY DEF Yield
  <1>3. events \in Seq(Event)
    BY StreamFacts, FollowingType
  <1>4. faults' \in 0..MaxFaults
    BY <1>2, FaultsType
  <1>5. QED
    BY <1>1, <1>2, <1>3, <1>4, SendKeeps

(* A fault is counted. *)
LEMMA FaultCounted ==
  ASSUME StreamInv, faults < MaxFaults, faults' = faults + 1
  PROVE  faults' \in 0..MaxFaults
  BY FaultsType, StreamBoundAssumption

(* orchestrate throws, and the handler says so. *)
LEMMA ThrowKeeps ==
  ASSUME StreamInv, NEW r \in DOMAIN servers, Throw(r)
  PROVE  StreamInv'
  <1> DEFINE events == <<<<"lost", None>>>>
  <1>1. /\ servers[r].at = "running" /\ UNCHANGED <<page, screen, current>>
        /\ Send(r, events) /\ faults < MaxFaults /\ faults' = faults + 1
    BY DEF Throw
  <1>2. events \in Seq(Event)
    <2>1. <<"lost", None>> \in Event
      BY DEF Event
    <2>2. QED
      BY <2>1
  <1> HIDE DEF events
  <1>3. faults' \in 0..MaxFaults
    BY <1>1, FaultCounted
  <1>4. QED
    BY <1>1, <1>2, <1>3, SendKeeps

(* The handler ends: by then the log is complete. *)
LEMMA EndKeeps ==
  ASSUME StreamInv, NEW r \in DOMAIN servers, End(r)
  PROVE  StreamInv'
  <1> DEFINE stream == streams[r]
             log    == servers[r].log
             sv     == [servers[r] EXCEPT !.at = "over"]
             st     == IF stream.link = "open" THEN [stream EXCEPT !.link = "ended"] ELSE stream
  <1>1. servers[r].at = "running" /\ UNCHANGED <<page, screen, current, faults>>
    BY DEF End
  <1>2. servers' = [servers EXCEPT ![r] = sv] /\ streams' = [streams EXCEPT ![r] = st]
    BY SameStream DEF End, Becomes, Update
  <1>3. /\ servers[r] \in Server /\ stream \in Stream /\ RunOk(r = current, stream, servers[r])
        /\ ~WholeFrame(stream.buffer)
        /\ r = current => CurrentOk(screen, stream, servers[r])
    BY StreamFacts
  <1>4. sv \in Server /\ sv.at = "over" /\ sv.log = log
    BY <1>3 DEF Server
  <1>5. stream.link # "ended" /\ ~(stream.reader = "over" /\ stream.link = "open")
    BY <1>1, <1>3 DEF RunOk
  <1>6. /\ st \in Stream /\ st.reader = stream.reader /\ st.buffer = stream.buffer /\ st.wire = stream.wire
        /\ st.link = IF stream.link = "open" THEN "ended" ELSE stream.link
    BY <1>3 DEF Stream
  <1> HIDE DEF st, sv, stream
  <1>7. RunOk(r = current, st, sv)
    BY <1>3, <1>4, <1>5, <1>6 DEF RunOk
  <1>8. ASSUME r = current, st.reader \in {"fetching", "reading"}
        PROVE  Delivered(screen, st, log)
    <2>1. Delivered(screen, stream, log)
      BY <1>3, <1>6, <1>8 DEF CurrentOk
    <2>2. QED
      BY <1>6, <2>1 DEF Delivered, Waiting
  <1>9. ASSUME r = current, st.reader = "over"
        PROVE  Shows(screen, st, log)
    <2>1. Shows(screen, stream, log) /\ st.link = stream.link
      BY <1>3, <1>5, <1>6, <1>9 DEF CurrentOk
    <2>2. QED
      BY <2>1 DEF Shows
  <1>10. r = current => CurrentOk(screen', st, sv)
    BY <1>1, <1>4, <1>8, <1>9 DEF CurrentOk
  <1>11. screen' \in Screen /\ screen' = screen /\ ~WholeFrame(st.buffer) /\ faults' \in 0..MaxFaults
    BY <1>1, <1>3, <1>6, ScreenType, FaultsType
  <1>12. QED
    BY <1>1, <1>2, <1>4, <1>6, <1>7, <1>10, <1>11, UpdateKeeps

(* A comment comes between two frames only. *)
LEMMA KeepAliveKeeps ==
  ASSUME StreamInv, NEW r \in DOMAIN servers, KeepAlive(r)
  PROVE  StreamInv'
  <1> DEFINE stream == streams[r]
             log    == servers[r].log
             st     == [stream EXCEPT !.wire = Comment]
  <1>1. /\ servers[r].at = "running" /\ stream.link = "open" /\ stream.wire = <<>>
        /\ UNCHANGED <<page, screen, current, servers, faults>>
        /\ streams' = [streams EXCEPT ![r] = st]
    BY DEF KeepAlive, Update
  <1>2. /\ stream \in Stream /\ RunOk(r = current, stream, servers[r]) /\ log \in Seq(Event)
        /\ ~WholeFrame(stream.buffer)
        /\ r = current => CurrentOk(screen, stream, servers[r])
    BY StreamFacts
  <1>3. Comment \in Seq(Piece) /\ Run(Comment, log, 0, Len(log), 0, Len(log))
    <2>1. Len(log) \in 0..Len(log)
      BY <1>2
    <2>2. QED
      BY <1>2, <2>1, CommentRun
  <1>4. /\ st \in Stream /\ st.reader = stream.reader /\ st.buffer = stream.buffer
        /\ st.link = stream.link /\ st.wire = Comment
    BY <1>2, <1>3 DEF Stream
  <1> HIDE DEF st, stream, log
  <1>5. RunOk(r = current, st, servers[r])
    BY <1>2, <1>4 DEF RunOk
  <1>6. st.reader # "over"
    BY <1>1, <1>2, <1>4 DEF RunOk
  <1>7. ASSUME r = current, st.reader \in {"fetching", "reading"}
        PROVE  Delivered(screen, st, log)
    <2>1. Delivered(screen, stream, log)
      BY <1>2, <1>4, <1>7 DEF CurrentOk, log
    <2>2. PICK q, n : /\ Between(log, q, n) /\ screen = ScreenOf(SubSeq(log, 1, n))
                      /\ stream.link # "broken" => Waiting(stream, log, q, n)
      BY <2>1 DEF Delivered
    <2>3. Run(<<>>, log, q, n, 0, Len(log)) /\ stream.buffer = Part(q, log[n + 1])
      BY <1>1, <2>2 DEF Waiting
    <2>4. q = 0 /\ n = Len(log)
      BY <1>2, <2>3, RunOfEmpty
    <2>5. Waiting(st, log, q, n)
      BY <1>3, <1>4, <2>3, <2>4 DEF Waiting
    <2>6. QED
      BY <2>2, <2>5 DEF Delivered
  <1>8. r = current => CurrentOk(screen', st, servers[r])
    BY <1>1, <1>6, <1>7 DEF CurrentOk, log
  <1>9. screen' \in Screen /\ screen' = screen /\ ~WholeFrame(st.buffer) /\ faults' \in 0..MaxFaults
    BY <1>1, <1>2, <1>4, ScreenType, FaultsType
  <1>10. QED
    BY <1>1, <1>4, <1>5, <1>8, <1>9, StreamChanges

-----------------------------------------------------------------------------
(* The network. *)

LEMMA BreakKeeps ==
  ASSUME StreamInv, NEW r \in DOMAIN servers, Break(r)
  PROVE  StreamInv'
  <1> DEFINE stream == streams[r]
             st     == [stream EXCEPT !.link = "broken", !.wire = <<>>]
  <1>1. /\ stream.reader \in {"fetching", "reading"} /\ faults < MaxFaults /\ faults' = faults + 1
        /\ UNCHANGED <<page, screen, current, servers>>
        /\ streams' = [streams EXCEPT ![r] = st]
    BY DEF Break, Update
  <1>2. /\ stream \in Stream /\ RunOk(r = current, stream, servers[r]) /\ r = current
        /\ ~WholeFrame(stream.buffer) /\ CurrentOk(screen, stream, servers[r])
    BY <1>1, StreamFacts
  <1>3. /\ st \in Stream /\ st.reader = stream.reader /\ st.buffer = stream.buffer /\ st.link = "broken"
    <2>1. <<>> \in Seq(Piece)
      OBVIOUS
    <2>2. QED
      BY <1>2, <2>1 DEF Stream
  <1> HIDE DEF st, stream
  <1>4. RunOk(r = current, st, servers[r])
    BY <1>1, <1>2, <1>3 DEF RunOk
  <1>5. Delivered(screen, st, servers[r].log)
    BY <1>1, <1>2, <1>3 DEF CurrentOk, Delivered
  <1>6. CurrentOk(screen', st, servers[r])
    BY <1>1, <1>3, <1>5 DEF CurrentOk
  <1>7. screen' \in Screen /\ ~WholeFrame(st.buffer) /\ faults' \in 0..MaxFaults
    BY <1>1, <1>2, <1>3, ScreenType, FaultCounted
  <1>8. QED
    BY <1>1, <1>2, <1>3, <1>4, <1>6, <1>7, StreamChanges

(* A cut leaves the beginning of what was on the way. *)
LEMMA CutKeeps ==
  ASSUME StreamInv, NEW r \in DOMAIN servers, NEW k \in 0..Len(streams[r].wire), Cut(r, k)
  PROVE  StreamInv'
  <1> DEFINE stream == streams[r]
             log    == servers[r].log
             wire   == stream.wire
             one    == SubSeq(wire, 1, k)
             st     == [stream EXCEPT !.link = "cut", !.wire = one]
  <1>1. /\ stream.reader = "reading" /\ stream.link = "open" /\ faults < MaxFaults /\ faults' = faults + 1
        /\ UNCHANGED <<page, screen, current, servers>>
        /\ streams' = [streams EXCEPT ![r] = st]
    BY DEF Cut, Update
  <1>2. /\ stream \in Stream /\ RunOk(r = current, stream, servers[r]) /\ r = current
        /\ ~WholeFrame(stream.buffer) /\ log \in Seq(Event) /\ wire \in Seq(Piece)
    BY <1>1, StreamFacts
  <1>3. stream.link # "broken"
    BY <1>1
  <1>4. PICK q, n : /\ Between(log, q, n) /\ screen = ScreenOf(SubSeq(log, 1, n))
                    /\ Waiting(stream, log, q, n)
    BY <1>1, <1>3, ReaderFacts
  <1>5. PICK q2, n2 : Run(wire, log, q, n, q2, n2)
    BY <1>4 DEF Waiting
  <1>6. k \in 0..Len(wire)
    OBVIOUS
  <1> HIDE DEF wire
  <1>7. one \in Seq(Piece) /\ \E r1, m1 : Run(one, log, q, n, r1, m1)
    BY <1>2, <1>5, <1>6, RunSplit
  <1>8. /\ st \in Stream /\ st.reader = "reading" /\ st.buffer = stream.buffer /\ st.link = "cut" /\ st.wire = one
    BY <1>1, <1>2, <1>7 DEF Stream
  <1> HIDE DEF st, stream, one, log
  <1>9. RunOk(r = current, st, servers[r])
    BY <1>1, <1>2, <1>8 DEF RunOk
  <1>10. Waiting(st, log, q, n)
    BY <1>4, <1>7, <1>8 DEF Waiting
  <1>11. CurrentOk(screen', st, servers[r])
    BY <1>1, <1>4, <1>8, <1>10 DEF CurrentOk, Delivered, log
  <1>12. screen' \in Screen /\ ~WholeFrame(st.buffer) /\ faults' \in 0..MaxFaults
    BY <1>1, <1>2, <1>8, ScreenType, FaultCounted
  <1>13. QED
    BY <1>1, <1>2, <1>8, <1>9, <1>11, <1>12, StreamChanges

-----------------------------------------------------------------------------
(* The page. *)

Apart(all) ==
  /\ all \in Seq(Stream) /\ Len(all) = Len(servers)
  /\ \A i \in 1..Len(servers) : ~WholeFrame(all[i].buffer) /\ RunOk(FALSE, all[i], servers[i])

(* abort() leaves no run that the page still reads. *)
LEMMA AbortSetsApart ==
  ASSUME StreamInv
  PROVE  Apart(Abort(current, streams))
  <1> DEFINE gone == [reader |-> "aborted", buffer |-> <<>>, link |-> "broken", wire |-> <<>>]
             all  == Abort(current, streams)
  <1>1. streams \in Seq(Stream) /\ Len(streams) = Len(servers) /\ DOMAIN streams = 1..Len(servers)
        /\ DOMAIN servers = 1..Len(servers)
    BY DEF StreamInv, StreamTypeOK
  <1>2. \A i \in 1..Len(servers) : ~WholeFrame(streams[i].buffer) /\ RunOk(i = current, streams[i], servers[i])
    BY <1>1, StreamFacts
  <1>3. gone \in Stream /\ gone.reader = "aborted" /\ gone.link = "broken" /\ gone.buffer = <<>>
    <2>1. <<>> \in Seq(Piece)
      OBVIOUS
    <2>2. QED
      BY <2>1 DEF Stream
  <1>4. ~WholeFrame(<<>>)
    <2>1. Len(<<>>) = 0
      OBVIOUS
    <2>2. QED
      BY <2>1 DEF WholeFrame
  <1>5. all = IF current \in DOMAIN streams /\ streams[current].reader # "over"
              THEN [streams EXCEPT ![current] = gone] ELSE streams
    BY DEF Abort
  <1> HIDE DEF gone, all
  <1>6. CASE current \in DOMAIN streams /\ streams[current].reader # "over"
    <2>1. all = [streams EXCEPT ![current] = gone] /\ current \in 1..Len(streams)
      BY <1>1, <1>5, <1>6
    <2>2. /\ all \in Seq(Stream) /\ Len(all) = Len(streams)
          /\ \A i \in 1..Len(streams) : all[i] = IF i = current THEN gone ELSE streams[i]
      BY <1>1, <1>3, <2>1, ExceptSeq
    <2>3. ASSUME NEW i \in 1..Len(servers)
          PROVE  ~WholeFrame(all[i].buffer) /\ RunOk(FALSE, all[i], servers[i])
      <3>1. CASE i = current
        <4>1. all[i] = gone
          BY <1>1, <2>2, <3>1
        <4>2. RunOk(FALSE, gone, servers[i])
          BY <1>3 DEF RunOk
        <4>3. ~WholeFrame(gone.buffer)
          BY <1>3, <1>4
        <4>4. QED
          BY <4>1, <4>2, <4>3
      <3>2. CASE i # current
        <4>1. all[i] = streams[i]
          BY <1>1, <2>2, <3>2
        <4>2. ~WholeFrame(streams[i].buffer) /\ RunOk(i = current, streams[i], servers[i])
          BY <1>2
        <4>3. (i = current) = FALSE
          BY <3>2
        <4>4. RunOk(FALSE, streams[i], servers[i])
          BY <4>2, <4>3 DEF RunOk
        <4>5. QED
          BY <4>1, <4>2, <4>4
      <3>3. QED
        BY <3>1, <3>2
    <2>4. QED
      BY <1>1, <2>2, <2>3 DEF Apart, all
  <1>7. CASE ~(current \in DOMAIN streams /\ streams[current].reader # "over")
    <2>1. all = streams
      BY <1>5, <1>7
    <2>2. ASSUME NEW i \in 1..Len(servers)
          PROVE  RunOk(FALSE, streams[i], servers[i])
      <3>1. RunOk(i = current, streams[i], servers[i])
        BY <1>2
      <3>2. i = current => streams[i].reader = "over"
        BY <1>1, <1>7
      <3>3. QED
        BY <3>1, <3>2 DEF RunOk
    <2>3. QED
      BY <1>1, <1>2, <2>1, <2>2 DEF Apart, all
  <1>8. QED
    BY <1>6, <1>7

(* Leaving the page aborts its stream, if it is not over. *)
LEMMA LeaveKeeps ==
  ASSUME StreamInv, Leave
  PROVE  StreamInv'
  <1> DEFINE all == Abort(current, streams)
  <1>1. Apart(all)
    BY AbortSetsApart
  <1>2. /\ page' = FALSE /\ screen' = Blank("idle") /\ current' = 0 /\ streams' = all
        /\ UNCHANGED <<servers, faults>>
    BY DEF Leave
  <1> HIDE DEF all
  <1>3. /\ streams' \in Seq(Stream) /\ servers' \in Seq(Server) /\ Len(streams') = Len(servers')
        /\ Len(servers') \in Nat /\ Len(servers') <= MaxRuns /\ faults' \in 0..MaxFaults
        /\ DOMAIN streams' = 1..Len(servers')
    BY <1>1, <1>2 DEF StreamInv, StreamTypeOK, Apart
  <1>4. \A i \in DOMAIN streams' : ~WholeFrame(streams'[i].buffer) /\ RunOk(FALSE, streams'[i], servers'[i])
    BY <1>1, <1>2, <1>3 DEF Apart
  <1>5. StreamTypeOK'
    <2>1. screen' \in Screen
      BY <1>2, BlankType
    <2>2. screen' \in [agents : [Agent -> {"pending", "running", "done", "skipped", "failed"}],
                       status : {"idle", "streaming", "done", "error"}, result : Result \cup {None}]
      BY <2>1 DEF Screen
    <2>3. page' \in BOOLEAN
      BY <1>2
    <2>4. current' \in 0..Len(servers')
      BY <1>2, <1>3
    <2>5. QED
      BY <1>3, <1>4, <2>2, <2>3, <2>4 DEF StreamTypeOK, WholeFrame
  <1>6. RunsOk'
    <2>1. SUFFICES ASSUME NEW i \in DOMAIN streams'
                   PROVE  RunOk(i = current', streams'[i], servers'[i])
      BY DEF RunsOk, RunOk
    <2>2. i # current'
      BY <1>2, <1>3
    <2>3. QED
      BY <1>4, <2>2 DEF RunOk
  <1>7. ScreenOk'
    BY <1>2 DEF ScreenOk
  <1>8. QED
    BY <1>5, <1>6, <1>7 DEF StreamInv

(* A run that has yielded nothing has a screen of five pending agents. *)
LEMMA NewRun ==
  /\ NewStream \in Stream /\ NewServer \in Server /\ ~WholeFrame(NewStream.buffer)
  /\ RunOk(TRUE, NewStream, NewServer) /\ CurrentOk(Blank("streaming"), NewStream, NewServer)
  <1>1. <<>> \in Seq(Piece) /\ <<>> \in Seq(Event) /\ Len(<<>>) = 0
    OBVIOUS
  <1>2. NewStream \in Stream /\ NewServer \in Server
    BY <1>1 DEF NewStream, NewServer, Stream, Server
  <1>3. /\ NewStream.reader = "fetching" /\ NewStream.link = "open" /\ NewStream.buffer = <<>> /\ NewStream.wire = <<>>
        /\ NewServer.log = <<>>
    BY DEF NewStream, NewServer
  <1>4. ~WholeFrame(NewStream.buffer)
    BY <1>1, <1>3 DEF WholeFrame
  <1>5. RunOk(TRUE, NewStream, NewServer)
    BY <1>3 DEF RunOk
  <1> DEFINE log == <<>>
  <1>6. log \in Seq(Event) /\ Len(log) = 0
    BY <1>1
  <1>7. Blank("streaming") = ScreenOf(log)
    <2>1. PICK f : Trace(f, log, Blank("streaming")) /\ FoldLeft(Shown, Blank("streaming"), log) = f[Len(log)]
      BY <1>6, FoldTrace
    <2>2. QED
      BY <1>6, <2>1 DEF Trace, ScreenOf
  <1>8. SubSeq(log, 1, 0) = log
    <2>1. SubSeq(log, 1, 0) = <<>>
      BY <1>6, SubSeqEmpty
    <2>2. QED
      BY <2>1
  <1>9. Between(log, 0, 0)
    BY <1>6 DEF Between, Phase
  <1>10. Run(<<>>, log, 0, 0, 0, 0)
    BY <1>6, <1>9, RunEmpty
  <1>11. NewStream.buffer = Part(0, log[1])
    BY <1>3, Parts
  <1> HIDE DEF log
  <1>12. Waiting(NewStream, log, 0, 0)
    <2>1. NewStream.buffer = Part(0, log[0 + 1])
      BY <1>11
    <2>2. QED
      BY <1>3, <1>6, <1>10, <2>1 DEF Waiting
  <1>13. Delivered(Blank("streaming"), NewStream, log)
    <2>1. Blank("streaming") = ScreenOf(SubSeq(log, 1, 0))
      BY <1>7, <1>8
    <2>2. QED
      BY <1>9, <1>12, <2>1 DEF Delivered
  <1>14. CurrentOk(Blank("streaming"), NewStream, NewServer)
    BY <1>3, <1>13 DEF CurrentOk, log
  <1>15. QED
    BY <1>2, <1>4, <1>5, <1>14

(* Starting another run aborts the stream of the last, if it is not over. *)
LEMMA StartKeeps ==
  ASSUME StreamInv, Start
  PROVE  StreamInv'
  <1> DEFINE all == Abort(current, streams)
             l   == Len(servers)
  <1>1. Apart(all)
    BY AbortSetsApart
  <1>2. /\ screen' = Blank("streaming") /\ current' = Len(servers') /\ l < MaxRuns
        /\ streams' = Append(all, NewStream) /\ servers' = Append(servers, NewServer)
        /\ UNCHANGED <<page, faults>>
    BY DEF Start
  <1> HIDE DEF all
  <1>3. /\ all \in Seq(Stream) /\ Len(all) = l /\ servers \in Seq(Server) /\ l \in Nat
        /\ page \in BOOLEAN /\ faults \in 0..MaxFaults
    BY <1>1 DEF StreamInv, StreamTypeOK, Apart
  <1>4. NewStream \in Stream /\ NewServer \in Server
    BY NewRun
  <1>5. /\ streams' \in Seq(Stream) /\ Len(streams') = l + 1 /\ streams'[l + 1] = NewStream
        /\ \A i \in 1..l : streams'[i] = all[i]
    BY <1>2, <1>3, <1>4, AppendProperties
  <1>6. /\ servers' \in Seq(Server) /\ Len(servers') = l + 1 /\ servers'[l + 1] = NewServer
        /\ \A i \in 1..l : servers'[i] = servers[i]
    BY <1>2, <1>3, <1>4, AppendProperties
  <1>7. DOMAIN streams' = 1..(l + 1) /\ current' = l + 1
    BY <1>2, <1>5, <1>6
  <1>8. l + 1 <= MaxRuns
    BY <1>2, <1>3, StreamBoundAssumption
  <1>9. \A i \in 1..l : ~WholeFrame(all[i].buffer) /\ RunOk(FALSE, all[i], servers[i])
    BY <1>1 DEF Apart
  <1> HIDE DEF l
  <1>10. ASSUME NEW i \in 1..(l + 1)
         PROVE  ~WholeFrame(streams'[i].buffer) /\ RunOk(i = current', streams'[i], servers'[i])
    <2>1. CASE i = l + 1
      <3>1. streams'[i] = NewStream /\ servers'[i] = NewServer
        BY <1>5, <1>6, <2>1
      <3>2. (i = current') = TRUE
        BY <1>7, <2>1
      <3>3. ~WholeFrame(NewStream.buffer) /\ RunOk(TRUE, NewStream, NewServer)
        BY NewRun
      <3>4. RunOk(i = current', NewStream, NewServer)
        BY <3>2, <3>3 DEF RunOk
      <3>5. QED
        BY <3>1, <3>3, <3>4
    <2>2. CASE i \in 1..l
      <3>1. streams'[i] = all[i] /\ servers'[i] = servers[i]
        BY <1>5, <1>6, <2>2
      <3>2. i # current'
        BY <1>3, <1>7, <2>2
      <3>3. ~WholeFrame(all[i].buffer) /\ RunOk(FALSE, all[i], servers[i])
        BY <1>9, <2>2
      <3>4. RunOk(i = current', all[i], servers[i])
        BY <3>2, <3>3 DEF RunOk
      <3>5. QED
        BY <3>1, <3>3, <3>4
    <2>3. QED
      BY <1>3, <2>1, <2>2
  <1>11. StreamTypeOK'
    <2>1. screen' \in Screen
      BY <1>2, BlankType
    <2>2. screen' \in [agents : [Agent -> {"pending", "running", "done", "skipped", "failed"}],
                       status : {"idle", "streaming", "done", "error"}, result : Result \cup {None}]
      BY <2>1 DEF Screen
    <2>3. page' \in BOOLEAN /\ faults' \in 0..MaxFaults /\ current' \in 0..Len(servers')
          /\ Len(servers') <= MaxRuns /\ Len(streams') = Len(servers')
      BY <1>2, <1>3, <1>5, <1>6, <1>7, <1>8
    <2>4. \A i \in DOMAIN streams' : ~WholeFrame(streams'[i].buffer)
      BY <1>7, <1>10
    <2>5. QED
      BY <1>5, <1>6, <2>2, <2>3, <2>4 DEF StreamTypeOK, WholeFrame
  <1>12. RunsOk'
    <2>1. SUFFICES ASSUME NEW i \in DOMAIN streams'
                   PROVE  RunOk(i = current', streams'[i], servers'[i])
      BY DEF RunsOk, RunOk
    <2>2. QED
      BY <1>7, <1>10
  <1>13. ScreenOk'
    <2>1. CurrentOk(screen', streams'[current'], servers'[current'])
      BY <1>2, <1>5, <1>6, <1>7, NewRun
    <2>2. QED
      BY <2>1 DEF ScreenOk
  <1>14. QED
    BY <1>11, <1>12, <1>13 DEF StreamInv

-----------------------------------------------------------------------------
(* The invariant holds of a page that has just been opened... *)
LEMMA StreamInvInit == StreamInit => StreamInv
  <1> SUFFICES ASSUME StreamInit PROVE StreamInv
    OBVIOUS
  <1>1. /\ page = TRUE /\ screen = Blank("idle") /\ current = 0
        /\ streams = <<>> /\ servers = <<>> /\ faults = 0
    BY DEF StreamInit
  <1>2. <<>> \in Seq(Stream) /\ <<>> \in Seq(Server) /\ Len(<<>>) = 0 /\ DOMAIN <<>> = {}
    OBVIOUS
  <1>3. screen \in Screen
    BY <1>1, BlankType
  <1>4. StreamTypeOK
    BY <1>1, <1>2, <1>3, StreamBoundAssumption DEF StreamTypeOK, Screen
  <1>5. RunsOk /\ ScreenOk
    BY <1>1, <1>2 DEF RunsOk, ScreenOk
  <1>6. QED
    BY <1>4, <1>5 DEF StreamInv

(* ... and every step keeps it... *)
LEMMA StreamInvSteps == StreamInv /\ [StreamNext]_streamVars => StreamInv'
  <1> SUFFICES ASSUME StreamInv, [StreamNext]_streamVars PROVE StreamInv'
    OBVIOUS
  <1>1. CASE Leave
    BY <1>1, LeaveKeeps
  <1>2. CASE Start
    BY <1>2, StartKeeps
  <1>3. ASSUME NEW r \in DOMAIN servers, Browser(r)
        PROVE  StreamInv'
    <2>1. CASE Reads(r)
      <3>1. PICK k \in 1..MaxChunk : k <= Len(streams[r].wire) /\ Read(r, k)
        BY <2>1 DEF Reads
      <3>2. Len(streams[r].wire) \in Nat
        BY StreamFacts
      <3>3. k \in 1..Len(streams[r].wire)
        BY <3>1, <3>2
      <3>4. QED
        BY <3>1, <3>3, ReadKeeps
    <2>2. QED
      BY <1>3, <2>1, FetchedKeeps, ReadEndKeeps, ConnectionFailsKeeps DEF Browser
  <1>4. ASSUME NEW r \in DOMAIN servers, Arrive(r) \/ Handle(r)
        PROVE  StreamInv'
    BY <1>4, ArriveKeeps, YieldKeeps, EndKeeps DEF Handle
  <1>5. ASSUME NEW r \in DOMAIN servers, Environment(r)
        PROVE  StreamInv'
    BY <1>5, ThrowKeeps, KeepAliveKeeps, BreakKeeps, CutKeeps DEF Environment
  <1>6. CASE UNCHANGED streamVars
    <2>1. /\ page' = page /\ screen' = screen /\ current' = current
          /\ streams' = streams /\ servers' = servers /\ faults' = faults
      BY <1>6 DEF streamVars
    <2>2. StreamTypeOK'
      BY <2>1 DEF StreamInv, StreamTypeOK, WholeFrame
    <2>3. RunsOk'
      BY <2>1 DEF StreamInv, RunsOk, RunOk
    <2>4. ScreenOk'
      BY <2>1 DEF StreamInv, ScreenOk
    <2>5. QED
      BY <2>2, <2>3, <2>4 DEF StreamInv
  <1>7. QED
    BY <1>1, <1>2, <1>3, <1>4, <1>5, <1>6 DEF StreamNext, User

(* ... so it always holds. *)
LEMMA StreamAlways == StreamSpec => []StreamInv
  BY StreamInvInit, StreamInvSteps, PTL DEF StreamSpec

(* The state is well-typed, and the parser never holds a whole frame: push *)
(* (lib/sse.ts) gives out every frame that its chunks complete.            *)
THEOREM StreamTypeCorrect == StreamSpec => []StreamTypeOK
  <1>1. StreamInv => StreamTypeOK
    BY DEF StreamInv
  <1>2. QED
    BY <1>1, StreamAlways, PTL

(* The invariant says which events those are. *)
LEMMA InvShowsPrefix == StreamInv => ScreenIsPrefix
  <1> SUFFICES ASSUME StreamInv, current # 0 PROVE ScreenIsPrefix
    BY DEF ScreenIsPrefix
  <1> DEFINE log == servers[current].log
  <1>1. current \in DOMAIN servers
    BY DEF StreamInv, StreamTypeOK
  <1>2. /\ streams[current].reader \in {"fetching", "reading", "over", "aborted"}
        /\ RunOk(current = current, streams[current], servers[current])
        /\ CurrentOk(screen, streams[current], servers[current])
        /\ log \in Seq(Event)
    BY <1>1, StreamFacts
  <1>3. CASE streams[current].reader = "over"
    <2>1. Shows(screen, streams[current], log)
      BY <1>2, <1>3 DEF CurrentOk
    <2>2. QED
      BY <1>3, <2>1 DEF Shows, ScreenIsPrefix
  <1>4. CASE streams[current].reader \in {"fetching", "reading"}
    <2>1. Delivered(screen, streams[current], log)
      BY <1>2, <1>4 DEF CurrentOk
    <2>2. PICK n : n \in 0..Len(log) /\ screen = ScreenOf(SubSeq(log, 1, n))
      BY <2>1 DEF Delivered, Between
    <2>3. QED
      BY <1>4, <2>2 DEF ScreenIsPrefix
  <1>5. QED
    BY <1>2, <1>3, <1>4 DEF RunOk

(* However the response is cut into chunks, the screen of useAgentStream is*)
(* what the first events of the current run amount to, none lost, repeated *)
(* or of another run, and all of them when it was read to its end.         *)
THEOREM ScreenFollowsTheLog == StreamSpec => []ScreenIsPrefix
  BY InvShowsPrefix, StreamAlways, PTL

-----------------------------------------------------------------------------
(***************************************************************************)
(* Chunks.  What the parser makes of any pieces, those of a response that  *)
(* was never written by this server included.                              *)
(***************************************************************************)

(* A parser between two pieces. *)
Parsers == [rest : Seq(Piece), events : Seq(Event)]
Held(s) == s \in Parsers /\ ~WholeFrame(s.rest)

(* What a raw frame amounts to are events. *)
LEMMA ParsedType ==
  ASSUME NEW raw \in Seq(Piece)
  PROVE  Parsed(raw) \in Seq(Event)
  <1> DEFINE data == {i \in DOMAIN raw : raw[i][1] = "data"}
  <1>1. CASE ~ \E i, j \in data : i # j
    BY <1>1 DEF Parsed
  <1>2. CASE \E i, j \in data : i # j
    <2>1. Parsed(raw) = <<raw[Min(data)][2]>>
      BY <1>2 DEF Parsed
    <2>2. data \in SUBSET Nat /\ data # {} /\ \A i \in data : raw[i] \in Piece /\ raw[i][1] = "data"
      BY <1>2
    <2> HIDE DEF data
    <2>3. \E x \in data : \A y \in data : x <= y
      BY <2>2, SmallestExists
    <2>4. Min(data) \in data
      BY <2>3 DEF Min
    <2>5. raw[Min(data)][2] \in Event
      <3>1. raw[Min(data)] \in Piece /\ raw[Min(data)][1] = "data"
        BY <2>2, <2>4
      <3>2. ASSUME NEW p \in Piece, p[1] = "data" PROVE p[2] \in Event
        <4>1. p # <<"newline">> /\ p # <<"comment">>
          BY <3>2
        <4>2. PICK e \in Event, half \in 1..2 : p = <<"data", e, half>>
          BY <4>1 DEF Piece
        <4>3. QED
          BY <4>2
      <3>3. QED
        BY <3>1, <3>2
    <2>6. QED
      BY <2>1, <2>5
  <1>3. QED
    BY <1>1, <1>2

(* What a piece does to the parser. *)
LEMMA TakeCases ==
  ASSUME NEW s, NEW p
  PROVE  /\ p = Newline /\ s.rest # <<>> /\ Last(s.rest) = Newline
              => Take(s, p) = [rest |-> <<>>, events |-> s.events \o Parsed(Front(s.rest))]
         /\ s \in Parsers /\ ~(p = Newline /\ s.rest # <<>> /\ Last(s.rest) = Newline)
              => Take(s, p) = [rest |-> Append(s.rest, p), events |-> s.events]
  BY DEF Take, Parsers

(* The parser never holds a whole frame. *)
LEMMA TakeHolds ==
  ASSUME NEW s, Held(s), NEW p \in Piece
  PROVE  Held(Take(s, p))
  <1>0. s \in Parsers /\ s.rest \in Seq(Piece) /\ s.events \in Seq(Event) /\ Len(s.rest) \in Nat
    BY DEF Held, Parsers
  <1>1. CASE p = Newline /\ s.rest # <<>> /\ Last(s.rest) = Newline
    <2>1. Front(s.rest) \in Seq(Piece)
      BY <1>0, <1>1 DEF Front
    <2>2. s.events \o Parsed(Front(s.rest)) \in Seq(Event)
      BY <1>0, <2>1, ParsedType, ConcatProperties
    <2>3. ~WholeFrame(<<>>)
      BY DEF WholeFrame
    <2>4. Take(s, p) = [rest |-> <<>>, events |-> s.events \o Parsed(Front(s.rest))]
      BY <1>1, TakeCases
    <2>5. <<>> \in Seq(Piece)
      OBVIOUS
    <2> DEFINE out == s.events \o Parsed(Front(s.rest))
    <2> HIDE DEF out
    <2>6. Take(s, p) = [rest |-> <<>>, events |-> out] /\ out \in Seq(Event)
      BY <2>2, <2>4 DEF out
    <2>7. QED
      BY <2>3, <2>5, <2>6 DEF Held, Parsers
  <1>2. CASE ~(p = Newline /\ s.rest # <<>> /\ Last(s.rest) = Newline)
    <2> DEFINE rest == s.rest
               more == Append(rest, p)
    <2>1. /\ more \in Seq(Piece) /\ Len(more) = Len(rest) + 1
          /\ \A i \in 1..Len(rest) : more[i] = rest[i]
          /\ more[Len(rest) + 1] = p
      BY <1>0, AppendProperties
    <2>2. rest # <<>> => Last(rest) = rest[Len(rest)] /\ Len(rest) >= 1
      BY <1>0 DEF Last
    <2>3. rest = <<>> => Len(rest) = 0
      OBVIOUS
    <2>4. Take(s, p) = [rest |-> more, events |-> s.events]
      BY <1>0, <1>2, TakeCases
    <2>5. ~WholeFrame(rest) /\ Len(rest) \in Nat
      BY <1>0 DEF Held
    <2>6. p = Newline /\ rest # <<>> => Last(rest) # Newline
      BY <1>2
    <2> HIDE DEF rest, more
    <2>7. ASSUME NEW i \in 2..Len(more), more[i - 1] = Newline, more[i] = Newline
          PROVE  FALSE
      <3>1. CASE i = Len(rest) + 1
        <4>1. p = Newline /\ rest # <<>> /\ i - 1 = Len(rest) /\ Len(rest) \in 1..Len(rest)
          BY <3>1, <2>1, <2>3, <2>5, <2>7
        <4>2. rest[Len(rest)] = Newline
          BY <4>1, <2>1, <2>7
        <4>3. QED
          BY <4>1, <4>2, <2>2, <2>6
      <3>2. CASE i # Len(rest) + 1
        <4>1. i \in 2..Len(rest) /\ i - 1 \in 1..Len(rest) /\ i \in 1..Len(rest)
          BY <3>2, <2>1, <2>5
        <4>2. rest[i - 1] = Newline /\ rest[i] = Newline
          BY <4>1, <2>1, <2>7
        <4>3. QED
          BY <4>1, <4>2, <2>5 DEF WholeFrame
      <3>3. QED
        BY <3>1, <3>2
    <2>8. ~WholeFrame(more)
      BY <2>7 DEF WholeFrame
    <2>9. QED
      BY <1>0, <2>1, <2>4, <2>8 DEF Held, Parsers
  <1>3. QED
    BY <1>1, <1>2

(* The parser after the first n pieces. *)
Empty == [rest |-> <<>>, events |-> <<>>]
Steps(g, bytes, n) == /\ g[0] = Empty
                      /\ \A i \in 1..n : g[i] = Take(g[i - 1], bytes[i])

LEMMA SplitsExist ==
  ASSUME NEW bytes, NEW n \in Nat
  PROVE  \E g : Steps(g, bytes, n)
  <1> DEFINE Bad == {k \in Nat : ~ \E g : Steps(g, bytes, k)}
  <1>1. SUFFICES ASSUME Bad # {} PROVE FALSE
    OBVIOUS
  <1>2. PICK x \in Bad : \A y \in Bad : x <= y
    <2>1. Bad \in SUBSET Nat
      OBVIOUS
    <2>2. QED
      BY <1>1, <2>1, SmallestExists
  <1>3. x # 0
    <2>1. Steps([i \in {0} |-> Empty], bytes, 0)
      BY DEF Steps
    <2>2. QED
      BY <2>1
  <1>4. x - 1 \in Nat /\ x - 1 \notin Bad /\ x \in Nat
    BY <1>2, <1>3
  <1>5. PICK g : Steps(g, bytes, x - 1)
    BY <1>4
  <1> DEFINE h == [i \in 0..x |-> IF i = x THEN Take(g[x - 1], bytes[x]) ELSE g[i]]
  <1>6. h[0] = Empty
    BY <1>3, <1>4, <1>5 DEF Steps
  <1>7. ASSUME NEW i \in 1..x PROVE h[i] = Take(h[i - 1], bytes[i])
    <2>1. i - 1 \in 0..x /\ i - 1 # x /\ i \in 0..x
      BY <1>4
    <2>2. h[i - 1] = g[i - 1]
      BY <2>1
    <2>3. CASE i = x
      BY <2>1, <2>2, <2>3
    <2>4. CASE i # x
      <3>1. i \in 1..(x - 1)
        BY <1>4, <2>4
      <3>2. g[i] = Take(g[i - 1], bytes[i])
        BY <1>5, <3>1 DEF Steps
      <3>3. QED
        BY <2>1, <2>2, <2>4, <3>2
    <2>5. QED
      BY <2>3, <2>4
  <1> HIDE DEF h
  <1>8. Steps(h, bytes, x)
    BY <1>6, <1>7 DEF Steps
  <1>9. QED
    BY <1>2, <1>8

(* There is one such sequence of parsers. *)
LEMMA StepsUnique ==
  ASSUME NEW bytes, NEW n \in Nat, NEW f, NEW g, Steps(f, bytes, n), Steps(g, bytes, n)
  PROVE  \A i \in 0..n : f[i] = g[i]
  <1> DEFINE Bad == {i \in 0..n : f[i] # g[i]}
  <1>1. SUFFICES ASSUME Bad # {} PROVE FALSE
    OBVIOUS
  <1>2. Bad \in SUBSET Nat
    OBVIOUS
  <1>3. PICK x \in Bad : \A y \in Bad : x <= y
    BY <1>1, <1>2, SmallestExists
  <1>4. x # 0
    BY <1>3 DEF Steps
  <1>5. x \in 1..n /\ x - 1 \in 0..n /\ x - 1 \notin Bad
    BY <1>2, <1>3, <1>4
  <1>6. f[x - 1] = g[x - 1]
    BY <1>5
  <1>7. f[x] = Take(f[x - 1], bytes[x]) /\ g[x] = Take(g[x - 1], bytes[x])
    BY <1>5 DEF Steps
  <1>8. QED
    BY <1>3, <1>6, <1>7

(* Split is the end of it. *)
LEMMA SplitSteps ==
  ASSUME NEW bytes, NEW f, Len(bytes) \in Nat, Steps(f, bytes, Len(bytes))
  PROVE  Split(bytes) = f[Len(bytes)]
  <1> DEFINE F == [i \in 0..Len(bytes) |-> f[i]]
  <1>1. Splits(F, bytes)
    <2>1. F = [i \in 0..Len(bytes) |-> F[i]]
      OBVIOUS
    <2>2. ASSUME NEW i \in 0..Len(bytes)
          PROVE  F[i] = IF i = 0 THEN [rest |-> <<>>, events |-> <<>>] ELSE Take(F[i - 1], bytes[i])
      <3>1. CASE i = 0
        BY <3>1 DEF Steps, Empty
      <3>2. CASE i # 0
        <4>1. i \in 1..Len(bytes) /\ i - 1 \in 0..Len(bytes)
          BY <3>2
        <4>2. QED
          BY <3>2, <4>1 DEF Steps
      <3>3. QED
        BY <3>1, <3>2
    <2> HIDE DEF F
    <2>3. QED
      BY <2>1, <2>2 DEF Splits
  <1>2. Split(bytes) = (CHOOSE g : Splits(g, bytes))[Len(bytes)]
    BY DEF Split, Splits
  <1>3. PICK g : Splits(g, bytes) /\ Split(bytes) = g[Len(bytes)]
    BY <1>1, <1>2
  <1>4. Steps(g, bytes, Len(bytes))
    <2>1. \A i \in 0..Len(bytes) : g[i] = IF i = 0 THEN [rest |-> <<>>, events |-> <<>>]
                                                   ELSE Take(g[i - 1], bytes[i])
      BY <1>3 DEF Splits
    <2>2. QED
      BY <2>1 DEF Steps, Empty
  <1>5. QED
    BY <1>3, <1>4, StepsUnique

(* All of them hold pieces and events, and no whole frame. *)
LEMMA StepsHold ==
  ASSUME NEW bytes \in Seq(Piece), NEW f, Steps(f, bytes, Len(bytes))
  PROVE  \A i \in 0..Len(bytes) : Held(f[i])
  <1> DEFINE Bad == {i \in 0..Len(bytes) : ~Held(f[i])}
  <1>1. SUFFICES ASSUME Bad # {} PROVE FALSE
    OBVIOUS
  <1>2. Bad \in SUBSET Nat /\ Len(bytes) \in Nat
    OBVIOUS
  <1>3. PICK x \in Bad : \A y \in Bad : x <= y
    BY <1>1, <1>2, SmallestExists
  <1>4. Held(Empty)
    BY DEF Held, Empty, Parsers, WholeFrame
  <1>5. x # 0
    BY <1>3, <1>4 DEF Steps
  <1>6. x \in 1..Len(bytes) /\ x - 1 \in 0..Len(bytes) /\ x - 1 \notin Bad
    BY <1>2, <1>3, <1>5
  <1>7. Held(f[x - 1]) /\ bytes[x] \in Piece /\ f[x] = Take(f[x - 1], bytes[x])
    BY <1>6 DEF Steps
  <1>8. QED
    BY <1>3, <1>7, TakeHolds

(* The events given out before do not matter to a piece. *)
Ahead(given, s) == [rest |-> s.rest, events |-> given \o s.events]

LEMMA TakeAhead ==
  ASSUME NEW s \in Parsers, NEW given \in Seq(Event), NEW p \in Piece
  PROVE  Take(Ahead(given, s), p) = Ahead(given, Take(s, p))
  <1>1. /\ s.rest \in Seq(Piece) /\ s.events \in Seq(Event)
        /\ Ahead(given, s).rest = s.rest /\ Ahead(given, s).events = given \o s.events
        /\ given \o s.events \in Seq(Event)
    BY DEF Parsers, Ahead
  <1>2. Ahead(given, s) \in Parsers
    BY <1>1 DEF Parsers, Ahead
  <1>3. CASE p = Newline /\ s.rest # <<>> /\ Last(s.rest) = Newline
    <2> DEFINE new == Parsed(Front(s.rest))
    <2>1. new \in Seq(Event)
      <3>1. Front(s.rest) \in Seq(Piece)
        BY <1>1, <1>3 DEF Front
      <3>2. QED
        BY <3>1, ParsedType
    <2>2. Take(s, p) = [rest |-> <<>>, events |-> s.events \o new]
      BY <1>3, TakeCases
    <2>3. Take(Ahead(given, s), p) = [rest |-> <<>>, events |-> (given \o s.events) \o new]
      BY <1>1, <1>3, TakeCases
    <2> DEFINE old == s.events
    <2>a. given \in Seq(Event) /\ old \in Seq(Event) /\ new \in Seq(Event)
      BY <1>1, <2>1
    <2> HIDE DEF new, old
    <2>b. (given \o old) \o new = given \o (old \o new)
      BY <2>a, ConcatAssociative
    <2>4. (given \o s.events) \o new = given \o (s.events \o new)
      BY <2>b DEF old
    <2>5. QED
      BY <2>2, <2>3, <2>4 DEF Ahead
  <1>4. CASE ~(p = Newline /\ s.rest # <<>> /\ Last(s.rest) = Newline)
    <2>1. Take(s, p) = [rest |-> Append(s.rest, p), events |-> s.events]
      BY <1>4, TakeCases
    <2>2. Take(Ahead(given, s), p) = [rest |-> Append(s.rest, p), events |-> given \o s.events]
      BY <1>1, <1>2, <1>4, TakeCases
    <2>3. QED
      BY <2>1, <2>2 DEF Ahead
  <1>5. QED
    BY <1>3, <1>4

(* A buffer read again gives no event and comes back as it was: it holds   *)
(* no whole frame.                                                         *)
LEMMA BufferReadAgain ==
  ASSUME NEW rest \in Seq(Piece), ~WholeFrame(rest), NEW bytes, NEW n \in Nat, NEW h,
         Steps(h, bytes, n), Len(rest) <= n, \A i \in 1..Len(rest) : bytes[i] = rest[i]
  PROVE  h[Len(rest)] = [rest |-> rest, events |-> <<>>]
  <1> DEFINE Left(i) == [rest |-> SubSeq(rest, 1, i), events |-> <<>>]
             Bad == {i \in 0..Len(rest) : h[i] # Left(i)}
  <1>1. Len(rest) \in Nat /\ Bad \in SUBSET Nat
    OBVIOUS
  <1>2. SubSeq(rest, 1, Len(rest)) = rest
    BY SubSeqFull
  <1>3. SUFFICES ASSUME Bad # {} PROVE FALSE
    <2>1. Len(rest) \in 0..Len(rest)
      BY <1>1
    <2>2. h[Len(rest)] = Left(Len(rest))
      BY <2>1, <1>3
    <2>3. QED
      BY <1>2, <2>2
  <1>4. PICK x \in Bad : \A y \in Bad : x <= y
    BY <1>1, <1>3, SmallestExists
  <1>5. x # 0
    <2>1. SubSeq(rest, 1, 0) = <<>>
      BY SubSeqEmpty
    <2>2. h[0] = Left(0)
      BY <2>1 DEF Steps, Empty
    <2>3. QED
      BY <1>4, <2>2
  <1>6. /\ x \in 1..Len(rest) /\ x - 1 \in 0..Len(rest) /\ x - 1 \notin Bad /\ x \in 1..n
        /\ x \in Nat /\ x - 1 \in Nat
    BY <1>1, <1>4, <1>5
  <1> DEFINE before == SubSeq(rest, 1, x - 1)
  <1>7. h[x - 1] = [rest |-> before, events |-> <<>>]
    BY <1>6
  <1>8. h[x] = Take(h[x - 1], rest[x]) /\ rest[x] \in Piece
    BY <1>6 DEF Steps
  <1>9. /\ before \in Seq(Piece) /\ Len(before) = x - 1
        /\ \A i \in 1..(x - 1) : before[i] = rest[i]
    <2>1. \A i \in 1..(x - 1) : rest[i] \in Piece
      BY <1>1, <1>6
    <2>2. QED
      BY <1>6, <2>1, SubSeqProperties
  <1>10. Append(before, rest[x]) = SubSeq(rest, 1, x)
    <2>1. SubSeq(rest, 1, x) = SubSeq(rest, 1, x - 1) \o <<rest[x]>>
      BY <1>1, <1>6, SubSeqRecursiveSecond
    <2> HIDE DEF before
    <2>2. Append(before, rest[x]) = before \o <<rest[x]>>
      BY <1>8, <1>9, AppendIsConcat
    <2>3. QED
      BY <2>1, <2>2 DEF before
  <1> HIDE DEF before
  <1>11. ~(rest[x] = Newline /\ before # <<>> /\ Last(before) = Newline)
    <2>1. SUFFICES ASSUME rest[x] = Newline, before # <<>>, Last(before) = Newline PROVE FALSE
      OBVIOUS
    <2>2. Last(before) = before[Len(before)] /\ Len(before) # 0
      BY <1>9, <2>1 DEF Last
    <2>3. x \in 2..Len(rest) /\ x - 1 \in 1..(x - 1) /\ before[x - 1] = Newline
      BY <1>1, <1>6, <1>9, <2>1, <2>2
    <2>4. rest[x - 1] = Newline
      BY <1>9, <2>3
    <2>5. QED
      BY <2>1, <2>3, <2>4 DEF WholeFrame
  <1>12. [rest |-> before, events |-> <<>>] \in Parsers
    BY <1>9 DEF Parsers
  <1>13. Take([rest |-> before, events |-> <<>>], rest[x])
           = [rest |-> Append(before, rest[x]), events |-> <<>>]
    <2> DEFINE s == [rest |-> before, events |-> <<>>]
    <2>1. s.rest = before /\ s.events = <<>> /\ s \in Parsers
      BY <1>12
    <2> HIDE DEF s
    <2>2. Take(s, rest[x]) = [rest |-> Append(before, rest[x]), events |-> <<>>]
      BY <1>11, <2>1, TakeCases
    <2>3. QED
      BY <2>2 DEF s
  <1>14. h[x] = Left(x)
    BY <1>7, <1>8, <1>10, <1>13
  <1>15. QED
    BY <1>4, <1>14

(* Two chunks, one after the other through the parser, give out the events *)
(* that they would give as one, and leave the same in the buffer: a chunk  *)
(* boundary can land anywhere (lib/sse.ts).                                *)
THEOREM ChunksDoNotMatter ==
  ASSUME NEW bytes \in Seq(Piece), NEW k \in 0..Len(bytes)
  PROVE  LET one == Split(SubSeq(bytes, 1, k))
             two == Split(one.rest \o SubSeq(bytes, k + 1, Len(bytes)))
         IN Split(bytes) = [rest |-> two.rest, events |-> one.events \o two.events]
  <1> DEFINE n    == Len(bytes)
             head == SubSeq(bytes, 1, k)
             tail == SubSeq(bytes, k + 1, n)
             one  == Split(head)
             rest == one.rest
             over == rest \o tail
             two  == Split(over)
  <1>1. n \in Nat /\ k \in Nat /\ k <= n /\ \A i \in 1..n : bytes[i] \in Piece
    OBVIOUS
  <1>2. /\ head \in Seq(Piece) /\ Len(head) = k
        /\ \A i \in 1..k : head[i] = bytes[i]
    <2>1. \A i \in 1..k : bytes[i] \in Piece
      BY <1>1
    <2>2. QED
      BY <1>1, <2>1, SubSeqProperties
  <1>3. /\ tail \in Seq(Piece) /\ Len(tail) = n - k
        /\ \A j \in 1..(n - k) : tail[j] = bytes[k + j]
    <2>1. \A i \in (k + 1)..n : bytes[i] \in Piece
      BY <1>1
    <2>2. /\ tail \in Seq(Piece)
          /\ Len(tail) = IF k + 1 <= n THEN n - (k + 1) + 1 ELSE 0
          /\ \A i \in 1..(n - (k + 1) + 1) : tail[i] = bytes[(k + 1) + i - 1]
      BY <1>1, <2>1, SubSeqProperties
    <2> HIDE DEF tail, n
    <2>3. Len(tail) = n - k /\ n - (k + 1) + 1 = n - k
      BY <1>1, <2>2
    <2>4. \A j \in 1..(n - k) : (k + 1) + j - 1 = k + j
      BY <1>1
    <2>5. QED
      BY <2>2, <2>3, <2>4
  <1>4. PICK f : Steps(f, bytes, n)
    BY <1>1, SplitsExist
  <1>5. Split(bytes) = f[n] /\ \A i \in 0..n : Held(f[i])
    BY <1>1, <1>4, SplitSteps, StepsHold
  <1>6. one = f[k]
    <2> HIDE DEF head, n
    <2>1. Steps(f, head, k)
      <3>1. \A i \in 1..k : i \in 1..n /\ head[i] = bytes[i]
        BY <1>1, <1>2
      <3>2. QED
        BY <1>4, <3>1 DEF Steps
    <2>2. QED
      BY <1>1, <1>2, <2>1, SplitSteps
  <1>7. Held(one)
    BY <1>1, <1>5, <1>6
  <1>8. rest \in Seq(Piece) /\ Len(rest) \in Nat /\ ~WholeFrame(rest) /\ one.events \in Seq(Event)
    <2> HIDE DEF one
    <2>1. QED
      BY <1>7 DEF Held, Parsers
  <1> DEFINE m == Len(rest)
  <1> HIDE DEF head, tail, one, rest, n
  <1>9. /\ over \in Seq(Piece) /\ Len(over) = m + (n - k) /\ m \in Nat
        /\ \A i \in 1..m : over[i] = rest[i]
        /\ \A j \in 1..(n - k) : over[m + j] = tail[j]
    <2>1. /\ over \in Seq(Piece) /\ Len(over) = Len(rest) + Len(tail)
          /\ \A i \in 1..(Len(rest) + Len(tail)) :
               over[i] = IF i <= Len(rest) THEN rest[i] ELSE tail[i - Len(rest)]
      BY <1>3, <1>8, ConcatProperties
    <2> HIDE DEF over
    <2>2. \A j \in 1..(n - k) : m + j \in 1..(m + (n - k)) /\ ~(m + j <= m) /\ (m + j) - m = j
      BY <1>1, <1>8
    <2>3. \A i \in 1..m : i \in 1..(Len(rest) + Len(tail)) /\ i <= Len(rest)
      BY <1>1, <1>3, <1>8
    <2>4. Len(rest) + Len(tail) = m + (n - k) /\ m \in Nat /\ m = Len(rest)
      BY <1>3, <1>8
    <2> HIDE DEF m
    <2>5. \A i \in 1..m : over[i] = rest[i]
      BY <2>1, <2>3
    <2>6. \A j \in 1..(n - k) : over[m + j] = tail[j]
      BY <2>1, <2>2, <2>4
    <2>7. QED
      BY <2>1, <2>4, <2>5, <2>6
  <1> HIDE DEF over, m
  <1>10. Len(over) \in Nat /\ n - k \in Nat
    BY <1>1, <1>9
  <1>11. PICK h : Steps(h, over, Len(over))
    BY <1>10, SplitsExist
  <1>12. two = h[m + (n - k)] /\ \A i \in 0..(m + (n - k)) : Held(h[i])
    <2>1. two = h[Len(over)] /\ \A i \in 0..Len(over) : Held(h[i])
      BY <1>9, <1>10, <1>11, SplitSteps, StepsHold
    <2> HIDE DEF two
    <2>2. QED
      BY <1>9, <2>1
  <1> HIDE DEF two
  <1>13. h[m] = [rest |-> rest, events |-> <<>>]
    <2>1. Len(rest) <= Len(over) /\ \A i \in 1..Len(rest) : over[i] = rest[i]
      BY <1>1, <1>9 DEF m
    <2>2. QED
      BY <1>8, <1>10, <1>11, <2>1, BufferReadAgain DEF m
  <1>14. \A j \in 0..(n - k) : f[k + j] = Ahead(one.events, h[m + j])
    <2> DEFINE Bad == {j \in 0..(n - k) : f[k + j] # Ahead(one.events, h[m + j])}
    <2>1. SUFFICES ASSUME Bad # {} PROVE FALSE
      OBVIOUS
    <2>2. Bad \in SUBSET Nat
      OBVIOUS
    <2>3. PICK x \in Bad : \A y \in Bad : x <= y
      BY <2>1, <2>2, SmallestExists
    <2>4. x # 0
      <3>1. one.events \o <<>> = one.events
        BY <1>8, ConcatEmptySeq
      <3>2. one = [rest |-> rest, events |-> one.events]
        <4>1. one \in Parsers
          BY <1>7 DEF Held
        <4>2. QED
          BY <4>1 DEF rest, Parsers
      <3>3. Ahead(one.events, h[m]) = one
        BY <1>13, <3>1, <3>2 DEF Ahead
      <3>4. k + 0 = k /\ m + 0 = m
        BY <1>1, <1>9
      <3>5. QED
        BY <1>6, <2>3, <3>3, <3>4
    <2>5. /\ x \in 1..(n - k) /\ x - 1 \in 0..(n - k) /\ x - 1 \notin Bad
          /\ k + x \in 1..n /\ m + x \in 1..Len(over) /\ m + (x - 1) \in 0..(m + (n - k))
          /\ (k + x) - 1 = k + (x - 1) /\ (m + x) - 1 = m + (x - 1)
      <3>1. x \in 1..(n - k) /\ x \in Nat
        BY <2>2, <2>3, <2>4
      <3>2. x - 1 \in 0..(n - k) /\ ~(x <= x - 1)
        BY <1>10, <3>1
      <3>3. x - 1 \notin Bad
        BY <2>3, <3>2
      <3> HIDE DEF Bad
      <3>4. QED
        BY <1>1, <1>9, <1>10, <3>1, <3>2, <3>3
    <2>6. f[k + (x - 1)] = Ahead(one.events, h[m + (x - 1)])
      BY <2>5
    <2>7. f[k + x] = Take(f[k + (x - 1)], bytes[k + x])
      BY <1>4, <2>5 DEF Steps
    <2>8. h[m + x] = Take(h[m + (x - 1)], over[m + x])
      BY <1>11, <2>5 DEF Steps
    <2>9. over[m + x] = bytes[k + x] /\ bytes[k + x] \in Piece
      BY <1>1, <1>3, <1>9, <2>5
    <2>10. h[m + (x - 1)] \in Parsers
      BY <1>12, <2>5 DEF Held
    <2>11. f[k + x] = Ahead(one.events, h[m + x])
      BY <1>8, <2>6, <2>7, <2>8, <2>9, <2>10, TakeAhead
    <2>12. QED
      BY <2>3, <2>11
  <1>15. f[n] = Ahead(one.events, two)
    <2>1. k + (n - k) = n /\ n - k \in 0..(n - k)
      BY <1>1
    <2>2. QED
      BY <1>12, <1>14, <2>1
  <1>16. Split(bytes) = [rest |-> two.rest, events |-> one.events \o two.events]
    BY <1>5, <1>15 DEF Ahead
  <1>17. QED
    BY <1>16 DEF two, over, rest, one, tail, head, n

=============================================================================
