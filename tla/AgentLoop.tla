------------------------------- MODULE AgentLoop -------------------------------
(***************************************************************************)
(* agents/groqClient.ts: one agent's conversation with the model, with the *)
(* tool rounds of runAgent, the retries of withTimeoutAndRetry and the one *)
(* repair of runAgentWithRepair, and the tools of agents/tools.            *)
(*                                                                         *)
(* The model is external: it answers with a list of tool calls or with     *)
(* content, fails, or says nothing until the timer fires.  An answer that  *)
(* comes after its timer is settled by the race and dropped.               *)
(***************************************************************************)
EXTENDS Integers, FiniteSets, Sequences

CONSTANTS
  MaxRounds,   \* maxToolRounds
  MaxRetries,  \* AGENT_MAX_RETRIES
  MaxCalls     \* bound: tool calls the model asks for in one message

ASSUME BoundAssumption ==
  /\ MaxRounds \in Nat \ {0} /\ MaxRetries \in Nat /\ MaxCalls \in Nat \ {0}

VARIABLES
  at,        \* where the agent is
  loop,      \* 1, and 2 in the repair
  round,     \* rounds
  attempt,   \* failed attempts of this round's request
  chat,      \* messages, after the two prompts
  running,   \* this round's tool calls: each still runs, or how it ended
  evidence,  \* toolCalls, in the order they ended
  sent       \* history: requests made of the model

vars == <<at, loop, round, attempt, chat, running, evidence, sent>>

(* How a call of a tool can end: its data or a reason it has none, an      *)
(* exception from its arguments or its query, or no such tool.             *)
Ending  == {"data", "thrown", "unknown"}
Content == {"valid", "invalid", "unusable"}
Ended   == {"output", "failed"}

CallId(r, k) == <<r, k>>

TypeOK ==
  /\ at \in {"asking", "backoff", "tools"} \cup Ended
  /\ loop \in 1..2 /\ round \in 1..MaxRounds /\ attempt \in 0..MaxRetries
  /\ running \in UNION {[1..n -> Ending \cup {"running"}] : n \in 0..MaxCalls}
  /\ sent \in 1..(2 * MaxRounds * (MaxRetries + 1))
  /\ Len(evidence) <= MaxRounds * MaxCalls

Init ==
  /\ at = "asking"
  /\ loop = 1 /\ round = 1 /\ attempt = 0
  /\ chat = <<>> /\ running = <<>> /\ evidence = <<>>
  /\ sent = 1

-----------------------------------------------------------------------------
(* withTimeoutAndRetry around one request. *)

(* A plausible bug: <= for < where the attempts are counted.               *)
RequestFailsOffByOne(retryable) ==
  /\ at = "asking"
  /\ at' = IF retryable /\ attempt <= MaxRetries THEN "backoff" ELSE "failed"
  /\ UNCHANGED <<loop, round, attempt, chat, running, evidence, sent>>

(* A timeout, a 429 and a 5xx are retried; any other error is not.         *)
RequestFails(retryable) ==
  /\ at = "asking"
  /\ at' = IF retryable /\ attempt < MaxRetries THEN "backoff" ELSE "failed"
  /\ UNCHANGED <<loop, round, attempt, chat, running, evidence, sent>>

Retry ==
  /\ at = "backoff"
  /\ at' = "asking" /\ attempt' = attempt + 1 /\ sent' = sent + 1
  /\ UNCHANGED <<loop, round, chat, running, evidence>>

-----------------------------------------------------------------------------
(* The model answers. *)

(* Content that does not satisfy its schema starts the repair, a new loop  *)
(* with empty records; unusable content (none, or no JSON) does not.       *)
Answers(content) ==
  /\ at = "asking"
  /\ \/ /\ content = "valid"
        /\ at' = "output"
        /\ UNCHANGED <<loop, round, attempt, chat, evidence, sent>>
     \/ /\ content = "invalid" /\ loop = 1
        /\ loop' = 2 /\ round' = 1 /\ attempt' = 0
        /\ chat' = <<>> /\ evidence' = <<>>
        /\ sent' = sent + 1
        /\ UNCHANGED at
     \/ /\ content \in IF loop = 2 THEN {"unusable", "invalid"} ELSE {"unusable"}
        /\ at' = "failed"
        /\ UNCHANGED <<loop, round, attempt, chat, evidence, sent>>
  /\ UNCHANGED running

(* Even in the last round the model may ask for tools.                     *)
AsksForTools(n) ==
  /\ at = "asking"
  /\ at' = "tools"
  /\ chat' = Append(chat, [role |-> "assistant", calls |-> [k \in 1..n |-> CallId(round, k)]])
  /\ running' = [k \in 1..n |-> "running"]
  /\ UNCHANGED <<loop, round, attempt, evidence, sent>>

-----------------------------------------------------------------------------
(* The tools of a round run together. *)

(* A plausible bug: an exception is handed to the model and not recorded.  *)
ToolEndsUnrecorded(k, ending) ==
  /\ at = "tools" /\ running[k] = "running"
  /\ running' = [running EXCEPT ![k] = ending]
  /\ evidence' = IF ending # "data" THEN evidence
                 ELSE Append(evidence, [id |-> CallId(round, k), failed |-> FALSE])
  /\ UNCHANGED <<at, loop, round, attempt, chat, sent>>

ToolEnds(k, ending) ==
  /\ at = "tools" /\ running[k] = "running"
  /\ running' = [running EXCEPT ![k] = ending]
  /\ evidence' = IF ending = "unknown" THEN evidence
                 ELSE Append(evidence, [id |-> CallId(round, k), failed |-> ending = "thrown"])
  /\ UNCHANGED <<at, loop, round, attempt, chat, sent>>

Results == [k \in DOMAIN running |-> [role |-> "tool", id |-> CallId(round, k), ending |-> running[k]]]

(* A plausible bug: Promise.all over tools that throw.                     *)
ToolsJoinOnSuccess ==
  /\ at = "tools" /\ \A k \in DOMAIN running : running[k] \in {"data", "unknown"}
  /\ chat' = chat \o Results
  /\ running' = <<>>
  /\ IF round < MaxRounds
     THEN /\ at' = "asking" /\ round' = round + 1 /\ attempt' = 0 /\ sent' = sent + 1
     ELSE /\ at' = "failed" /\ UNCHANGED <<round, attempt, sent>>
  /\ UNCHANGED <<loop, evidence>>

(* The results follow the request in its order, whatever order they came;  *)
(* then the next round, or the cap.                                        *)
ToolsJoin ==
  /\ at = "tools" /\ \A k \in DOMAIN running : running[k] # "running"
  /\ chat' = chat \o Results
  /\ running' = <<>>
  /\ IF round < MaxRounds
     THEN /\ at' = "asking" /\ round' = round + 1 /\ attempt' = 0 /\ sent' = sent + 1
     ELSE /\ at' = "failed" /\ UNCHANGED <<round, attempt, sent>>
  /\ UNCHANGED <<loop, evidence>>

-----------------------------------------------------------------------------
ModelStep ==
  \/ \E retryable \in BOOLEAN : RequestFails(retryable)
  \/ \E content \in Content : Answers(content)
  \/ \E n \in 1..MaxCalls : AsksForTools(n)

ToolStep == \E k \in DOMAIN running, ending \in Ending : ToolEnds(k, ending)

Next == ModelStep \/ Retry \/ ToolStep \/ ToolsJoin

(* The timer answers a request that the model does not; a query ends or    *)
(* fails.                                                                  *)
Fairness == WF_vars(ModelStep) /\ WF_vars(Retry) /\ WF_vars(ToolStep) /\ WF_vars(ToolsJoin)

Spec == Init /\ [][Next]_vars /\ Fairness

-----------------------------------------------------------------------------
(* Properties. *)

Told == {p \in DOMAIN chat : chat[p].role = "tool" /\ chat[p].ending # "unknown"}

(* The evidence an output is kept with is what the model was told: each    *)
(* tool's data or failure once, the failures marked, and nothing of the    *)
(* loop a repair has replaced.                                             *)
EvidenceIsWhatTheModelSaw ==
  at = "output" =>
    /\ Len(evidence) = Cardinality(Told)
    /\ \A p \in Told : \E q \in DOMAIN evidence :
         evidence[q] = [id |-> chat[p].id, failed |-> chat[p].ending = "thrown"]

(* Whatever the model and the tools do, the agent ends.                    *)
AgentEnds == <>(at \in Ended)
=============================================================================
