----------------------------- MODULE LlmAdapter -----------------------------
(***************************************************************************)
(* One LLM adapter, used by several worker threads at once: complete() and *)
(* its loop, which sends the conversation, retries transient errors with   *)
(* backoff, runs the tools the model asks for and goes on until the model  *)
(* answers without asking; and the _last_* counters the executor reads     *)
(* once it has returned.  The three vendors' adapters are one loop with    *)
(* the differences of the records below.                                   *)
(***************************************************************************)
EXTENDS Integers, Sequences, SequencesExt, FiniteSets

CONSTANTS
    Threads,      \* the workers that share the adapter
    Vendors,      \* among "anthropic", "openai", "gemini"
    Tools,        \* the names of the tools complete() is given
    Requests,     \* what a response may ask for: sequences of tool names
    MaxRetries,   \* _MAX_RETRIES
    MaxTurns,     \* responses of one call that ask for tools: the loop has no bound
    MaxCalls      \* calls per thread

ASSUME AdapterAssumption ==
    /\ Vendors \subseteq {"anthropic", "openai", "gemini"}
    /\ <<>> \in Requests /\ \A asks \in Requests : asks \in Seq(ToSet(asks))
    /\ {MaxRetries, MaxTurns, MaxCalls} \subseteq Nat

VARIABLES
    vendor,   \* whose adapter it is
    call,     \* thread -> the locals of its complete(): phase, talk (the
              \* conversation after the given messages), attempt, asks (of the
              \* last response), at (how many of them are dealt with), results
    slots,    \* slot of the thread-local store -> the _last_* counters
    heard,    \* thread -> responses of this call that reported their usage
    left      \* thread -> calls it may still make

callVars == <<vendor, call, slots, heard, left>>

-----------------------------------------------------------------------------
(* The vendors: what their retry loops take for transient, and how a       *)
(* response and the results of its tools are added to the conversation.    *)

RequestErrors == {"connect", "reset", "timeout", "rate_limit", "unavailable", "internal", "refused"}

Anthropic == [transient |-> {"connect", "reset", "timeout", "rate_limit", "unavailable"},
              asking |-> "assistant", answering |-> "user", together |-> TRUE]

OpenAI == [transient |-> {"connect", "reset", "timeout", "rate_limit", "unavailable"},
           asking |-> "assistant", answering |-> "tool", together |-> FALSE]

Gemini == [transient |-> {"connect", "timeout", "unavailable", "internal"},
           asking |-> "model", answering |-> "user", together |-> TRUE]

Adapter == CASE vendor = "anthropic" -> Anthropic
             [] vendor = "openai"    -> OpenAI
             [] vendor = "gemini"    -> Gemini

Message(role, calls, answers) == [role |-> role, calls |-> calls, answers |-> answers]

Extended(talk, asks, results) ==
    LET answers == IF Adapter.together THEN <<results>> ELSE [i \in DOMAIN results |-> <<results[i]>>]
    IN  talk \o <<Message(Adapter.asking, asks, <<>>)>>
             \o [i \in DOMAIN answers |-> Message(Adapter.answering, <<>>, answers[i])]

\* What the model is told of a call: the tool's result, or that there is none.
MutAnswered(results, i, name) ==
    IF name \in Tools THEN Append(results, [to |-> i, name |-> name, content |-> "result"])
    ELSE results

Answered(results, i, name) ==
    Append(results, [to |-> i, name |-> name,
                     content |-> IF name \in Tools THEN "result" ELSE "error"])

-----------------------------------------------------------------------------
(* BaseAdapter's store of counters: threading.local                        *)

MutSlot(t) == CHOOSE u \in Threads : TRUE

Slot(t) == t

Zero == [tokens |-> 0, count |-> 0, sequence |-> <<>>]

Counted(t, new) == slots' = [slots EXCEPT ![Slot(t)] = new]

Counters(t) == slots[Slot(t)]

-----------------------------------------------------------------------------

Idle == [phase |-> "idle", talk |-> <<>>, attempt |-> 0, asks |-> <<>>, at |-> 0,
         results |-> <<>>]

Go(t, phase) == call' = [call EXCEPT ![t].phase = phase]

CallsInit ==
    /\ vendor \in Vendors
    /\ call = [t \in Threads |-> Idle]
    /\ slots = [t \in Threads |-> Zero]
    /\ heard = [t \in Threads |-> 0]
    /\ left = [t \in Threads |-> MaxCalls]

\* complete() begins: it resets the counters of this thread.
Start(t) ==
    /\ call[t].phase = "idle" /\ left[t] > 0
    /\ left' = [left EXCEPT ![t] = @ - 1]
    /\ call' = [call EXCEPT ![t] = [Idle EXCEPT !.phase = "request"]]
    /\ Counted(t, Zero)
    /\ UNCHANGED <<vendor, heard>>

\* The request fails: an error that is not transient, and the last transient
\* one, leave complete(); any other is waited out.
MutNextAttempt(t) == call[t].attempt

NextAttempt(t) == call[t].attempt + 1

Fail(t, error) ==
    /\ call[t].phase = "request"
    /\ Go(t, IF error \in Adapter.transient /\ call[t].attempt < MaxRetries
             THEN "backoff" ELSE "raised")
    /\ UNCHANGED <<vendor, slots, heard, left>>

Retry(t) ==
    /\ call[t].phase = "backoff"
    /\ call' = [call EXCEPT ![t].phase = "request", ![t].attempt = NextAttempt(t)]
    /\ UNCHANGED <<vendor, slots, heard, left>>

\* A response comes, with its usage or without: complete() returns its text,
\* or has tools to run.
Turns(t) == Len(SelectSeq(call[t].talk, LAMBDA msg : msg.calls # <<>>))

Reply(t, asks, usage) ==
    /\ call[t].phase = "request"
    /\ asks # <<>> => Turns(t) < MaxTurns
    /\ Counted(t, [Counters(t) EXCEPT !.tokens = @ + usage])
    /\ heard' = [heard EXCEPT ![t] = @ + usage]
    /\ call' = [call EXCEPT ![t] =
                   IF asks = <<>> THEN [@ EXCEPT !.phase = "returned"]
                   ELSE [@ EXCEPT !.phase = "tools", !.asks = asks, !.at = 0, !.results = <<>>]]
    /\ UNCHANGED <<vendor, left>>

\* The next tool the response asks for: nothing of what its callable (or the
\* parsing of its arguments) raises is caught.  After the last one the
\* conversation is extended, and sent again.
Invoke(t) ==
    /\ call[t].phase = "tools"
    /\ LET i       == call[t].at + 1
           name    == call[t].asks[i]
           results == Answered(call[t].results, i, name)
       IN  /\ call' = [call EXCEPT ![t] =
                 IF i < Len(@.asks) THEN [@ EXCEPT !.at = i, !.results = results]
                 ELSE [Idle EXCEPT !.phase = "request",
                                   !.talk = Extended(call[t].talk, call[t].asks, results)]]
           /\ Counted(t, [Counters(t) EXCEPT !.count = @ + 1, !.sequence = Append(@, name)])
    /\ UNCHANGED <<vendor, heard, left>>

InvokeRaises(t) ==
    /\ call[t].phase = "tools" /\ call[t].asks[call[t].at + 1] \in Tools
    /\ Go(t, "raised")
    /\ UNCHANGED <<vendor, slots, heard, left>>

\* The executor has read the counters of the call that returned, or has
\* turned what it raised into a CapsuleExecutionError, and goes on.
Leave(t) ==
    /\ call[t].phase \in {"returned", "raised"}
    /\ call' = [call EXCEPT ![t] = Idle]
    /\ heard' = [heard EXCEPT ![t] = 0]
    /\ UNCHANGED <<vendor, slots, left>>

Step(t) ==
    \/ \E error \in RequestErrors : Fail(t, error)
    \/ Retry(t)
    \/ \E asks \in Requests, usage \in {0, 1} : Reply(t, asks, usage)
    \/ Invoke(t) \/ InvokeRaises(t)

CallsNext == \E t \in Threads : Start(t) \/ Step(t) \/ Leave(t)

\* Every request is answered or fails (the clients have a timeout), sleeps
\* end and tools return.
Fairness == \A t \in Threads : WF_callVars(Step(t))

CallsSpec == CallsInit /\ [][CallsNext]_callVars /\ Fairness

-----------------------------------------------------------------------------

\* The answers that follow message i of a conversation.
AnswersTo(talk, i) ==
    LET later == {j \in (i + 1)..Len(talk) : talk[j].calls # <<>>}
        end   == IF later = {} THEN Len(talk) ELSE Min(later) - 1
    IN  FlattenSeq([k \in 1..(end - i) |-> talk[i + k].answers])

\* Every conversation that is sent answers each call of each earlier response
\* exactly once, in the order of the calls, also calls of tools nobody
\* registered: an API rejects a request with an unanswered tool call, and a
\* misplaced answer is taken for another call's (the loop of complete()).
RequestsAreAnswered ==
    \A t \in Threads : call[t].phase = "request" =>
        \A i \in DOMAIN call[t].talk :
            LET calls   == call[t].talk[i].calls
                answers == AnswersTo(call[t].talk, i)
            IN  calls # <<>> =>
                    /\ Len(answers) = Len(calls)
                    /\ \A k \in DOMAIN calls :
                           /\ answers[k].to = k /\ answers[k].name = calls[k]
                           /\ answers[k].content = "error" <=> calls[k] \notin Tools

\* When a call has returned, the counters its thread reads are those of this
\* call, all its turns and only them, whatever the other threads and earlier
\* calls on the adapter did: what _run_* writes into a TelemetryRecord
\* (BaseAdapter's thread-local store and the resets of complete()).
CountersAreThisCall ==
    \A t \in Threads : call[t].phase = "returned" =>
        LET asked == FlattenSeq([i \in DOMAIN call[t].talk |-> call[t].talk[i].calls])
        IN  Counters(t) = [tokens |-> heard[t], count |-> Len(asked), sequence |-> asked]

\* A call that began returns or raises, though every request may fail: the
\* retries of one turn are bounded.  (That a model stops asking for tools is
\* MaxTurns' doing; the code has no bound.)
CallsEnd ==
    \A t \in Threads : call[t].phase # "idle" ~> call[t].phase \in {"returned", "raised"}

=============================================================================
