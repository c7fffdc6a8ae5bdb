-------------------------------- MODULE LLMProxy --------------------------------
(***************************************************************************)
(* POST /generate of the LLM proxy: the handler (llm-proxy/internal/api),  *)
(* the router that bounds a request with one deadline and retries a        *)
(* transient failure once (internal/router), and provider.Do, which tells  *)
(* the kinds of failure apart (internal/provider).  Requests are served by *)
(* independent goroutines; the provider is external.                       *)
(***************************************************************************)
EXTENDS Naturals, Sequences, SequencesExt

CONSTANT Reqs   \* the HTTP requests

VARIABLES
    pc,        \* where the goroutine of each request stands
    attempt,   \* attempts made or under way
    errs,      \* the errors of the attempts that failed, in order
    cut,       \* the attempts, by number, that the deadline ended
    deadline,  \* the router's timeout for the request is over
    gone,      \* the caller has closed its request
    status     \* the HTTP status that was written, 0 before

vars == <<pc, attempt, errs, cut, deadline, gone, status>>

maxAttempts == 2

\* What provider.Do and the adapters return: a TimeoutError, a StatusError with
\* 429 or 5xx, a StatusError with another status, a request that failed, a body
\* that cannot be read to its end or decoded, or that holds no text.
Errors == {"timeout", "transientStatus", "permanentStatus", "connection", "unreadable"}

TypeOK ==
    /\ pc \in [Reqs -> {"new", "try", "wait", "answered"}]
    /\ attempt \in [Reqs -> 0 .. maxAttempts]
    /\ errs \in [Reqs -> Seq(Errors)] /\ \A r \in Reqs : Len(errs[r]) <= attempt[r]
    /\ cut \in [Reqs -> SUBSET (1 .. maxAttempts)]
    /\ deadline \in [Reqs -> BOOLEAN] /\ gone \in [Reqs -> BOOLEAN]
    /\ status \in [Reqs -> {0, 200, 400, 405, 502, 504}]

Init ==
    /\ pc = [r \in Reqs |-> "new"]
    /\ attempt = [r \in Reqs |-> 0]
    /\ errs = [r \in Reqs |-> <<>>]
    /\ cut = [r \in Reqs |-> {}]
    /\ deadline = [r \in Reqs |-> FALSE] /\ gone = [r \in Reqs |-> FALSE]
    /\ status = [r \in Reqs |-> 0]

-----------------------------------------------------------------------------
ContextDone(r) == deadline[r] \/ gone[r]

retryable(e) == e \notin {"timeout", "permanentStatus"}

\* The switch of GenerateHandler on the error.
StatusOf(e) == IF e = "timeout" THEN 504 ELSE 502

Answer(r, code) ==
    /\ pc' = [pc EXCEPT ![r] = "answered"]
    /\ status' = [status EXCEPT ![r] = code]

\* Another method, a body that is not JSON or too large, or no prompt.
Reject(r) ==
    /\ pc[r] = "new"
    /\ \E code \in {400, 405} : Answer(r, code)
    /\ UNCHANGED <<attempt, errs, cut, deadline, gone>>

Begin(r) ==
    /\ pc[r] = "new"
    /\ pc' = [pc EXCEPT ![r] = "try"]
    /\ attempt' = [attempt EXCEPT ![r] = 1]
    /\ UNCHANGED <<errs, cut, deadline, gone, status>>

Succeed(r) ==
    /\ pc[r] = "try"
    /\ Answer(r, 200)
    /\ UNCHANGED <<attempt, errs, cut, deadline, gone>>

\* Mutant: the wait before the retry is a sleep that ignores the context.
FailedAndSleep(r, e) ==
    /\ errs' = [errs EXCEPT ![r] = Append(@, e)]
    /\ IF attempt[r] = maxAttempts \/ ~retryable(e)
       THEN Answer(r, StatusOf(e))
       ELSE /\ pc' = [pc EXCEPT ![r] = "wait"]
            /\ UNCHANGED status

\* Mutant: the loop runs once more than maxAttempts allows.
FailedOnceMore(r, e) ==
    /\ errs' = [errs EXCEPT ![r] = Append(@, e)]
    /\ IF attempt[r] > maxAttempts \/ ~retryable(e) \/ ContextDone(r)
       THEN Answer(r, StatusOf(e))
       ELSE /\ pc' = [pc EXCEPT ![r] = "wait"]
            /\ UNCHANGED status

\* The attempt has failed with e: give up, or wait for the backoff.  A context
\* that is done already ends the wait before it begins.
Failed(r, e) ==
    /\ errs' = [errs EXCEPT ![r] = Append(@, e)]
    /\ IF attempt[r] = maxAttempts \/ ~retryable(e) \/ ContextDone(r)
       THEN Answer(r, StatusOf(e))
       ELSE /\ pc' = [pc EXCEPT ![r] = "wait"]
            /\ UNCHANGED status

\* The provider cannot be reached, or answers with an error status; a dial that
\* gives up at a limit of its own is a DeadlineExceeded for Do as well.
RequestFails(r) ==
    /\ pc[r] = "try"
    /\ \E e \in {"timeout", "connection", "transientStatus", "permanentStatus"} : Failed(r, e)
    /\ UNCHANGED <<attempt, cut, deadline, gone>>

\* The adapter makes nothing of the body of a 200.
AnswerUnreadable(r) ==
    /\ pc[r] = "try"
    /\ Failed(r, "unreadable")
    /\ UNCHANGED <<attempt, cut, deadline, gone>>

\* The request's deadline ends client.Do, and Do makes a TimeoutError of it.
DeadlineInDo(r) ==
    /\ pc[r] = "try" /\ deadline[r]
    /\ cut' = [cut EXCEPT ![r] = @ \cup {attempt[r]}]
    /\ Failed(r, "timeout")
    /\ UNCHANGED <<attempt, deadline, gone>>

\* The deadline falls while the body is read: Do wraps that as a plain error.
DeadlineInBody(r) ==
    /\ pc[r] = "try" /\ deadline[r]
    /\ cut' = [cut EXCEPT ![r] = @ \cup {attempt[r]}]
    /\ Failed(r, "unreadable")
    /\ UNCHANGED <<attempt, deadline, gone>>

\* The caller's cancellation is a plain error too.
CallerGone(r) ==
    /\ pc[r] = "try" /\ gone[r]
    /\ Failed(r, "connection")
    /\ UNCHANGED <<attempt, cut, deadline, gone>>

\* time.After(retryBackoff) in the select, which may win against a context that
\* became done during the wait.
Backoff(r) ==
    /\ pc[r] = "wait"
    /\ pc' = [pc EXCEPT ![r] = "try"]
    /\ attempt' = [attempt EXCEPT ![r] = @ + 1]
    /\ UNCHANGED <<errs, cut, deadline, gone, status>>

\* Mutant: a done context leaves the select without an answer.
GiveUpSilently(r) ==
    /\ pc[r] = "wait" /\ ContextDone(r)
    /\ UNCHANGED vars

GiveUp(r) ==
    /\ pc[r] = "wait" /\ ContextDone(r)
    /\ Answer(r, StatusOf(Last(errs[r])))
    /\ UNCHANGED <<attempt, errs, cut, deadline, gone>>

-----------------------------------------------------------------------------
Expire(r) ==
    /\ pc[r] \in {"try", "wait"} /\ ~deadline[r]
    /\ deadline' = [deadline EXCEPT ![r] = TRUE]
    /\ UNCHANGED <<pc, attempt, errs, cut, gone, status>>

CallerLeaves(r) ==
    /\ pc[r] \in {"try", "wait"} /\ ~gone[r]
    /\ gone' = [gone EXCEPT ![r] = TRUE]
    /\ UNCHANGED <<pc, attempt, errs, cut, deadline, status>>

Idle == (\A r \in Reqs : pc[r] = "answered") /\ UNCHANGED vars

\* What becomes of an attempt whose context is done, whatever the provider does.
Interrupted(r) == DeadlineInDo(r) \/ DeadlineInBody(r) \/ CallerGone(r)

Serve(r) ==
    \/ Reject(r) \/ Begin(r) \/ Succeed(r) \/ RequestFails(r) \/ AnswerUnreadable(r)
    \/ Interrupted(r) \/ Backoff(r) \/ GiveUp(r)

Next == Idle \/ \E r \in Reqs : Serve(r) \/ Expire(r) \/ CallerLeaves(r)

Spec == Init /\ [][Next]_vars

\* The deadline comes (timeout_seconds is configured, 30 by default) and a done
\* context interrupts an attempt; the provider need not answer at all, and the
\* backoff timer is not needed either.
Fairness ==
    \A r \in Reqs : /\ WF_vars(Expire(r))
                    /\ WF_vars(Interrupted(r))
                    /\ WF_vars(GiveUp(r))

FairSpec == Spec /\ Fairness

-----------------------------------------------------------------------------
\* No second attempt after the deadline ended the first, even where the
\* failure was not classified as a timeout (router.go:88-93, provider.go:112).
NoRetryAfterDeadline ==
    \A r \in Reqs : attempt[r] = 2 => 1 \notin cut[r]

\* Each request that reaches the provider is answered, even if the provider
\* never says anything.
EveryRequestAnswered ==
    \A r \in Reqs : (pc[r] \in {"try", "wait"}) ~> (pc[r] = "answered")
=============================================================================
