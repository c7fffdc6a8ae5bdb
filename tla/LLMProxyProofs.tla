----------------------------- MODULE LLMProxyProofs -----------------------------
(***************************************************************************)
(* Proofs about LLMProxy, for any number of requests: the types, and that  *)
(* an attempt which the deadline ended is never followed by another one,   *)
(* whatever kind of failure it was taken for; what the caller is told; and *)
(* that a request only gets on.                                            *)
(***************************************************************************)
EXTENDS LLMProxy, TLAPS

\* A request waits for its second attempt only, with the deadline not having
\* ended the first; each stage has its number of attempts and of errors.
StageInv ==
    \A r \in Reqs :
        /\ pc[r] = "new" => attempt[r] = 0 /\ errs[r] = <<>> /\ cut[r] = {}
        /\ pc[r] = "try" => attempt[r] \in {1, 2} /\ Len(errs[r]) < attempt[r]
        /\ pc[r] = "try" /\ attempt[r] = 1 => cut[r] = {}
        /\ pc[r] = "wait" => attempt[r] = 1 /\ cut[r] = {}

IInv == TypeOK /\ StageInv /\ NoRetryAfterDeadline

-----------------------------------------------------------------------------
\* A failed attempt is answered or followed by a wait, which begins only before
\* the last attempt and with a context that is not done.
LEMMA FailedStep ==
    ASSUME NEW r \in Reqs, NEW e \in Errors, IInv, pc[r] = "try", Failed(r, e)
    PROVE  /\ errs' \in [Reqs -> Seq(Errors)]
           /\ \A q \in Reqs : Len(errs'[q]) <= attempt[q]
           /\ \/ /\ pc' = [pc EXCEPT ![r] = "answered"]
                 /\ \E code \in {502, 504} : status' = [status EXCEPT ![r] = code]
              \/ /\ pc' = [pc EXCEPT ![r] = "wait"]
                 /\ status' = status
                 /\ attempt[r] = 1 /\ ~deadline[r]
<1>1. errs[r] \in Seq(Errors) /\ attempt[r] \in {1, 2} /\ Len(errs[r]) < attempt[r]
  BY DEF IInv, TypeOK, StageInv
<1>2. errs' = [errs EXCEPT ![r] = Append(errs[r], e)]
  BY DEF Failed
<1>3. Append(errs[r], e) \in Seq(Errors) /\ Len(Append(errs[r], e)) <= attempt[r]
  BY <1>1
<1>4. errs' \in [Reqs -> Seq(Errors)]
  BY <1>2, <1>3 DEF IInv, TypeOK
<1>5. \A q \in Reqs : Len(errs'[q]) <= attempt[q]
  BY <1>2, <1>3 DEF IInv, TypeOK
<1>6. CASE attempt[r] = maxAttempts \/ ~retryable(e) \/ ContextDone(r)
  BY <1>4, <1>5, <1>6 DEF Failed, Answer, StatusOf
<1>7. CASE ~(attempt[r] = maxAttempts \/ ~retryable(e) \/ ContextDone(r))
  BY <1>1, <1>4, <1>5, <1>7 DEF Failed, maxAttempts, ContextDone
<1>8. QED
  BY <1>6, <1>7

\* A failed attempt that the deadline did not end keeps the invariant.
LEMMA PlainFailure ==
    ASSUME NEW r \in Reqs, NEW e \in Errors, IInv, pc[r] = "try", Failed(r, e),
           UNCHANGED <<attempt, cut, deadline, gone>>
    PROVE  IInv'
<1>1. /\ errs' \in [Reqs -> Seq(Errors)]
      /\ \A q \in Reqs : Len(errs'[q]) <= attempt'[q]
      /\ \A q \in Reqs \ {r} : errs'[q] = errs[q]
  <2>1. errs \in [Reqs -> Seq(Errors)] /\ errs' = [errs EXCEPT ![r] = Append(errs[r], e)]
    BY DEF Failed, IInv, TypeOK
  <2>2. attempt' = attempt
    OBVIOUS
  <2>3. errs' \in [Reqs -> Seq(Errors)] /\ \A q \in Reqs : Len(errs'[q]) <= attempt[q]
    BY FailedStep
  <2>4. \A q \in Reqs \ {r} : errs'[q] = errs[q]
    BY <2>1
  <2>5. QED
    BY <2>2, <2>3, <2>4
<1>2. CASE /\ pc' = [pc EXCEPT ![r] = "answered"]
           /\ \E code \in {502, 504} : status' = [status EXCEPT ![r] = code]
  <2>1. TypeOK'
    BY <1>1, <1>2 DEF IInv, TypeOK
  <2>2. StageInv'
    BY <1>1, <1>2 DEF IInv, TypeOK, StageInv
  <2>3. NoRetryAfterDeadline'
    BY DEF IInv, NoRetryAfterDeadline
  <2>4. QED
    BY <2>1, <2>2, <2>3 DEF IInv
<1>3. CASE pc' = [pc EXCEPT ![r] = "wait"] /\ status' = status /\ attempt[r] = 1
  <2>1. TypeOK'
    BY <1>1, <1>3 DEF IInv, TypeOK
  <2>2. StageInv'
    BY <1>1, <1>3 DEF IInv, TypeOK, StageInv, NoRetryAfterDeadline
  <2>3. NoRetryAfterDeadline'
    BY DEF IInv, NoRetryAfterDeadline
  <2>4. QED
    BY <2>1, <2>2, <2>3 DEF IInv
<1>4. QED
  BY <1>2, <1>3, FailedStep

\* An attempt that the deadline ended is the last one, also if its failure is
\* one that would be retried: the wait does not begin with a done context.
LEMMA CutFailure ==
    ASSUME NEW r \in Reqs, NEW e \in Errors, IInv, pc[r] = "try", deadline[r], Failed(r, e),
           cut' = [cut EXCEPT ![r] = @ \cup {attempt[r]}],
           UNCHANGED <<attempt, deadline, gone>>
    PROVE  IInv'
<1>1. pc' = [pc EXCEPT ![r] = "answered"] /\ \E code \in {502, 504} : status' = [status EXCEPT ![r] = code]
  BY FailedStep
<1>2. attempt[r] \in {1, 2}
  BY DEF IInv, StageInv
<1>3. attempt[r] = 2 => 1 \notin cut'[r]
  BY DEF IInv, TypeOK, NoRetryAfterDeadline
<1>4. /\ errs' \in [Reqs -> Seq(Errors)]
      /\ \A q \in Reqs : Len(errs'[q]) <= attempt[q]
  BY FailedStep
<1>5. TypeOK'
  <2>1. cut' \in [Reqs -> SUBSET (1 .. maxAttempts)]
    BY <1>2 DEF IInv, TypeOK, maxAttempts
  <2>2. QED
    BY <1>1, <1>4, <2>1 DEF IInv, TypeOK
<1>6. StageInv'
  <2>1. \A q \in Reqs \ {r} : errs'[q] = errs[q] /\ cut'[q] = cut[q]
    BY DEF IInv, TypeOK, Failed
  <2>2. QED
    BY <1>1, <2>1 DEF IInv, TypeOK, StageInv
<1>7. NoRetryAfterDeadline'
  BY <1>3 DEF IInv, TypeOK, NoRetryAfterDeadline
<1>8. QED
  BY <1>5, <1>6, <1>7 DEF IInv

\* An answer without another attempt keeps the invariant.
LEMMA Answered ==
    ASSUME NEW r \in Reqs, NEW code \in {200, 400, 405, 502, 504}, IInv, Answer(r, code),
           UNCHANGED <<attempt, errs, cut, deadline, gone>>
    PROVE  IInv'
<1>1. pc' = [pc EXCEPT ![r] = "answered"] /\ status' = [status EXCEPT ![r] = code]
  BY DEF Answer
<1>2. TypeOK'
  BY <1>1 DEF IInv, TypeOK
<1>3. StageInv'
  BY <1>1 DEF IInv, TypeOK, StageInv
<1>4. NoRetryAfterDeadline'
  BY DEF IInv, NoRetryAfterDeadline
<1>5. QED
  BY <1>2, <1>3, <1>4 DEF IInv

\* One more attempt, none of the earlier ones ended by the deadline.
LEMMA Attempted ==
    ASSUME NEW r \in Reqs, NEW n \in {1, 2}, IInv, attempt[r] < n, cut[r] = {},
           pc' = [pc EXCEPT ![r] = "try"], attempt' = [attempt EXCEPT ![r] = n],
           UNCHANGED <<errs, cut, deadline, gone, status>>
    PROVE  IInv'
<1>1. \A q \in Reqs : attempt[q] \in 0 .. 2 /\ Len(errs[q]) \in Nat /\ Len(errs[q]) <= attempt[q]
  BY DEF IInv, TypeOK, maxAttempts
<1>2. \A q \in Reqs : attempt'[q] = IF q = r THEN n ELSE attempt[q]
  BY DEF IInv, TypeOK
<1>3. TypeOK'
  <2>1. pc' \in [Reqs -> {"new", "try", "wait", "answered"}] /\ attempt' \in [Reqs -> 0 .. maxAttempts]
    BY DEF IInv, TypeOK, maxAttempts
  <2>2. \A q \in Reqs : Len(errs[q]) <= attempt'[q]
    BY <1>1, <1>2
  <2>3. QED
    BY <2>1, <2>2 DEF IInv, TypeOK
<1>4. StageInv'
  <2>1. \A q \in Reqs : pc'[q] = IF q = r THEN "try" ELSE pc[q]
    BY DEF IInv, TypeOK
  <2>2. Len(errs[r]) < n
    BY <1>1
  <2>3. QED
    BY <1>2, <2>1, <2>2 DEF IInv, StageInv
<1>5. NoRetryAfterDeadline'
  BY <1>2 DEF IInv, NoRetryAfterDeadline
<1>6. QED
  BY <1>3, <1>4, <1>5 DEF IInv

\* Every step keeps the invariant.
LEMMA Step == IInv /\ [Next]_vars => IInv'
<1> SUFFICES ASSUME IInv, [Next]_vars PROVE IInv'
  OBVIOUS
<1>1. ASSUME NEW r \in Reqs, Reject(r) PROVE IInv'
  BY <1>1, Answered DEF Reject
<1>2. ASSUME NEW r \in Reqs, Begin(r) PROVE IInv'
  <2>1. /\ pc' = [pc EXCEPT ![r] = "try"] /\ attempt' = [attempt EXCEPT ![r] = 1]
        /\ UNCHANGED <<errs, cut, deadline, gone, status>>
    BY <1>2 DEF Begin
  <2>2. attempt[r] = 0 /\ cut[r] = {}
    BY <1>2 DEF Begin, IInv, StageInv
  <2>3. attempt[r] < 1 /\ 1 \in {1, 2}
    BY <2>2
  <2>4. QED
    BY <2>1, <2>2, <2>3, Attempted
<1>3. ASSUME NEW r \in Reqs, Succeed(r) PROVE IInv'
  BY <1>3, Answered DEF Succeed
<1>4. ASSUME NEW r \in Reqs, RequestFails(r) PROVE IInv'
  BY <1>4, PlainFailure DEF RequestFails, Errors
<1>5. ASSUME NEW r \in Reqs, AnswerUnreadable(r) PROVE IInv'
  BY <1>5, PlainFailure DEF AnswerUnreadable, Errors
<1>6. ASSUME NEW r \in Reqs, DeadlineInDo(r) PROVE IInv'
  BY <1>6, CutFailure DEF DeadlineInDo, Errors
<1>7. ASSUME NEW r \in Reqs, DeadlineInBody(r) PROVE IInv'
  BY <1>7, CutFailure DEF DeadlineInBody, Errors
<1>8. ASSUME NEW r \in Reqs, CallerGone(r) PROVE IInv'
  BY <1>8, PlainFailure DEF CallerGone, Errors
<1>9. ASSUME NEW r \in Reqs, Backoff(r) PROVE IInv'
  <2>1. /\ pc' = [pc EXCEPT ![r] = "try"] /\ attempt' = [attempt EXCEPT ![r] = attempt[r] + 1]
        /\ UNCHANGED <<errs, cut, deadline, gone, status>>
    BY <1>9 DEF Backoff
  <2>2. attempt[r] = 1 /\ cut[r] = {}
    BY <1>9 DEF Backoff, IInv, StageInv
  <2>3. attempt[r] < 2 /\ 2 \in {1, 2} /\ attempt[r] + 1 = 2
    BY <2>2
  <2>4. QED
    BY <2>1, <2>2, <2>3, Attempted
<1>10. ASSUME NEW r \in Reqs, GiveUp(r) PROVE IInv'
  BY <1>10, Answered DEF GiveUp, StatusOf
<1>11. ASSUME NEW r \in Reqs, Expire(r) PROVE IInv'
  BY <1>11 DEF Expire, IInv, TypeOK, StageInv, NoRetryAfterDeadline, maxAttempts
<1>12. ASSUME NEW r \in Reqs, CallerLeaves(r) PROVE IInv'
  BY <1>12 DEF CallerLeaves, IInv, TypeOK, StageInv, NoRetryAfterDeadline, maxAttempts
<1>13. CASE UNCHANGED vars
  BY <1>13 DEF vars, IInv, TypeOK, StageInv, NoRetryAfterDeadline, maxAttempts
<1>14. QED
  BY <1>1, <1>2, <1>3, <1>4, <1>5, <1>6, <1>7, <1>8, <1>9, <1>10, <1>11, <1>12, <1>13
     DEF Next, Idle, Serve, Interrupted

\* The strengthened invariant of the router, for every set of requests.
THEOREM Inductive == Spec => []IInv
<1>1. Init => IInv
  BY DEF Init, IInv, TypeOK, StageInv, NoRetryAfterDeadline, maxAttempts
<1>2. QED
  BY <1>1, Step, PTL DEF Spec

\* Type correctness of the handler and the router.
THEOREM Typing == Spec => []TypeOK
<1>1. IInv => TypeOK
  BY DEF IInv
<1>2. QED
  BY <1>1, Inductive, PTL

\* No second attempt after the deadline ended the first, even where provider.Do
\* took the deadline for another failure (router.go:88-93, provider.go:112).
THEOREM DeadlineIsFinal == Spec => []NoRetryAfterDeadline
<1>1. IInv => NoRetryAfterDeadline
  BY DEF IInv
<1>2. QED
  BY <1>1, Inductive, PTL

-----------------------------------------------------------------------------
(* What the caller is told.                                                *)

\* Who has failed without an answer has failed in ways that are worth another
\* attempt only; a failure that is answered is the last one.
Retried(r, n) == \A i \in 1 .. n : retryable(errs[r][i])
Told(r) ==
    /\ pc[r] = "answered" <=> status[r] # 0
    /\ pc[r] \in {"try", "wait"} => Retried(r, Len(errs[r]))
    /\ pc[r] = "wait" => errs[r] # <<>>
    /\ Retried(r, Len(errs[r]) - 1)
    /\ status[r] \in {502, 504} => errs[r] # <<>> /\ status[r] = StatusOf(Last(errs[r]))
AnswerIsOfLast == \A r \in Reqs : Told(r)

\* A failed attempt is the last one or a reason to try again.
LEMMA FailureIsTold ==
    ASSUME NEW r \in Reqs, NEW e \in Errors, IInv, AnswerIsOfLast, pc[r] = "try", Failed(r, e)
    PROVE  AnswerIsOfLast'
<1>1. errs[r] \in Seq(Errors) /\ errs' = [errs EXCEPT ![r] = Append(errs[r], e)]
  BY DEF Failed, IInv, TypeOK
<1>2. /\ \A q \in Reqs \ {r} : errs'[q] = errs[q]
      /\ errs'[r] = Append(errs[r], e)
  BY <1>1 DEF IInv, TypeOK
<1>3. /\ Len(errs'[r]) = Len(errs[r]) + 1 /\ Len(errs[r]) \in Nat
      /\ errs'[r] # <<>> /\ Last(errs'[r]) = e /\ errs'[r][Len(errs[r]) + 1] = e
      /\ \A i \in 1 .. Len(errs[r]) : errs'[r][i] = errs[r][i]
  BY <1>1, <1>2 DEF Last
<1>4. \A i \in 1 .. Len(errs[r]) : retryable(errs'[r][i])
  BY <1>3 DEF AnswerIsOfLast, Told, Retried
<1>5. CASE attempt[r] = maxAttempts \/ ~retryable(e) \/ ContextDone(r)
  <2>1. pc' = [pc EXCEPT ![r] = "answered"] /\ status' = [status EXCEPT ![r] = StatusOf(e)]
    BY <1>5 DEF Failed, Answer
  <2>2. /\ \A q \in Reqs \ {r} : pc'[q] = pc[q] /\ status'[q] = status[q]
        /\ pc'[r] = "answered" /\ status'[r] = StatusOf(e) /\ StatusOf(e) # 0
    BY <2>1 DEF IInv, TypeOK, StatusOf
  <2>3. \A i \in 1 .. Len(errs'[r]) - 1 : retryable(errs'[r][i])
    BY <1>3, <1>4
  <2>4. Told(r)'
    BY <1>3, <2>2, <2>3 DEF Told, Retried
  <2>5. \A q \in Reqs \ {r} : Told(q)'
    BY <1>2, <2>2 DEF AnswerIsOfLast, Told, Retried
  <2>6. QED
    BY <2>4, <2>5 DEF AnswerIsOfLast
<1>6. CASE ~(attempt[r] = maxAttempts \/ ~retryable(e) \/ ContextDone(r))
  <2>1. pc' = [pc EXCEPT ![r] = "wait"] /\ status' = status /\ retryable(e)
    BY <1>6 DEF Failed
  <2>2. \A q \in Reqs : pc'[q] = IF q = r THEN "wait" ELSE pc[q]
    BY <2>1 DEF IInv, TypeOK
  <2>3. \A i \in 1 .. Len(errs'[r]) : retryable(errs'[r][i])
    BY <1>3, <1>4, <2>1
  <2>4. \A i \in 1 .. Len(errs'[r]) - 1 : retryable(errs'[r][i])
    BY <1>3, <1>4
  <2>5. status[r] = 0
    BY DEF AnswerIsOfLast, Told
  <2>6. Told(r)'
    BY <1>3, <2>1, <2>2, <2>3, <2>4, <2>5 DEF Told, Retried
  <2>7. \A q \in Reqs \ {r} : Told(q)'
    BY <1>2, <2>1, <2>2 DEF AnswerIsOfLast, Told, Retried
  <2>8. QED
    BY <2>6, <2>7 DEF AnswerIsOfLast
<1>7. QED
  BY <1>5, <1>6

\* Every step tells the caller of the last failure or of none.
LEMMA ToldStep ==
    ASSUME IInv, AnswerIsOfLast, [Next]_vars
    PROVE  AnswerIsOfLast'
<1>a. ASSUME UNCHANGED <<pc, errs, status>> PROVE AnswerIsOfLast'
  BY <1>a DEF AnswerIsOfLast, Told, Retried
<1>1. ASSUME NEW r \in Reqs, Reject(r) \/ Succeed(r) PROVE AnswerIsOfLast'
  <2>1. PICK code \in {200, 400, 405} : Answer(r, code)
    BY <1>1 DEF Reject, Succeed
  <2>2. \A q \in Reqs : /\ pc'[q] = IF q = r THEN "answered" ELSE pc[q]
                        /\ status'[q] = IF q = r THEN code ELSE status[q]
    BY <2>1 DEF Answer, IInv, TypeOK
  <2>3. errs' = errs
    BY <1>1 DEF Reject, Succeed
  <2>4. QED
    BY <2>2, <2>3 DEF AnswerIsOfLast, Told, Retried
<1>2. ASSUME NEW r \in Reqs, Begin(r) PROVE AnswerIsOfLast'
  <2>1. \A q \in Reqs : pc'[q] = IF q = r THEN "try" ELSE pc[q]
    BY <1>2 DEF Begin, IInv, TypeOK
  <2>2. errs[r] = <<>> /\ pc[r] = "new" /\ UNCHANGED <<errs, status>>
    BY <1>2 DEF Begin, IInv, StageInv
  <2>3. Len(errs[r]) = 0
    BY <2>2
  <2>4. QED
    BY <2>1, <2>2, <2>3 DEF AnswerIsOfLast, Told, Retried
<1>3. ASSUME NEW r \in Reqs, RequestFails(r) \/ AnswerUnreadable(r) \/ Interrupted(r) PROVE AnswerIsOfLast'
  <2>1. pc[r] = "try" /\ \E e \in Errors : Failed(r, e)
    BY <1>3 DEF RequestFails, AnswerUnreadable, Interrupted, DeadlineInDo, DeadlineInBody, CallerGone, Errors
  <2>2. QED
    BY <2>1, FailureIsTold
<1>4. ASSUME NEW r \in Reqs, Backoff(r) PROVE AnswerIsOfLast'
  <2>1. \A q \in Reqs : pc'[q] = IF q = r THEN "try" ELSE pc[q]
    BY <1>4 DEF Backoff, IInv, TypeOK
  <2>2. pc[r] = "wait" /\ UNCHANGED <<errs, status>>
    BY <1>4 DEF Backoff
  <2>3. QED
    BY <2>1, <2>2 DEF AnswerIsOfLast, Told, Retried
<1>5. ASSUME NEW r \in Reqs, GiveUp(r) PROVE AnswerIsOfLast'
  <2> DEFINE code == StatusOf(Last(errs[r]))
  <2>1. \A q \in Reqs : /\ pc'[q] = IF q = r THEN "answered" ELSE pc[q]
                        /\ status'[q] = IF q = r THEN code ELSE status[q]
    BY <1>5 DEF GiveUp, Answer, IInv, TypeOK
  <2>2. pc[r] = "wait" /\ errs' = errs /\ code # 0
    BY <1>5 DEF GiveUp, StatusOf
  <2>3. QED
    BY <2>1, <2>2 DEF AnswerIsOfLast, Told, Retried
<1>6. ASSUME NEW r \in Reqs, Expire(r) \/ CallerLeaves(r) PROVE AnswerIsOfLast'
  BY <1>6, <1>a DEF Expire, CallerLeaves
<1>7. CASE UNCHANGED vars
  BY <1>7, <1>a DEF vars
<1>8. QED
  BY <1>1, <1>2, <1>3, <1>4, <1>5, <1>6, <1>7 DEF Next, Idle, Serve

\* How many steps a request takes at most from each stage, with n attempts begun.
StepsLeft(stage, n) ==
    CASE stage = "new"      -> 2 * maxAttempts + 1
      [] stage = "try"      -> 2 * (maxAttempts - n) + 2
      [] stage = "wait"     -> 2 * (maxAttempts - n) + 1
      [] stage = "answered" -> 0

\* A step of a request takes it nearer to its answer, and no other step takes it
\* anywhere: the retry loop of Generate ends (router.go:74-96).
GetsOn ==
    \A r \in Reqs :
        /\ Serve(r) => StepsLeft(pc'[r], attempt'[r]) < StepsLeft(pc[r], attempt[r])
        /\ ~Serve(r) => UNCHANGED <<pc[r], attempt[r]>>
RequestsGetOn == [][GetsOn]_vars

\* A request's step moves it alone, to a stage that is nearer to the answer.
LEMMA ServeMoves ==
    ASSUME NEW r \in Reqs, IInv, Serve(r)
    PROVE  /\ StepsLeft(pc'[r], attempt'[r]) < StepsLeft(pc[r], attempt[r])
           /\ \A q \in Reqs \ {r} : UNCHANGED <<pc[q], attempt[q]>>
<1>1. CASE Reject(r) \/ Succeed(r) \/ GiveUp(r)
  <2>1. pc' = [pc EXCEPT ![r] = "answered"] /\ attempt' = attempt /\ pc[r] \in {"new", "try", "wait"}
    BY <1>1 DEF Reject, Succeed, GiveUp, Answer
  <2>2. attempt[r] \in 0 .. 2
    BY DEF IInv, TypeOK, maxAttempts
  <2>3. QED
    BY <2>1, <2>2 DEF StepsLeft, maxAttempts, IInv, TypeOK
<1>2. CASE Begin(r)
  <2>1. /\ pc[r] = "new" /\ pc' = [pc EXCEPT ![r] = "try"] /\ attempt' = [attempt EXCEPT ![r] = 1]
    BY <1>2 DEF Begin
  <2>2. QED
    BY <2>1 DEF StepsLeft, maxAttempts, IInv, TypeOK
<1>3. CASE RequestFails(r) \/ AnswerUnreadable(r) \/ Interrupted(r)
  <2>1. pc[r] = "try" /\ attempt' = attempt /\ \E e \in Errors : Failed(r, e)
    BY <1>3 DEF RequestFails, AnswerUnreadable, Interrupted, DeadlineInDo, DeadlineInBody, CallerGone, Errors
  <2>2. pc' = [pc EXCEPT ![r] = "answered"] \/ (pc' = [pc EXCEPT ![r] = "wait"] /\ attempt[r] = 1)
    BY <2>1, FailedStep
  <2>3. attempt[r] \in {1, 2}
    BY <2>1 DEF IInv, StageInv
  <2>4. QED
    BY <2>1, <2>2, <2>3 DEF StepsLeft, maxAttempts, IInv, TypeOK
<1>4. CASE Backoff(r)
  <2>1. /\ pc[r] = "wait" /\ pc' = [pc EXCEPT ![r] = "try"] /\ attempt' = [attempt EXCEPT ![r] = attempt[r] + 1]
    BY <1>4 DEF Backoff
  <2>2. attempt[r] = 1
    BY <2>1 DEF IInv, StageInv
  <2>3. QED
    BY <2>1, <2>2 DEF StepsLeft, maxAttempts, IInv, TypeOK
<1>5. QED
  BY <1>1, <1>2, <1>3, <1>4 DEF Serve

\* The caller of the proxy is told of the last failure (504 for a timeout, 502
\* for any other), an attempt is made again only after failures that are worth
\* it, and the error the router returns is never missing (router.go:74-96).
THEOREM CallerHearsLastFailure == Spec => []AnswerIsOfLast
<1>1. Init => AnswerIsOfLast
  BY DEF Init, AnswerIsOfLast, Told, Retried
<1>2. IInv /\ AnswerIsOfLast /\ [Next]_vars => AnswerIsOfLast'
  BY ToldStep
<1>3. QED
  BY <1>1, <1>2, Inductive, PTL DEF Spec

\* A request takes at most five steps of its own to its answer: the measure
\* behind the liveness of the proxy.
THEOREM NoRequestGoesBack == Spec => RequestsGetOn
<1>1. IInv /\ [Next]_vars => [GetsOn]_vars
  <2> SUFFICES ASSUME IInv, Next PROVE GetsOn \/ UNCHANGED vars
    OBVIOUS
  <2>1. CASE Idle
    BY <2>1 DEF Idle
  <2>2. ASSUME NEW r \in Reqs, Serve(r) PROVE GetsOn
    BY <2>2, ServeMoves DEF GetsOn
  <2>3. ASSUME NEW r \in Reqs, Expire(r) \/ CallerLeaves(r) PROVE GetsOn
    <3>1. UNCHANGED <<pc, attempt>>
      BY <2>3 DEF Expire, CallerLeaves
    <3>2. \A q \in Reqs : ~Serve(q)
      <4>1. SUFFICES ASSUME NEW q \in Reqs, Serve(q) PROVE FALSE
        OBVIOUS
      <4>2. StepsLeft(pc[q], attempt[q]) < StepsLeft(pc[q], attempt[q])
        BY <3>1, <4>1, ServeMoves
      <4>3. StepsLeft(pc[q], attempt[q]) \in Int
        <5>1. attempt[q] \in 0 .. 2 /\ pc[q] \in {"new", "try", "wait", "answered"}
          BY DEF IInv, TypeOK, maxAttempts
        <5>2. QED
          BY <5>1 DEF StepsLeft, maxAttempts
      <4>4. QED
        BY <4>2, <4>3
    <3>3. QED
      BY <3>1, <3>2 DEF GetsOn
  <2>4. QED
    BY <2>1, <2>2, <2>3 DEF Next
<1>2. QED
  BY <1>1, Inductive, PTL DEF Spec, RequestsGetOn
=============================================================================
