-------------------------- MODULE ToolExecutorProofs --------------------------
(***************************************************************************)
(* The safety properties of ToolExecutor, for every retry budget and every *)
(* number of changes of the cancellation flag.                             *)
(***************************************************************************)
EXTENDS ToolExecutor, TLAPS

\* The executor starts in a state of the invariant.
LEMMA InitIInv == Init => IInv
BY RetryAssumption, FlagAssumption
   DEF Init, IInv, TypeOK, OneHandlerAtATime, StartsWithinBudget, LoopInv, LateInv,
       CancellationStopsRetries, AuditAgreesWithHandlers, Request, NoCall, NoCount, InLoop

\* What a failed attempt does: the row is written and execute returns, or the
\* loop backs off with an attempt left.
LEMMA FailedStep ==
  ASSUME IInv, NEW exc \in {"transient", "timeout", "error"},
         pc \in {"wait", "join"}, Failed(exc)
  PROVE  /\ lastExc' = exc
         /\ \/ /\ pc' = "backoff"
               /\ attempt < MaxRetries
               /\ call' = call
            \/ /\ pc' = "done"
               /\ call' \in [status : Status, code : Code, retry_count : NoCount .. MaxRetries]
               /\ call'.status # "success"
               /\ call'.code \in {"timeout", "tool_execution_error"} /\ call'.retry_count = MaxRetries
               /\ call'.code = "timeout" => exc = "timeout" /\ attempt = MaxRetries
               /\ call'.code = "tool_execution_error" =>
                    exc = "error" \/ (exc = "transient" /\ attempt = MaxRetries)
<1> USE RetryAssumption
<1>1. CASE NextAttempt(exc)
  BY <1>1 DEF Failed, NextAttempt, IInv, TypeOK, max_attempts
<1>2. CASE ~ NextAttempt(exc)
  <2>1. lastExc' = exc /\ Exhausted(exc)
    BY <1>2 DEF Failed
  <2>2. exc = "error" \/ attempt = MaxRetries
    BY <1>2 DEF NextAttempt, IsTransient, IInv, TypeOK, max_attempts
  <2>3. max_attempts - 1 = MaxRetries /\ MaxRetries \in NoCount .. MaxRetries
    BY DEF max_attempts, NoCount
  <2>4. CASE exc = "timeout"
    <3>1. call' = [status |-> "timeout", code |-> "timeout", retry_count |-> MaxRetries]
          /\ pc' = "done"
      BY <2>1, <2>3, <2>4 DEF Exhausted, BuildCall
    <3> QED BY <2>1, <2>2, <2>3, <2>4, <3>1 DEF Status, Code
  <2>5. CASE exc # "timeout"
    <3>1. call' = [status |-> "failure", code |-> "tool_execution_error",
                   retry_count |-> MaxRetries]
          /\ pc' = "done"
      BY <2>1, <2>3, <2>5 DEF Exhausted, BuildCall
    <3> QED BY <2>1, <2>2, <2>3, <2>5, <3>1 DEF Status, Code
  <2> QED BY <2>4, <2>5
<1> QED BY <1>1, <1>2

\* Every step keeps the invariant.
LEMMA NextIInv == IInv /\ [Next]_vars => IInv'
<1> SUFFICES ASSUME IInv, [Next]_vars PROVE IInv'
  OBVIOUS
<1> USE RetryAssumption, FlagAssumption
<1> USE DEF IInv, TypeOK, OneHandlerAtATime, StartsWithinBudget, LoopInv, LateInv,
            CancellationStopsRetries, AuditAgreesWithHandlers, InLoop
<1>1. CASE Admit
  <2>1. /\ pc = "admit"
        /\ \/ pc' = "check" /\ UNCHANGED call
              /\ ~ request.policy_denied /\ request.registered /\ request.valid
           \/ /\ pc' = "done"
              /\ \E st \in {"failure", "rejected_by_policy"},
                    co \in {"rejected_by_policy", "unknown_tool", "cancelled", "validation_error"} :
                   call' = [status |-> st, code |-> co, retry_count |-> NoCount]
    BY <1>1, Zenon DEF Admit, BuildCall
  <2>2. CASE pc' = "check" /\ UNCHANGED call
               /\ ~ request.policy_denied /\ request.registered /\ request.valid
    BY <1>1, <2>1, <2>2 DEF Admit, Request, NoCall, NoCount
  <2>3. CASE pc' = "done"
    <3>1. PICK st \in {"failure", "rejected_by_policy"},
               co \in {"rejected_by_policy", "unknown_tool", "cancelled", "validation_error"} :
             call' = [status |-> st, code |-> co, retry_count |-> NoCount]
      BY <2>1, <2>3
    <3>2. call' \in [status : Status, code : Code, retry_count : NoCount .. MaxRetries]
      BY <3>1 DEF Status, Code, NoCount
    <3> QED BY <1>1, <2>1, <2>3, <3>1, <3>2 DEF Admit
  <2> QED BY <2>1, <2>2, <2>3
<1>2. CASE CheckCancelled
  BY <1>2 DEF CheckCancelled, BuildCall, Status, Code, NoCall, NoCount
<1>3. CASE Submit
  BY <1>3 DEF Submit, Request, NoCall, NoCount
<1>4. CASE TimeOut
  BY <1>4 DEF TimeOut
<1>5. CASE Collect
  <2>1. CASE ended \in {"transient", "timeout", "error"}
    <3>1. Failed(ended)
      BY <1>5, <2>1 DEF Collect
    <3>2. pc = "wait" /\ handlers = {}
      BY <1>5 DEF Collect
    <3> QED BY <1>5, <2>1, <3>1, <3>2, FailedStep DEF Collect, NoCall
  <2>2. CASE ended = "dict"
    <3>1. call' = [status |-> "success", code |-> "none", retry_count |-> attempt]
          /\ pc' = "done" /\ UNCHANGED lastExc
      BY <1>5, <2>2 DEF Collect, BuildCall
    <3> QED BY <1>5, <2>2, <3>1 DEF Collect, Status, Code, NoCount
  <2>3. CASE ended = "invalid"
    <3>1. call' = [status |-> "failure", code |-> "validation_error", retry_count |-> attempt]
          /\ pc' = "done" /\ UNCHANGED lastExc
      BY <1>5, <2>3 DEF Collect, BuildCall
    <3> QED BY <1>5, <2>3, <3>1 DEF Collect, Status, Code, NoCount
  <2> QED BY <1>5, <2>1, <2>2, <2>3 DEF Collect
<1>6. CASE Join
  <2>1. Failed("timeout") /\ pc = "join"
    BY <1>6 DEF Join
  <2> QED BY <1>6, <2>1, FailedStep DEF Join, NoCall
<1>7. CASE Backoff
  BY <1>7 DEF Backoff
<1>8. CASE HandlerEnds
  <2>1. PICK i \in handlers, e \in Ending :
          /\ handlers' = handlers \ {i}
          /\ ended' = IF i = attempt /\ pc = "wait" THEN e ELSE ended
    BY <1>8 DEF HandlerEnds
  <2>2. pc \in {"wait", "join"} /\ i = attempt /\ handlers' = {}
    BY <2>1
  <2> QED BY <1>8, <2>1, <2>2 DEF HandlerEnds, NoCall, Ending
<1>9. CASE FlagChanges
  BY <1>9 DEF FlagChanges
<1>10. CASE UNCHANGED vars
  BY <1>10 DEF vars
<1> QED
  BY <1>1, <1>2, <1>3, <1>4, <1>5, <1>6, <1>7, <1>8, <1>9, <1>10
     DEF Next, ExecutorNext, Returned

\* The invariant of the executor holds throughout.
LEMMA ExecutorInvariance == Spec => []IInv
<1>1. Init => IInv
  BY InitIInv
<1>2. IInv /\ [Next]_vars => IInv'
  BY NextIInv
<1> QED BY <1>1, <1>2, PTL DEF Spec

\* Type correctness of ToolExecutor.execute: the loop variable and the recorded
\* retry_count stay within the tool's retry policy.
THEOREM ExecutorTypeCorrect == Spec => []TypeOK
BY ExecutorInvariance, PTL DEF IInv

\* No two attempts of an invocation ever run at once, however late a handler
\* that timed out ends: _run_with_timeout joins its pool.
THEOREM HandlersNeverOverlap == Spec => []OneHandlerAtATime
BY ExecutorInvariance, PTL DEF IInv

\* For every retry policy the loop in execute starts at most max_retries + 1
\* handlers, and none for a request that was turned away.
THEOREM BudgetIsKept == Spec => []StartsWithinBudget
BY ExecutorInvariance, PTL DEF IInv

\* However often the flag changes, while it stays raised at most one more handler
\* starts.
THEOREM CancellationIsHeeded == Spec => []CancellationStopsRetries
BY ExecutorInvariance, PTL DEF IInv

\* The ToolCall row agrees with what the handlers did, for every retry policy; its count
\* is that of the retries except after an error that is not transient.
THEOREM AuditAgrees == Spec => []AuditAgreesWithHandlers
BY ExecutorInvariance, PTL DEF IInv
=============================================================================
