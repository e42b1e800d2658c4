----------------------------- MODULE ToolExecutor -----------------------------
(***************************************************************************)
(* One invocation of a tool (tool-runtime/tool_runtime/executor.py): the   *)
(* thread in ToolExecutor.execute, the pool thread that runs the handler,  *)
(* the timer on its result, and the cancellation flag the executor polls.  *)
(* The flag lives on the execution record, where a cancel request raises   *)
(* it and a write-back of an older record may lower it again (see          *)
(* ExecutionEngine); a handler may take any time and end in any way.       *)
(***************************************************************************)
EXTENDS Integers

CONSTANTS
  MaxRetries,     \* retry_policy.max_retries of the tool
  MaxFlagChanges  \* bound on how often the flag changes during one invocation

ASSUME RetryAssumption == MaxRetries \in Nat
ASSUME FlagAssumption == MaxFlagChanges \in Nat

VARIABLES
  request,     \* what execute was called with
  flag,        \* cancellation_requested, as the cancel check reads it
  flagChanges, \* how often it has changed
  pc,          \* where execute stands
  attempt,     \* the loop variable
  handlers,    \* attempts whose handler is still running in its pool
  ended,       \* how the handler of this attempt ended, "none" while it runs
  lastExc,     \* class of last_exc
  call,        \* the ToolCall returned: status, error code, and the retry_count
               \* in its error or output, NoCount where it has none
  starts,      \* how many handlers were started
  lateStarts   \* how many of them since the flag was last raised

vars == <<request, flag, flagChanges, pc, attempt, handlers, ended, lastExc, call,
          starts, lateStarts>>

\* policy_denied; the registry knows the tool; the input has incident_id or id.
Request == [policy_denied : BOOLEAN, registered : BOOLEAN, valid : BOOLEAN]

\* What a handler's future may hold: a dict, something that is no dict (or a
\* ToolValidationError), an error _is_transient accepts, a TimeoutError of the
\* handler's own, or any other exception.
Ending == {"dict", "invalid", "transient", "timeout", "error"}

Status == {"success", "failure", "timeout", "rejected_by_policy"}

Code == {"none", "rejected_by_policy", "unknown_tool", "cancelled",
         "validation_error", "timeout", "tool_execution_error"}

NoCount == -1

NoCall == [status |-> "none", code |-> "none", retry_count |-> NoCount]

max_attempts == MaxRetries + 1

\* Mutant of IsTransient: a timeout is not retried.
IsTransientError(exc) == exc = "transient"

\* _is_transient: a TimeoutError counts as transient.
IsTransient(exc) == exc \in {"transient", "timeout"}

(***************************************************************************)
(* execute.                                                                *)
(***************************************************************************)
\* _build_call, and the return from execute.
BuildCall(status, code, retries) ==
  /\ call' = [status |-> status, code |-> code, retry_count |-> retries]
  /\ pc' = "done"

\* The checks before the loop, in their order.
Admit ==
  /\ pc = "admit"
  /\ \/ /\ request.policy_denied
        /\ BuildCall("rejected_by_policy", "rejected_by_policy", NoCount)
     \/ /\ ~ request.policy_denied /\ ~ request.registered
        /\ BuildCall("failure", "unknown_tool", NoCount)
     \/ /\ ~ request.policy_denied /\ request.registered /\ flag
        /\ BuildCall("failure", "cancelled", NoCount)
     \/ /\ ~ request.policy_denied /\ request.registered /\ ~ flag /\ ~ request.valid
        /\ BuildCall("failure", "validation_error", NoCount)
     \/ /\ ~ request.policy_denied /\ request.registered /\ ~ flag /\ request.valid
        /\ pc' = "check"
        /\ UNCHANGED call
  /\ UNCHANGED <<request, flag, flagChanges, attempt, handlers, ended, lastExc, starts,
                 lateStarts>>

\* Mutant of CheckCancelled: the flag is tested before the loop only.
CheckNothing ==
  /\ pc = "check"
  /\ pc' = "submit"
  /\ UNCHANGED <<request, flag, flagChanges, attempt, handlers, ended, lastExc, call,
                 starts, lateStarts>>

\* Mutant of CheckCancelled: the loop waits for the flag to be lowered.
CheckWaits ==
  /\ pc = "check"
  /\ pc' = IF flag THEN "check" ELSE "submit"
  /\ UNCHANGED <<request, flag, flagChanges, attempt, handlers, ended, lastExc, call,
                 starts, lateStarts>>

\* Top of the loop.
CheckCancelled ==
  /\ pc = "check"
  /\ IF flag
       THEN BuildCall("failure", "cancelled", NoCount)
       ELSE pc' = "submit" /\ UNCHANGED call
  /\ UNCHANGED <<request, flag, flagChanges, attempt, handlers, ended, lastExc, starts,
                 lateStarts>>

\* _run_with_timeout: a pool of its own for each attempt.
Submit ==
  /\ pc = "submit"
  /\ handlers' = handlers \cup {attempt}
  /\ ended' = "none"
  /\ starts' = starts + 1
  /\ lateStarts' = IF flag THEN lateStarts + 1 ELSE lateStarts
  /\ pc' = "wait"
  /\ UNCHANGED <<request, flag, flagChanges, attempt, lastExc, call>>

\* The timer on fut.result fires first.  The with statement still joins the pool.
TimeOut ==
  /\ pc = "wait"
  /\ ended = "none"
  /\ pc' = "join"
  /\ UNCHANGED <<request, flag, flagChanges, attempt, handlers, ended, lastExc, call,
                 starts, lateStarts>>

\* Mutant of NextAttempt: one attempt too many.
NextAttemptLate(exc) == IsTransient(exc) /\ attempt < max_attempts

\* The except clause goes on with the loop.
NextAttempt(exc) == IsTransient(exc) /\ attempt + 1 < max_attempts

\* After the loop.
Exhausted(exc) ==
  IF exc = "timeout" THEN BuildCall("timeout", "timeout", max_attempts - 1)
                     ELSE BuildCall("failure", "tool_execution_error", max_attempts - 1)

Failed(exc) ==
  /\ lastExc' = exc
  /\ IF NextAttempt(exc) THEN pc' = "backoff" /\ UNCHANGED call ELSE Exhausted(exc)

\* fut.result returned or raised before the timer.
Collect ==
  /\ pc = "wait"
  /\ ended # "none"
  /\ \/ ended = "dict" /\ BuildCall("success", "none", attempt) /\ UNCHANGED lastExc
     \/ ended = "invalid" /\ BuildCall("failure", "validation_error", attempt)
                          /\ UNCHANGED lastExc
     \/ ended \in {"transient", "timeout", "error"} /\ Failed(ended)
  /\ UNCHANGED <<request, flag, flagChanges, attempt, handlers, ended, starts, lateStarts>>

\* Mutant of Join: the pool is left to itself.
JoinAtOnce ==
  /\ pc = "join"
  /\ Failed("timeout")
  /\ UNCHANGED <<request, flag, flagChanges, attempt, handlers, ended, starts, lateStarts>>

\* Leaving the pool's with statement waits for the handler; what it returns late
\* is dropped.
Join ==
  /\ pc = "join"
  /\ handlers = {}
  /\ Failed("timeout")
  /\ UNCHANGED <<request, flag, flagChanges, attempt, handlers, ended, starts, lateStarts>>

\* time.sleep, then the next round of the loop.
Backoff ==
  /\ pc = "backoff"
  /\ attempt' = attempt + 1
  /\ pc' = "check"
  /\ UNCHANGED <<request, flag, flagChanges, handlers, ended, lastExc, call, starts,
                 lateStarts>>

(***************************************************************************)
(* The pool thread and the record the flag is read from.                   *)
(***************************************************************************)
HandlerEnds ==
  /\ \E i \in handlers, e \in Ending :
       /\ handlers' = handlers \ {i}
       /\ ended' = IF i = attempt /\ pc = "wait" THEN e ELSE ended
  /\ UNCHANGED <<request, flag, flagChanges, pc, attempt, lastExc, call, starts, lateStarts>>

FlagChanges ==
  /\ flagChanges < MaxFlagChanges
  /\ pc # "done"
  /\ flagChanges' = flagChanges + 1
  /\ flag' = ~ flag
  /\ lateStarts' = 0
  /\ UNCHANGED <<request, pc, attempt, handlers, ended, lastExc, call, starts>>

(***************************************************************************)
(* The specification.                                                      *)
(***************************************************************************)
Init ==
  /\ request \in Request
  /\ flag \in BOOLEAN
  /\ flagChanges = 0
  /\ pc = "admit"
  /\ attempt = 0
  /\ handlers = {}
  /\ ended = "none"
  /\ lastExc = "none"
  /\ call = NoCall
  /\ starts = 0
  /\ lateStarts = 0

ExecutorNext ==
  Admit \/ CheckCancelled \/ Submit \/ TimeOut \/ Collect \/ Join \/ Backoff

Returned == pc = "done" /\ handlers = {} /\ UNCHANGED vars

Next == ExecutorNext \/ HandlerEnds \/ FlagChanges \/ Returned

Spec == Init /\ [][Next]_vars

\* The calling thread keeps running; whether a handler ends is up to the tool.
ExecutorFair == Spec /\ WF_vars(ExecutorNext)
FairSpec == ExecutorFair /\ WF_vars(HandlerEnds)

(***************************************************************************)
(* Properties.                                                             *)
(***************************************************************************)
\* Type correctness; retry_count and the loop variable stay within the policy.
TypeOK ==
  /\ request \in Request
  /\ flag \in BOOLEAN
  /\ flagChanges \in 0 .. MaxFlagChanges
  /\ pc \in {"admit", "check", "submit", "wait", "join", "backoff", "done"}
  /\ attempt \in 0 .. MaxRetries
  /\ handlers \subseteq 0 .. MaxRetries
  /\ ended \in Ending \cup {"none"}
  /\ lastExc \in {"none", "transient", "timeout", "error"}
  /\ call = NoCall \/ call \in [status : Status, code : Code, retry_count : NoCount .. MaxRetries]
  /\ starts \in Nat
  /\ lateStarts \in Nat

\* A tool is never run beside an earlier attempt of itself, and nothing of the
\* invocation runs on once its audit row is returned: a retry after a timeout
\* waits for the attempt it gave up on.
OneHandlerAtATime ==
  /\ \A i, j \in handlers : i = j
  /\ pc \notin {"wait", "join"} => handlers = {}

\* The retry budget bounds what the tool sees: a tool registered without retries
\* (mutate_policy) is started at most once, and a request that policy, the
\* registry or validation turned away never starts one.
StartsWithinBudget ==
  /\ starts <= MaxRetries + 1
  /\ starts > 0 => ~ request.policy_denied /\ request.registered /\ request.valid

\* After the flag is raised at most one more handler starts (the one whose check
\* had been passed already), for as long as the flag stays up.
CancellationStopsRetries == lateStarts <= 1

\* The audit row agrees with what the handlers did, and with one exception its count
\* is the number of attempts before the last: a success is a dict, a validation error
\* that has a count is an invalid result, a timeout is the last attempt the policy
\* grants.  The exception is an error that is not transient: it ends the loop at once
\* but the row, and tool_retries_total with it, always shows the whole budget
\* (executor.py:196), so such a count says nothing of what was retried, although
\* docs/architecture/runtime-model.md:312 counts attempts with it.
AuditAgreesWithHandlers ==
  /\ call.status = "success" => ended = "dict"
  /\ call.code = "validation_error" /\ call.retry_count # NoCount => ended = "invalid"
  /\ call.code = "timeout" => lastExc = "timeout" /\ starts = MaxRetries + 1
  /\ call.code = "tool_execution_error" =>
       /\ call.retry_count = MaxRetries
       /\ lastExc = "error" \/ (lastExc = "transient" /\ starts = MaxRetries + 1)
  /\ call.retry_count # NoCount /\ call.code # "tool_execution_error" =>
       call.retry_count + 1 = starts

\* Every invocation returns.  With handlers that end this is what the retry loop
\* owes its caller; without, it is what docs/architecture/runtime-model.md says of
\* timeout_bounds: the "maximum duration" the runtime enforces for tool calls.
InvocationReturns == <>(pc = "done")

(***************************************************************************)
(* The inductive invariant.                                                *)
(***************************************************************************)
InLoop == {"check", "submit", "wait", "join", "backoff"}

\* How far the loop is: one handler per attempt, all joined but the last.
LoopInv ==
  /\ pc = "admit" => starts = 0 /\ lateStarts = 0 /\ attempt = 0
  /\ pc \in {"check", "submit"} => starts = attempt
  /\ pc \in {"wait", "join", "backoff"} => starts = attempt + 1
  /\ pc = "backoff" => attempt < MaxRetries
  /\ pc \in InLoop => ~ request.policy_denied /\ request.registered /\ request.valid
  /\ pc # "done" => call = NoCall
  /\ pc \in {"wait", "join"} => handlers \subseteq {attempt}
  /\ pc = "wait" /\ ended # "none" => handlers = {}
  /\ pc = "join" => ended = "none"

\* A handler started under a raised flag is the last one before the next check.
LateInv ==
  /\ ~ flag => lateStarts = 0
  /\ pc = "submit" => lateStarts = 0

IInv == TypeOK /\ OneHandlerAtATime /\ StartsWithinBudget /\ LoopInv
        /\ LateInv /\ CancellationStopsRetries /\ AuditAgreesWithHandlers
=============================================================================
