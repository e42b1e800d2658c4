----------------------------- MODULE ModelRuntime -----------------------------
(***************************************************************************)
(* model-runtime: its configuration, and what becomes of one reply of a    *)
(* provider.  A call ends in "ok" or with one of the exceptions its caller *)
(* tells apart: "transient", "schema", "nonretryable", or any "other".     *)
(***************************************************************************)
EXTENDS Integers

\* config.py: what the environment holds for the provider it names.
Environment ==
  [provider : {"fake", "openai", "azure_openai"}, api_key : BOOLEAN,
   base_url : BOOLEAN, endpoint : BOOLEAN, deployment : BOOLEAN]

\* The provider's constructor does not raise; openai has a default base_url, and
\* Azure takes base_url when AZURE_OPENAI_ENDPOINT is not set.
Builds(env) ==
  CASE env.provider = "fake"   -> TRUE
    [] env.provider = "openai" -> env.api_key
    [] OTHER -> env.api_key /\ (env.endpoint \/ env.base_url) /\ env.deployment

\* The configurations a process can have started with.
Configs(maxRetries) ==
  [provider : {env.provider : env \in {e \in Environment : Builds(e)}},
   max_retries : maxRetries, backoff : {"negative", "valid"}]

\* Mutant of MaxAttempts: the budget may be empty.
MaxAttemptsUnbounded(config) == config.max_retries + 1

MaxAttempts(config) == IF config.max_retries < 0 THEN 1 ELSE config.max_retries + 1

ClassifyHttpStatus(status) ==
  IF status \in {400, 401, 403, 404, 422} THEN "nonretryable" ELSE "transient"

(***************************************************************************)
(* What a provider may answer to one request: an HTTP error, a failure of  *)
(* the connection, a body that is no reply of the API, a message that is   *)
(* not what was asked for, or a message with its fields.                   *)
(***************************************************************************)
HttpErrors == {400, 401, 403, 404, 408, 409, 422, 429, 500, 503}
Faults == {"unreachable", "timed_out", "reset_in_body", "body_not_json"}
Bodies == {"body_not_object", "usage_not_number", "no_choices", "choice_not_object",
           "no_message", "empty_content"}
Contents == {"content_not_json", "content_not_object", "confidence_not_number",
             "confidence_out_of_range", "complete"}
Replies ==
  [status : HttpErrors, what : {"error"}] \cup
  [status : {200}, what : Faults \cup Bodies \cup Contents]

\* post_json
PostJson(reply) ==
  CASE reply.status # 200                          -> ClassifyHttpStatus(reply.status)
    [] reply.what \in {"unreachable", "timed_out"} -> "transient"
    [] reply.what = "body_not_json"                -> "nonretryable"
    [] reply.what = "reset_in_body"                -> "other"
    [] OTHER                                       -> "ok"

\* _extract_message_content, after the token counts of the body were read
ExtractMessageContent(what) ==
  CASE what \in {"body_not_object", "usage_not_number"} -> "other"
    [] what \in Bodies                                  -> "schema"
    [] OTHER                                            -> "ok"

\* _invoke's own checks, then _parse_analyze or _parse_validate: an analysis has
\* no number, and float() is not covered by the except of _parse_validate.
Parse(what, validates) ==
  CASE what \in {"content_not_json", "content_not_object"}  -> "schema"
    [] validates /\ what = "confidence_not_number"          -> "other"
    [] validates /\ what = "confidence_out_of_range"        -> "schema"
    [] OTHER                                                -> "ok"

\* OpenAICompatibleProvider._invoke
Invoke(reply, validates) ==
  IF PostJson(reply) # "ok" THEN PostJson(reply)
  ELSE IF ExtractMessageContent(reply.what) # "ok"
    THEN ExtractMessageContent(reply.what)
  ELSE Parse(reply.what, validates)

CostTasks == {"analyze_cost_anomaly", "validate_cost_attribution"}
ValidatingTasks == {"validate_incident", "validate_cost_attribution"}

\* How one call of a provider may end.  The fake one always answers; the HTTP ones
\* have no methods for the cost tasks, which is an AttributeError.
Outcomes(provider, task) ==
  IF provider = "fake" THEN {"ok"}
  ELSE IF task \in CostTasks THEN {"other"}
  ELSE {Invoke(reply, task \in ValidatingTasks) : reply \in Replies}

Errors == {"transient", "schema", "nonretryable", "other"}
=============================================================================
