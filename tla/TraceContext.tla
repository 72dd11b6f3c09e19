------------------------------ MODULE TraceContext ------------------------------
(* W3C trace context (shared/src/observability/trace_context.rs) and the copy of *)
(* it in the Lambda (lambda/devops-api/src/main.rs): what a service makes of the *)
(* headers a request brings, and what it passes on.                              *)
(*                                                                               *)
(* An id is random, so it is named by who drew it; its hex digits are spelled in *)
(* lower or upper case, which a search by trace_id tells apart. A traceparent    *)
(* header is absent, malformed (anything from_traceparent rejects) or carries a  *)
(* context. Nobody acts on trace_flags, which are left out.                      *)

Fresh(by) == [by |-> by, upper |-> FALSE] \* generate_hex
New(by) == [trace |-> Fresh(by), span |-> Fresh(by)]

Absent == [kind |-> "absent"]
Malformed == [kind |-> "malformed"]
ToTraceparent(ctx) == [kind |-> "w3c", ctx |-> ctx]

(* from_traceparent: the context, or nothing; the spelling is kept *)
FromTraceparent(header) == IF header.kind = "w3c" THEN {header.ctx} ELSE {}

(* from_request: traceparent, else a well-formed X-Trace-Id, else a new trace *)
FromRequest(header, legacy, by) ==
    CASE FromTraceparent(header) # {} -> header.ctx
      [] FromTraceparent(header) = {} /\ legacy # {} ->
            [trace |-> CHOOSE id \in legacy : TRUE, span |-> Fresh(by)]
      [] OTHER -> New(by)

(* the Lambda's handler: no X-Trace-Id, and the ids in lower case *)
LowerCase(id) == [id EXCEPT !.upper = FALSE]
LambdaContext(header, by) ==
    IF FromTraceparent(header) = {} THEN New(by)
    ELSE [trace |-> LowerCase(header.ctx.trace), span |-> LowerCase(header.ctx.span)]
=============================================================================
