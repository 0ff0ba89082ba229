------------------------------ MODULE HttpProxy ------------------------------
(***************************************************************************)
(* The life of an HTTP request in the reverse proxy: the timeout           *)
(* middleware (pkg/plugins/httpserver/middleware/Duration.go), the handler *)
(* it runs in a goroutine of its own, runProxy, and the goroutine runProxy *)
(* starts for the request to the backend (pkg/plugins/proxy/http.go).      *)
(*                                                                         *)
(* gin is external: it serves every request with a context from a pool,    *)
(* sends the status a handler left when the handlers return without a      *)
(* body, and uses the context for another request afterwards.  A status or *)
(* a body goes to the writer that is installed in the context at that      *)
(* moment, and a body from there into a buffer that golib's buffpool hands *)
(* out again once it was put back.  A body is represented by the request   *)
(* it answers.                                                             *)
(***************************************************************************)
EXTENDS Integers, FiniteSets

CONSTANTS
  Requests,
  Contexts,  \* the *gin.Context objects of gin's pool
  NoContext,
  Buffers,   \* the *bytes.Buffer objects of buffpool, made or still to be made
  NoBuffer

ASSUME HttpAssumption ==
  Requests # {} /\ NoContext \notin Contexts /\ NoBuffer \notin Buffers

VARIABLES
  ctx,      \* the context each request is served with
  writer,   \* the request whose GinWriter is installed in each context
  buffer,   \* the buffer of each request's GinWriter
  spare,    \* the buffers buffpool may hand out
  handler,  \* the middleware of each request, on the server's goroutine
  inner,    \* the goroutine in which c.Next() runs runProxy
  backend,  \* the goroutine of httpReq.Request()
  answer,   \* the status runProxy decided for
  status,   \* the status in the response writer of each request
  body,     \* the bodies in each buffer
  response  \* what the caller received

vars ==
  <<ctx, writer, buffer, spare, handler, inner, backend, answer, status, body, response>>

NoResponse == [status |-> 0, body |-> {}]

Init ==
  /\ ctx = [q \in Requests |-> NoContext]
  /\ writer \in [Contexts -> {CHOOSE q \in Requests : TRUE}]
  /\ buffer = [q \in Requests |-> NoBuffer]
  /\ spare = Buffers
  /\ handler = [q \in Requests |-> "new"]
  /\ inner = [q \in Requests |-> "off"]
  /\ backend = [q \in Requests |-> "off"]
  /\ answer = [q \in Requests |-> 0]
  /\ status = [q \in Requests |-> 200]
  /\ body = [b \in Buffers |-> {}]
  /\ response = [q \in Requests |-> NoResponse]

\* The request whose writer the goroutines of q write to.
Writer(q) == writer[ctx[q]]

\* Contexts gin may give to a new request.
FreeContexts == {k \in Contexts : \A q \in Requests : ctx[q] = k => handler[q] = "done"}

\* WriteHeader sets the status as long as the header was not sent.
WriteHeader(q, code) ==
  status' = IF response[q] = NoResponse THEN [status EXCEPT ![q] = code] ELSE status

Respond(q, bodies) ==
  response' = [response EXCEPT ![q] = [status |-> status[q], body |-> bodies]]

-----------------------------------------------------------------------------
(* TimeoutHandler                                                          *)

\* Take a buffer, install the writer and start c.Next(), which is runProxy: it
\* makes its two channels and the timer and starts the request to the backend.
\* buffpool empties a buffer at the latest when it hands it out, or only when it
\* is put back: what was written in between may be kept.
Arrive(q) ==
  /\ handler[q] = "new"
  /\ \E k \in FreeContexts :
       /\ ctx' = [ctx EXCEPT ![q] = k]
       /\ writer' = [writer EXCEPT ![k] = q]
  /\ \E b \in spare : \E kept \in {{}, body[b]} :
       /\ buffer' = [buffer EXCEPT ![q] = b]
       /\ spare' = spare \ {b}
       /\ body' = [body EXCEPT ![b] = kept]
  /\ handler' = [handler EXCEPT ![q] = "select"]
  /\ inner' = [inner EXCEPT ![q] = "select"]
  /\ backend' = [backend EXCEPT ![q] = "request"]
  /\ UNCHANGED <<answer, status, response>>

\* Mutant of TimeOut: the middleware returns without setting a status.
TimeOutUnmarked(q) ==
  /\ handler[q] = "select"
  /\ handler' = [handler EXCEPT ![q] = "timedout"]
  /\ UNCHANGED <<ctx, writer, buffer, spare, inner, backend, answer, status, body, response>>

\* case <-time.After(t): status 504, and the middleware returns.  The buffer is
\* not put back.
TimeOut(q) ==
  /\ handler[q] = "select"
  /\ WriteHeader(q, 504)
  /\ handler' = [handler EXCEPT ![q] = "timedout"]
  /\ UNCHANGED <<ctx, writer, buffer, spare, inner, backend, answer, body, response>>

\* gin sends the status when the handlers have returned.
Flush(q) ==
  /\ handler[q] = "timedout"
  /\ Respond(q, {})
  /\ handler' = [handler EXCEPT ![q] = "done"]
  /\ UNCHANGED <<ctx, writer, buffer, spare, inner, backend, answer, status, body>>

\* case <-finish, which meets the send of the inner goroutine: send the buffer
\* and put it back.  The context still holds the writer on it.
Finished(q) ==
  /\ handler[q] = "select" /\ inner[q] = "finish"
  /\ Respond(q, body[buffer[q]])
  /\ spare' = spare \cup {buffer[q]}
  /\ body' = [body EXCEPT ![buffer[q]] = {}]
  /\ handler' = [handler EXCEPT ![q] = "done"]
  /\ inner' = [inner EXCEPT ![q] = "done"]
  /\ UNCHANGED <<ctx, writer, buffer, backend, answer, status>>

-----------------------------------------------------------------------------
(* runProxy                                                                *)

Answer(q, code) ==
  /\ inner[q] = "select"
  /\ inner' = [inner EXCEPT ![q] = "status"]
  /\ answer' = [answer EXCEPT ![q] = code]
  /\ UNCHANGED <<ctx, writer, buffer, spare, handler, status, body, response>>

\* httpReq.Request() returns, with or without an error (getRequest and
\* postRequest time out by themselves).
RequestReturns(q) ==
  /\ backend[q] = "request"
  /\ \E next \in {"result", "resultErr"} : backend' = [backend EXCEPT ![q] = next]
  /\ UNCHANGED <<ctx, writer, buffer, spare, handler, inner, answer, status, body, response>>

\* Mutant of GetResult: the goroutine sends its result once more.
GetResultOnce(q) ==
  /\ backend[q] = "result" /\ Answer(q, 200) /\ UNCHANGED backend

\* case res := <-result
GetResult(q) ==
  /\ backend[q] = "result"
  /\ Answer(q, 200)
  /\ backend' = [backend EXCEPT ![q] = "done"]

\* case err := <-resultErr; the goroutine goes on to send to result as well.
GetError(q) ==
  /\ backend[q] = "resultErr"
  /\ Answer(q, 500)
  /\ backend' = [backend EXCEPT ![q] = "result"]

\* case <-t.C
GetTimer(q) ==
  /\ Answer(q, 404)
  /\ UNCHANGED backend

\* Mutant of WriteStatus: every answer is sent with StatusOK.
WriteStatusOK(q) ==
  /\ inner[q] = "status"
  /\ WriteHeader(Writer(q), 200)
  /\ inner' = [inner EXCEPT ![q] = "body"]
  /\ UNCHANGED <<ctx, writer, buffer, spare, handler, backend, answer, body, response>>

\* c.String(code, ...): the status ...
WriteStatus(q) ==
  /\ inner[q] = "status"
  /\ WriteHeader(Writer(q), answer[q])
  /\ inner' = [inner EXCEPT ![q] = "body"]
  /\ UNCHANGED <<ctx, writer, buffer, spare, handler, backend, answer, body, response>>

\* ... and the body, into the buffer of the installed GinWriter.
WriteBody(q) ==
  /\ inner[q] = "body"
  /\ body' = [body EXCEPT ![buffer[Writer(q)]] = @ \cup {q}]
  /\ inner' = [inner EXCEPT ![q] = "finish"]
  /\ UNCHANGED <<ctx, writer, buffer, spare, handler, backend, answer, status, response>>

-----------------------------------------------------------------------------

TimeoutHandler(q) == TimeOut(q) \/ Flush(q) \/ Finished(q)
RunProxy(q)       == GetResult(q) \/ GetError(q) \/ GetTimer(q) \/ WriteStatus(q) \/ WriteBody(q)

Next == \E q \in Requests : Arrive(q) \/ TimeoutHandler(q) \/ RunProxy(q) \/ RequestReturns(q)

Spec == Init /\ [][Next]_vars

\* The server's and the inner goroutine run and the timers fire; nothing is
\* assumed of the backend.
Fairness == \A q \in Requests : WF_vars(TimeoutHandler(q)) /\ WF_vars(RunProxy(q))

FairSpec == Spec /\ Fairness

-----------------------------------------------------------------------------
(* Properties                                                              *)

TypeOK ==
  /\ ctx \in [Requests -> Contexts \cup {NoContext}]
  /\ writer \in [Contexts -> Requests]
  /\ buffer \in [Requests -> Buffers \cup {NoBuffer}]
  /\ spare \subseteq Buffers
  /\ handler \in [Requests -> {"new", "select", "timedout", "done"}]
  /\ inner \in [Requests -> {"off", "select", "status", "body", "finish", "done"}]
  /\ backend \in [Requests -> {"off", "request", "result", "resultErr", "done"}]
  /\ answer \in [Requests -> {0, 200, 404, 500}]
  /\ status \in [Requests -> {200, 404, 500, 504}]
  /\ body \in [Buffers -> SUBSET Requests]
  /\ response \in [Requests -> [status : {0, 200, 404, 500, 504}, body : SUBSET Requests]]

\* A caller gets an answer of the backend of its own route and of no other
\* request, although requests are served one after the other with the same
\* context.
OwnAnswer == \A q \in Requests : response[q].body \subseteq {q}

\* The middleware gave the request up, or is about to.
TimedOut(q) == handler[q] = "timedout" \/ (handler[q] = "done" /\ inner[q] # "done")

\* What the goroutine of o writes, once o was given up, may come to q: through the
\* writer of q itself, or through the writer of a request of o's context that
\* used the buffer before q or after it.
Reaches(o, q) == \E r \in Requests : ctx[r] = ctx[o] /\ (r = q \/ buffer[r] = buffer[q])

\* A request that stays within its time limit is answered with what runProxy
\* decided for it, status and body of one outcome, unless a request that was
\* given up can reach it over a recycled context or a recycled buffer.
AnswerComplete ==
  \A q \in Requests :
    /\ handler[q] = "done" /\ ~TimedOut(q)
    /\ \A o \in Requests \ {q} : TimedOut(o) => ~Reaches(o, q)
    => response[q] = [status |-> answer[q], body |-> {q}]

\* A caller whose request was given up gets no body, and the status 504 or, when
\* a goroutine wrote its own after the middleware did, one that runProxy decided
\* for a request of this context that was given up; never the default 200.
GivenUpAnswer ==
  \A q \in Requests : handler[q] = "done" /\ TimedOut(q) =>
    /\ response[q].body = {}
    /\ \/ response[q].status = 504
       \/ \E o \in Requests :
            TimedOut(o) /\ ctx[o] = ctx[q] /\ answer[o] = response[q].status

\* A request whose backend answered leaves no goroutine behind unless the
\* middleware gave it up.
GoroutinesEnd ==
  \A q \in Requests : answer[q] = 200 ~> (inner[q] = "done" /\ backend[q] = "done") \/ TimedOut(q)

=============================================================================
