--------------------------- MODULE HttpProxyProofs ---------------------------
(***************************************************************************)
(* Theorems about HttpProxy, for any requests, contexts and buffers.       *)
(***************************************************************************)
EXTENDS HttpProxy, TLAPS

-----------------------------------------------------------------------------
(* Typing                                                                  *)

\* runProxy writes to the context of its request, and only after it decided for
\* an answer.
TypeInv ==
  /\ TypeOK
  /\ \A q \in Requests :
       /\ inner[q] # "off" => ctx[q] \in Contexts /\ buffer[q] \in Buffers
       /\ inner[q] \in {"status", "body", "finish"} => answer[q] # 0

LEMMA TypeInit == Init => TypeInv
<1> SUFFICES ASSUME Init
             PROVE  TypeInv
  OBVIOUS
<1>1. (CHOOSE q \in Requests : TRUE) \in Requests
  BY HttpAssumption
<1>2. QED
  BY <1>1 DEF Init, TypeInv, TypeOK, NoResponse

\* What the context of a goroutine leads to is a request.
LEMMA WriterTyped ==
  ASSUME TypeOK, NEW q \in Requests, ctx[q] # NoContext
  PROVE  Writer(q) \in Requests
BY DEF TypeOK, Writer

\* A goroutine of a request runs only after the request got its context and its
\* buffer.
HasContext ==
  \A q \in Requests :
    /\ handler[q] = "new" <=> ctx[q] = NoContext
    /\ handler[q] = "new" <=> buffer[q] = NoBuffer

Started ==
  \A q \in Requests :
    /\ handler[q] = "new" => inner[q] = "off"
    /\ handler[q] = "select" => inner[q] \in {"select", "status", "body", "finish"}
    /\ handler[q] = "timedout" => inner[q] # "done"
    /\ handler[q] # "done" => response[q] = NoResponse
    /\ handler[q] = "done" => response[q].status # 0
    /\ handler[q] # "new" => inner[q] # "off"
    /\ inner[q] \in {"off", "select"} => answer[q] = 0

\* The writer in a context is that of the last request served with it, and two
\* requests are not served with one context at the same time.
Contexted ==
  /\ \A q \in Requests : ctx[q] # NoContext => ctx[Writer(q)] = ctx[q]
  /\ \A q \in Requests : handler[q] = "select" => Writer(q) = q
  /\ \A q, o \in Requests :
       handler[q] = "select" /\ ctx[o] = ctx[q] /\ handler[o] # "done" => o = q

\* q is being served, or was given up and never put its buffer back.
Holds(q) == handler[q] # "new" /\ (handler[q] = "done" => inner[q] # "done")

\* A buffer that is held is handed out to nobody else.
Owned ==
  /\ \A q \in Requests : Holds(q) => buffer[q] \notin spare
  /\ \A q, o \in Requests : Holds(q) /\ Holds(o) /\ buffer[o] = buffer[q] => o = q

\* o was given up and wrote through a writer of its context into b.
WroteLate(o, b) == TimedOut(o) /\ \E r \in Requests : ctx[r] = ctx[o] /\ buffer[r] = b

\* What is in a buffer comes from the request that holds it, at the end of its
\* runProxy, or from one that was given up.
Origins ==
  \A b \in Buffers : \A o \in body[b] :
    WroteLate(o, b) \/ (handler[o] = "select" /\ inner[o] = "finish" /\ buffer[o] = b)

Filled ==
  \A q \in Requests : handler[q] = "select" /\ inner[q] = "finish" => q \in body[buffer[q]]

\* No other request that was given up reaches q.
Alone(q) == \A o \in Requests \ {q} : TimedOut(o) => ~Reaches(o, q)

\* What was written for a request that nobody disturbs.
Written ==
  \A q \in Requests : Alone(q) =>
    /\ handler[q] = "select" /\ inner[q] \in {"body", "finish"} => status[q] = answer[q]
    /\ handler[q] = "done" /\ inner[q] = "done" =>
         response[q] = [status |-> answer[q], body |-> {q}]

IInv ==
  TypeInv /\ HasContext /\ Started /\ Contexted /\ Owned /\ Origins /\ Filled /\ Written

LEMMA InvInit == Init => IInv
BY TypeInit, HttpAssumption DEF Init, IInv, TypeInv, HasContext, Started, Contexted, Holds, Owned,
   Origins, Filled, Written, NoResponse

-----------------------------------------------------------------------------
(* Each step keeps the invariant.                                          *)

\* A request that arrived keeps its context and its buffer, and one that was
\* given up stays so.
LEMMA GivenUpStays ==
  ASSUME IInv, Next
  PROVE  /\ \A o \in Requests : ctx[o] # NoContext => ctx'[o] = ctx[o] /\ buffer'[o] = buffer[o]
         /\ \A o \in Requests : TimedOut(o) => TimedOut(o)'
<1>1. ASSUME NEW o \in Requests, ctx[o] # NoContext
      PROVE  ctx'[o] = ctx[o] /\ buffer'[o] = buffer[o]
  <2>1. ASSUME NEW r \in Requests, Arrive(r)
        PROVE  ctx'[o] = ctx[o] /\ buffer'[o] = buffer[o]
    <3>1. ctx[r] = NoContext
      BY <2>1 DEF Arrive, IInv, HasContext
    <3>2. r # o
      BY <1>1, <3>1
    <3>3. QED
      BY <2>1, <3>2 DEF Arrive, IInv, TypeInv, TypeOK
  <2>2. QED
    BY <2>1 DEF Next, TimeoutHandler, TimeOut, Flush, Finished, RunProxy, Answer, GetResult,
                GetError, GetTimer, WriteStatus, WriteBody, RequestReturns
<1>2. \A o \in Requests : TimedOut(o) => TimedOut(o)'
  <2> SUFFICES ASSUME NEW o \in Requests, TimedOut(o)
               PROVE  TimedOut(o)'
    OBVIOUS
  <2>1. ASSUME NEW r \in Requests, Arrive(r)
        PROVE  TimedOut(o)'
    BY <2>1 DEF Arrive, TimedOut, IInv, TypeInv, TypeOK
  <2>2. ASSUME NEW r \in Requests, TimeoutHandler(r)
        PROVE  TimedOut(o)'
    BY <2>2 DEF TimeoutHandler, TimeOut, Flush, Finished, TimedOut, IInv, TypeInv, TypeOK, Started
  <2>3. ASSUME NEW r \in Requests, RunProxy(r) \/ RequestReturns(r)
        PROVE  TimedOut(o)'
    BY <2>3 DEF RunProxy, RequestReturns, Answer, GetResult, GetError, GetTimer, WriteStatus,
                WriteBody, TimedOut, IInv, TypeInv, TypeOK
  <2>4. QED
    BY <2>1, <2>2, <2>3 DEF Next
<1>3. QED
  BY <1>1, <1>2

\* Who was given up has a context.
LEMMA GivenUpContext ==
  ASSUME IInv, NEW o \in Requests, TimedOut(o)
  PROVE  ctx[o] \in Contexts /\ ctx[o] # NoContext
BY HttpAssumption DEF IInv, HasContext, TypeInv, TypeOK, TimedOut

\* Where a request that was given up has written it reaches for ever.
LEMMA ReachesOn ==
  ASSUME IInv, Next, NEW o \in Requests, TimedOut(o)
  PROVE  /\ TimedOut(o)'
         /\ \A q \in Requests : ctx[q] # NoContext /\ Reaches(o, q) => Reaches(o, q)'
         /\ \A b \in Buffers : WroteLate(o, b) => WroteLate(o, b)'
<1>1. ctx[o] # NoContext /\ TimedOut(o)' /\ ctx'[o] = ctx[o]
  BY GivenUpContext, GivenUpStays
<1>2. \A r \in Requests : ctx[r] = ctx[o] => ctx'[r] = ctx'[o] /\ buffer'[r] = buffer[r]
  BY <1>1, GivenUpStays
<1>3. \A q \in Requests : ctx[q] # NoContext => buffer'[q] = buffer[q]
  BY GivenUpStays
<1>4. QED
  BY <1>1, <1>2, <1>3 DEF Reaches, WroteLate

\* Who is alone after a step was so before.
LEMMA AloneBefore ==
  ASSUME IInv, Next, NEW q \in Requests, ctx[q] # NoContext, Alone(q)'
  PROVE  Alone(q)
<1> SUFFICES ASSUME NEW o \in Requests \ {q}, TimedOut(o), Reaches(o, q)
             PROVE  FALSE
  BY DEF Alone
<1>1. TimedOut(o)' /\ Reaches(o, q)'
  BY ReachesOn
<1>2. QED
  BY <1>1 DEF Alone

LEMMA BodyTyped ==
  ASSUME body \in [Buffers -> SUBSET Requests], NEW q \in Requests, WriteBody(q)
  PROVE  body' \in [Buffers -> SUBSET Requests]
<1>1. PICK b : b = buffer[Writer(q)]
  OBVIOUS
<1>2. body' = [body EXCEPT ![b] = @ \cup {q}]
  BY <1>1 DEF WriteBody
<1>3. QED
  BY <1>2

LEMMA TypeStep == TypeInv /\ [Next]_vars => TypeInv'
<1> SUFFICES ASSUME TypeInv, [Next]_vars
             PROVE  TypeInv'
  OBVIOUS
<1> USE DEF TypeInv, TypeOK
<1>1. ASSUME NEW q \in Requests, Arrive(q)
      PROVE  TypeInv'
  BY <1>1 DEF Arrive, FreeContexts
<1>2. ASSUME NEW q \in Requests, TimeOut(q)
      PROVE  TypeInv'
  BY <1>2 DEF TimeOut, WriteHeader
<1>3. ASSUME NEW q \in Requests, NEW b \in SUBSET Requests, Respond(q, b)
      PROVE  response' \in [Requests -> [status : {0, 200, 404, 500, 504}, body : SUBSET Requests]]
  BY <1>3 DEF Respond
<1>4. ASSUME NEW q \in Requests, Flush(q)
      PROVE  TypeInv'
  BY <1>3, <1>4 DEF Flush
<1>5. ASSUME NEW q \in Requests, Finished(q)
      PROVE  TypeInv'
  <2>1. buffer[q] \in Buffers /\ body[buffer[q]] \in SUBSET Requests
    BY <1>5 DEF Finished
  <2>2. QED
    BY <1>3, <1>5, <2>1 DEF Finished
<1>6. ASSUME NEW q \in Requests, GetResult(q) \/ GetError(q) \/ GetTimer(q) \/ RequestReturns(q)
      PROVE  TypeInv'
  <2>1. CASE GetResult(q)
    BY <2>1 DEF GetResult, Answer
  <2>2. CASE GetError(q)
    BY <2>2 DEF GetError, Answer
  <2>3. CASE GetTimer(q)
    BY <2>3 DEF GetTimer, Answer
  <2>4. CASE RequestReturns(q)
    BY <2>4 DEF RequestReturns
  <2>5. QED
    BY <1>6, <2>1, <2>2, <2>3, <2>4
<1>7. ASSUME NEW q \in Requests, WriteStatus(q)
      PROVE  TypeInv'
  <2>1. answer[q] \in {200, 404, 500} /\ Writer(q) \in Requests
    BY <1>7 DEF WriteStatus, Writer
  <2>2. [status EXCEPT ![Writer(q)] = answer[q]] \in [Requests -> {200, 404, 500, 504}]
    BY <2>1
  <2>3. status' \in [Requests -> {200, 404, 500, 504}]
    BY <1>7, <2>2, Zenon DEF WriteStatus, WriteHeader
  <2>4. inner' = [inner EXCEPT ![q] = "body"] /\ inner[q] = "status"
    BY <1>7 DEF WriteStatus
  <2>5. UNCHANGED <<ctx, writer, buffer, spare, handler, backend, answer, body, response>>
    BY <1>7 DEF WriteStatus
  <2>6. QED
    BY <2>3, <2>4, <2>5
<1>8. ASSUME NEW q \in Requests, WriteBody(q)
      PROVE  TypeInv'
  <2>1. body' \in [Buffers -> SUBSET Requests]
    BY <1>8, BodyTyped
  <2>2. UNCHANGED <<ctx, writer, buffer, spare, handler, backend, answer, status, response>>
    BY <1>8 DEF WriteBody
  <2>3. QED
    BY <1>8, <2>1, <2>2 DEF WriteBody
<1>9. CASE UNCHANGED vars
  BY <1>9 DEF vars
<1>10. QED
  BY <1>1, <1>2, <1>4, <1>5, <1>6, <1>7, <1>8, <1>9
     DEF Next, TimeoutHandler, RunProxy

\* A response goes to its caller only.
LEMMA RespondFacts ==
  ASSUME TypeOK, NEW q \in Requests, NEW b, Respond(q, b)
  PROVE  /\ \A o \in Requests \ {q} : response'[o] = response[o]
         /\ response'[q] = [status |-> status[q], body |-> b]
BY DEF Respond, TypeOK

LEMMA StatusSet ==
  ASSUME TypeOK
  PROVE  \A q \in Requests : status[q] # 0
BY DEF TypeOK

LEMMA FlushFacts ==
  ASSUME TypeOK, NEW q \in Requests, Flush(q)
  PROVE  /\ handler[q] = "timedout" /\ handler'[q] = "done"
         /\ \A o \in Requests \ {q} : handler'[o] = handler[o] /\ response'[o] = response[o]
         /\ response'[q] = [status |-> status[q], body |-> {}]
         /\ UNCHANGED <<ctx, writer, buffer, spare, inner, answer, status, body>>
<1>1. Respond(q, {})
  BY DEF Flush
<1>2. /\ \A o \in Requests \ {q} : response'[o] = response[o]
      /\ response'[q] = [status |-> status[q], body |-> {}]
  BY <1>1, RespondFacts
<1>3. /\ handler[q] = "timedout" /\ handler' = [handler EXCEPT ![q] = "done"]
      /\ UNCHANGED <<ctx, writer, buffer, spare, inner, answer, status, body>>
  BY DEF Flush
<1>4. QED
  BY <1>2, <1>3 DEF TypeOK

LEMMA FinishedFacts ==
  ASSUME TypeOK, NEW q \in Requests, Finished(q)
  PROVE  /\ handler[q] = "select" /\ inner[q] = "finish"
         /\ handler'[q] = "done" /\ inner'[q] = "done"
         /\ \A o \in Requests \ {q} : /\ handler'[o] = handler[o] /\ inner'[o] = inner[o]
                                     /\ response'[o] = response[o]
         /\ response'[q] = [status |-> status[q], body |-> body[buffer[q]]]
         /\ UNCHANGED <<ctx, writer, buffer, answer, status>>
<1>1. Respond(q, body[buffer[q]])
  BY DEF Finished
<1>2. /\ \A o \in Requests \ {q} : response'[o] = response[o]
      /\ response'[q] = [status |-> status[q], body |-> body[buffer[q]]]
  BY <1>1, RespondFacts
<1>3. /\ handler[q] = "select" /\ inner[q] = "finish"
      /\ handler' = [handler EXCEPT ![q] = "done"] /\ inner' = [inner EXCEPT ![q] = "done"]
      /\ UNCHANGED <<ctx, writer, buffer, answer, status>>
  BY DEF Finished
<1>4. QED
  BY <1>2, <1>3 DEF TypeOK

LEMMA AnsweredFacts ==
  ASSUME TypeOK, NEW q \in Requests, Flush(q) \/ Finished(q)
  PROVE  /\ \A o \in Requests \ {q} : response'[o] = response[o]
         /\ response'[q].status = status[q]
<1>1. CASE Flush(q)
  <2>1. /\ \A o \in Requests \ {q} : response'[o] = response[o]
        /\ response'[q] = [status |-> status[q], body |-> {}]
    BY <1>1, FlushFacts
  <2>2. QED
    BY <2>1
<1>2. CASE Finished(q)
  <2>1. /\ \A o \in Requests \ {q} : response'[o] = response[o]
        /\ response'[q] = [status |-> status[q], body |-> body[buffer[q]]]
    BY <1>2, FinishedFacts
  <2>2. QED
    BY <2>1
<1>3. QED
  BY <1>1, <1>2

\* The parts of the invariant that say who runs with which context.
LEMMA ContextStep ==
  ASSUME IInv, Next
  PROVE  HasContext' /\ Started' /\ Contexted'
<1> USE DEF TypeOK, HasContext, Started, Contexted, Writer
<1>0. TypeInv /\ TypeOK /\ HasContext /\ Started /\ Contexted
  BY DEF IInv, TypeInv
<1>1. ASSUME NEW q \in Requests, Arrive(q)
      PROVE  HasContext' /\ Started' /\ Contexted'
  <2>1. PICK k \in FreeContexts : ctx' = [ctx EXCEPT ![q] = k] /\ writer' = [writer EXCEPT ![k] = q]
    BY <1>1 DEF Arrive
  <2>2. k \in Contexts /\ k # NoContext /\ \A o \in Requests : ctx[o] = k => handler[o] = "done"
    BY <2>1, HttpAssumption DEF FreeContexts
  <2>3. /\ handler[q] = "new" /\ ctx[q] = NoContext
        /\ handler' = [handler EXCEPT ![q] = "select"] /\ inner' = [inner EXCEPT ![q] = "select"]
        /\ UNCHANGED <<answer, response>>
    BY <1>0, <1>1 DEF Arrive
  <2>4. HasContext' /\ Started'
    <3>1. PICK b \in spare : buffer' = [buffer EXCEPT ![q] = b]
      BY <1>1 DEF Arrive
    <3>2. b # NoBuffer
      BY <1>0, <3>1, HttpAssumption
    <3>3. answer[q] = 0
      BY <1>0, <2>3
    <3>4. QED
      BY <1>0, <2>1, <2>2, <2>3, <3>1, <3>2, <3>3
  <2>5. Contexted'
    <3>1. \A o \in Requests : ctx[o] = k => handler[o] = "done"
      BY <2>2
    <3>2. \A o \in Requests \ {q} : ctx'[o] = ctx[o] /\ handler'[o] = handler[o]
      BY <1>0, <2>1, <2>3
    <3>3. ctx'[q] = k /\ writer'[k] = q /\ handler'[q] = "select"
      BY <1>0, <2>1, <2>2, <2>3
    <3>4. \A c \in Contexts \ {k} : writer'[c] = writer[c]
      BY <1>0, <2>1
    <3>5. \A o \in Requests : ctx'[o] # NoContext => ctx'[writer'[ctx'[o]]] = ctx'[o]
      <4>1. \A o \in Requests \ {q} : ctx[o] # NoContext => writer[ctx[o]] # q
        BY <1>0, <2>3
      <4>2. \A o \in Requests \ {q} : ctx[o] # NoContext => ctx[o] \in Contexts /\ writer[ctx[o]] \in Requests
        BY <1>0
      <4>3. \A o \in Requests \ {q} : ctx'[o] # NoContext /\ ctx[o] # k => ctx'[writer'[ctx'[o]]] = ctx'[o]
        BY <1>0, <3>2, <3>4, <4>1, <4>2
      <4>4. \A o \in Requests : ctx'[o] = k => ctx'[writer'[ctx'[o]]] = ctx'[o]
        BY <3>3
      <4>5. QED
        BY <3>2, <3>3, <4>3, <4>4
    <3>6. \A o \in Requests : handler'[o] = "select" => writer'[ctx'[o]] = o
      BY <1>0, <3>1, <3>2, <3>3, <3>4
    <3>7. \A r, o \in Requests :
            handler'[r] = "select" /\ ctx'[o] = ctx'[r] /\ handler'[o] # "done" => o = r
      BY <1>0, <3>1, <3>2, <3>3
    <3>8. QED
      BY <3>5, <3>6, <3>7
  <2>6. QED
    BY <2>4, <2>5
<1>2. ASSUME NEW q \in Requests, TimeOut(q)
      PROVE  HasContext' /\ Started' /\ Contexted'
  BY <1>0, <1>2 DEF TimeOut
<1>3. ASSUME NEW q \in Requests, Flush(q) \/ Finished(q)
      PROVE  HasContext' /\ Started' /\ Contexted'
  <2>1. /\ \A o \in Requests \ {q} : response'[o] = response[o]
        /\ response'[q].status = status[q] /\ status[q] # 0
    BY <1>0, <1>3, StatusSet, AnsweredFacts
  <2>2. /\ handler[q] \in {"timedout", "select"} /\ handler' = [handler EXCEPT ![q] = "done"]
        /\ UNCHANGED <<ctx, writer, buffer, answer>>
        /\ \A o \in Requests \ {q} : inner'[o] = inner[o]
        /\ inner[q] # "off" /\ inner'[q] \in {inner[q], "done"}
    BY <1>0, <1>3 DEF Flush, Finished
  <2>3. HasContext' /\ Contexted'
    BY <1>0, <2>2
  <2>4. Started'
    BY <1>0, <2>1, <2>2
  <2>5. QED
    BY <2>3, <2>4
<1>4. ASSUME NEW q \in Requests, GetResult(q) \/ GetError(q) \/ GetTimer(q) \/ RequestReturns(q)
      PROVE  HasContext' /\ Started' /\ Contexted'
  BY <1>0, <1>4 DEF GetResult, GetError, GetTimer, RequestReturns, Answer
<1>5. ASSUME NEW q \in Requests, WriteStatus(q)
      PROVE  HasContext' /\ Started' /\ Contexted'
  BY <1>0, <1>5 DEF WriteStatus
<1>6. ASSUME NEW q \in Requests, WriteBody(q)
      PROVE  HasContext' /\ Started' /\ Contexted'
  BY <1>0, <1>6 DEF WriteBody
<1>7. QED
  BY <1>1, <1>2, <1>3, <1>4, <1>5, <1>6 DEF Next, TimeoutHandler, RunProxy

-----------------------------------------------------------------------------
(* Buffers                                                                 *)

\* The steps that take no buffer and put none back.
LEMMA BuffersKept ==
  ASSUME Next, ~\E q \in Requests : Arrive(q) \/ Finished(q)
  PROVE  UNCHANGED <<ctx, buffer, spare>>
BY DEF Next, TimeoutHandler, TimeOut, Flush, RunProxy, Answer, GetResult, GetError, GetTimer,
       WriteStatus, WriteBody, RequestReturns

\* Nobody comes to hold a buffer but by taking it.
LEMMA HoldsBefore ==
  ASSUME IInv, Next, NEW q \in Requests, Holds(q)', ~Arrive(q)
  PROVE  Holds(q)
<1>0. TypeOK /\ Started
  BY DEF IInv, TypeInv
<1>1. ASSUME NEW r \in Requests, Arrive(r)
      PROVE  Holds(q)
  <2>1. r # q
    BY <1>1
  <2>2. handler' = [handler EXCEPT ![r] = "select"] /\ inner' = [inner EXCEPT ![r] = "select"]
    BY <1>1 DEF Arrive
  <2>3. QED
    BY <1>0, <2>1, <2>2 DEF Holds, TypeOK
<1>2. ASSUME NEW r \in Requests, TimeoutHandler(r)
      PROVE  Holds(q)
  <2>1. CASE TimeOut(r)
    BY <1>0, <2>1 DEF TimeOut, Holds, TypeOK
  <2>2. CASE Flush(r)
    BY <1>0, <2>2, FlushFacts DEF Holds, Started
  <2>3. CASE Finished(r)
    BY <1>0, <2>3, FinishedFacts DEF Holds
  <2>4. QED
    BY <1>2, <2>1, <2>2, <2>3 DEF TimeoutHandler
<1>3. ASSUME NEW r \in Requests, RunProxy(r) \/ RequestReturns(r)
      PROVE  Holds(q)
  BY <1>0, <1>3 DEF RunProxy, RequestReturns, Answer, GetResult, GetError, GetTimer, WriteStatus,
                    WriteBody, Holds, TypeOK
<1>4. QED
  BY <1>1, <1>2, <1>3 DEF Next

LEMMA OwnedStep ==
  ASSUME IInv, Next
  PROVE  Owned'
<1>0. TypeOK /\ HasContext /\ Owned
  BY DEF IInv, TypeInv
<1>1. ASSUME NEW q \in Requests, Arrive(q)
      PROVE  Owned'
  <2>1. PICK b \in spare : buffer' = [buffer EXCEPT ![q] = b] /\ spare' = spare \ {b}
    BY <1>1 DEF Arrive
  <2>2. \A o \in Requests \ {q} : Holds(o)' => Holds(o) /\ buffer'[o] = buffer[o]
    BY <1>0, <1>1, <2>1 DEF Arrive, Holds, TypeOK
  <2>3. buffer'[q] = b
    BY <1>0, <2>1 DEF TypeOK
  <2>4. QED
    BY <1>0, <2>1, <2>2, <2>3 DEF Owned
<1>2. ASSUME NEW q \in Requests, Finished(q)
      PROVE  Owned'
  <2>1. /\ UNCHANGED buffer /\ spare' = spare \cup {buffer[q]}
        /\ Holds(q) /\ ~Holds(q)'
        /\ \A o \in Requests : Holds(o)' => Holds(o)
    BY <1>0, <1>2 DEF Finished, Holds, TypeOK
  <2>2. QED
    BY <1>0, <2>1 DEF Owned
<1>3. ASSUME ~\E q \in Requests : Arrive(q) \/ Finished(q)
      PROVE  Owned'
  <2>1. UNCHANGED <<ctx, buffer, spare>>
    BY <1>3, BuffersKept
  <2>2. \A o \in Requests : Holds(o)' => Holds(o)
    BY <1>3, HoldsBefore
  <2>3. QED
    BY <1>0, <2>1, <2>2 DEF Owned
<1>4. QED
  BY <1>1, <1>2, <1>3

\* A goroutine at its write writes late or into the buffer of its own request.
LEMMA WhoWrites ==
  ASSUME IInv, NEW o \in Requests, inner[o] \in {"status", "body"}
  PROVE  /\ Writer(o) \in Requests /\ ctx[o] # NoContext /\ ctx[Writer(o)] = ctx[o]
         /\ buffer[Writer(o)] \in Buffers
         /\ TimedOut(o) \/ (handler[o] = "select" /\ Writer(o) = o)
<1>1. ctx[o] # NoContext /\ handler[o] # "new"
  BY HttpAssumption DEF IInv, TypeInv, TypeOK, HasContext
<1>2. Writer(o) \in Requests /\ ctx[Writer(o)] = ctx[o]
  BY <1>1, WriterTyped DEF IInv, TypeInv, Contexted
<1>3. buffer[Writer(o)] \in Buffers
  BY <1>1, <1>2 DEF IInv, TypeInv, TypeOK, HasContext
<1>4. TimedOut(o) \/ (handler[o] = "select" /\ Writer(o) = o)
  BY <1>1 DEF IInv, TypeInv, TypeOK, Contexted, TimedOut
<1>5. QED
  BY <1>1, <1>2, <1>3, <1>4

\* The origin of what is in a buffer stays unless the buffer is emptied.
OriginOK(o, b) ==
  WroteLate(o, b) \/ (handler[o] = "select" /\ inner[o] = "finish" /\ buffer[o] = b)

LEMMA OriginStays ==
  ASSUME IInv, Next, NEW o \in Requests, NEW b \in Buffers, OriginOK(o, b),
         ~(Finished(o) /\ buffer[o] = b)
  PROVE  OriginOK(o, b)'
<1>0. TypeOK /\ Started /\ HasContext
  BY DEF IInv, TypeInv
<1>1. CASE WroteLate(o, b)
  BY <1>1, ReachesOn DEF WroteLate, OriginOK
<1>2. CASE handler[o] = "select" /\ inner[o] = "finish" /\ buffer[o] = b
  <2>1. ctx[o] # NoContext /\ buffer'[o] = b /\ ctx'[o] = ctx[o]
    BY <1>0, <1>2, GivenUpStays DEF HasContext
  <2>2. ASSUME NEW r \in Requests, TimeOut(r)
        PROVE  OriginOK(o, b)'
    <3>1. CASE r = o
      <4>1. handler'[o] = "timedout"
        BY <1>0, <2>2, <3>1 DEF TimeOut, TypeOK
      <4>2. QED
        BY <2>1, <4>1 DEF OriginOK, WroteLate, TimedOut
    <3>2. CASE r # o
      BY <1>0, <1>2, <2>1, <2>2, <3>2 DEF TimeOut, OriginOK, TypeOK
    <3>3. QED
      BY <3>1, <3>2
  <2>3. ASSUME NEW r \in Requests, Arrive(r) \/ Flush(r) \/ Finished(r)
        PROVE  OriginOK(o, b)'
    <3>1. r # o
      BY <1>2, <2>3 DEF Arrive, Flush
    <3>2. handler'[o] = handler[o] /\ inner'[o] = inner[o]
      BY <1>0, <2>3, <3>1 DEF Arrive, Flush, Finished, TypeOK
    <3>3. QED
      BY <1>2, <2>1, <3>2 DEF OriginOK
  <2>4. ASSUME NEW r \in Requests, RunProxy(r) \/ RequestReturns(r)
        PROVE  OriginOK(o, b)'
    <3>1. handler'[o] = handler[o] /\ inner'[o] = inner[o]
      BY <1>0, <1>2, <2>4 DEF RunProxy, RequestReturns, Answer, GetResult, GetError, GetTimer,
         WriteStatus, WriteBody, TypeOK
    <3>2. QED
      BY <1>2, <2>1, <3>1 DEF OriginOK
  <2>5. QED
    BY <2>2, <2>3, <2>4 DEF Next, TimeoutHandler
<1>3. QED
  BY <1>1, <1>2 DEF OriginOK

\* What a step does to the bodies in the buffers.
LEMMA BodyStep ==
  ASSUME IInv, Next, NEW b \in Buffers, NEW o \in body'[b]
  PROVE  \/ o \in body[b] /\ ~(Finished(o) /\ buffer[o] = b)
         \/ WriteBody(o) /\ o \in Requests /\ buffer[Writer(o)] = b
<1>0. TypeOK
  BY DEF IInv, TypeInv
<1>1. ASSUME NEW q \in Requests, Arrive(q)
      PROVE  o \in body[b] /\ ~(Finished(o) /\ buffer[o] = b)
  <2>1. o \in body[b]
    BY <1>0, <1>1 DEF Arrive, TypeOK
  <2>2. ~Finished(o)
    BY <1>0, <1>1, <2>1 DEF Arrive, Finished, TypeOK
  <2>3. QED
    BY <2>1, <2>2
<1>2. ASSUME NEW q \in Requests, Finished(q)
      PROVE  o \in body[b] /\ ~(Finished(o) /\ buffer[o] = b)
  <2>1. b # buffer[q] /\ o \in body[b]
    BY <1>0, <1>2 DEF Finished, TypeOK
  <2>2. Finished(o) => o = q
    BY <1>0, <1>2, <2>1 DEF Finished, TypeOK
  <2>3. QED
    BY <2>1, <2>2
<1>3. ASSUME NEW q \in Requests, WriteBody(q)
      PROVE  \/ o \in body[b] /\ ~(Finished(o) /\ buffer[o] = b)
             \/ WriteBody(o) /\ o \in Requests /\ buffer[Writer(o)] = b
  <2>1. o \in body[b] \/ (o = q /\ buffer[Writer(q)] = b)
    BY <1>0, <1>3 DEF WriteBody, TypeOK
  <2>2. o \in Requests => ~Finished(o)
    BY <1>0, <1>3 DEF WriteBody, Finished, TypeOK
  <2>3. o \in Requests
    BY <1>0, <2>1 DEF TypeOK
  <2>4. QED
    BY <1>3, <2>1, <2>2, <2>3
<1>4. ASSUME UNCHANGED body, ~\E q \in Requests : Finished(q)
      PROVE  o \in body[b] /\ ~(Finished(o) /\ buffer[o] = b)
  BY <1>0, <1>4 DEF TypeOK
<1>5. QED
  BY <1>1, <1>2, <1>3, <1>4 DEF Next, TimeoutHandler, RunProxy, TimeOut, Flush, GetResult,
     GetError, GetTimer, Answer, WriteStatus, RequestReturns

LEMMA OriginsStep ==
  ASSUME IInv, Next
  PROVE  Origins'
<1> SUFFICES ASSUME NEW b \in Buffers, NEW o \in body'[b]
             PROVE  OriginOK(o, b)'
  BY DEF Origins, OriginOK
<1>1. CASE o \in body[b] /\ ~(Finished(o) /\ buffer[o] = b)
  <2>1. o \in Requests /\ OriginOK(o, b)
    BY <1>1 DEF IInv, TypeInv, TypeOK, Origins, OriginOK
  <2>2. QED
    BY <1>1, <2>1, OriginStays
<1>2. CASE WriteBody(o) /\ o \in Requests /\ buffer[Writer(o)] = b
  <2>1. inner[o] = "body" /\ inner'[o] = "finish" /\ UNCHANGED <<ctx, buffer, handler>>
    BY <1>2 DEF WriteBody, IInv, TypeInv, TypeOK
  <2>2. CASE TimedOut(o)
    <3>1. WroteLate(o, b)
      BY <1>2, <2>1, <2>2, WhoWrites DEF WroteLate
    <3>2. QED
      BY <1>2, <2>2, <3>1, ReachesOn DEF OriginOK
  <2>3. CASE handler[o] = "select" /\ Writer(o) = o
    BY <1>2, <2>1, <2>3 DEF OriginOK
  <2>4. QED
    BY <1>2, <2>1, <2>2, <2>3, WhoWrites
<1>3. QED
  BY <1>1, <1>2, BodyStep

LEMMA FilledStep ==
  ASSUME IInv, Next
  PROVE  Filled'
<1> SUFFICES ASSUME NEW q \in Requests, handler'[q] = "select", inner'[q] = "finish"
             PROVE  q \in body'[buffer'[q]]
  BY DEF Filled
<1>0. TypeOK /\ HasContext /\ Owned /\ Filled /\ Contexted
  BY DEF IInv, TypeInv
<1>1. ASSUME NEW r \in Requests, WriteBody(r)
      PROVE  q \in body'[buffer'[q]]
  <2>1. handler[q] = "select" /\ UNCHANGED buffer /\ Writer(q) = q /\ buffer[q] \in Buffers
    BY <1>0, <1>1 DEF WriteBody, Contexted, HasContext, TypeOK
  <2>2. CASE r = q
    BY <1>0, <1>1, <2>1, <2>2 DEF WriteBody, TypeOK
  <2>3. CASE r # q
    BY <1>0, <1>1, <2>1, <2>3 DEF WriteBody, TypeOK, Filled
  <2>4. QED
    BY <2>2, <2>3
<1>2. ASSUME NEW r \in Requests, Arrive(r)
      PROVE  q \in body'[buffer'[q]]
  <2>1. r # q /\ handler[q] = "select" /\ inner[q] = "finish"
    BY <1>0, <1>2 DEF Arrive, TypeOK
  <2>2. buffer'[q] = buffer[q] /\ buffer[q] \notin spare /\ buffer[q] \in Buffers
    BY <1>0, <1>2, <2>1 DEF Arrive, TypeOK, HasContext, Owned, Holds
  <2>3. body'[buffer[q]] = body[buffer[q]]
    BY <1>0, <1>2, <2>2 DEF Arrive, TypeOK
  <2>4. QED
    BY <1>0, <2>1, <2>2, <2>3 DEF Filled
<1>3. ASSUME NEW r \in Requests, Finished(r)
      PROVE  q \in body'[buffer'[q]]
  <2>1. r # q /\ handler[q] = "select" /\ inner[q] = "finish" /\ UNCHANGED buffer
    BY <1>0, <1>3 DEF Finished, TypeOK
  <2>2. buffer[q] # buffer[r] /\ buffer[q] \in Buffers
    BY <1>0, <1>3, <2>1 DEF Finished, HasContext, Owned, Holds, TypeOK
  <2>3. body'[buffer[q]] = body[buffer[q]]
    BY <1>0, <1>3, <2>2 DEF Finished, TypeOK
  <2>4. QED
    BY <1>0, <2>1, <2>3 DEF Filled
<1>4. ASSUME NEW r \in Requests, TimeOut(r) \/ Flush(r) \/ RequestReturns(r)
      PROVE  q \in body'[buffer'[q]]
  BY <1>0, <1>4 DEF TimeOut, Flush, RequestReturns, Filled, TypeOK
<1>5. ASSUME NEW r \in Requests, GetResult(r) \/ GetError(r) \/ GetTimer(r) \/ WriteStatus(r)
      PROVE  q \in body'[buffer'[q]]
  BY <1>0, <1>5 DEF GetResult, GetError, GetTimer, Answer, WriteStatus, Filled, TypeOK
<1>6. QED
  BY <1>1, <1>2, <1>3, <1>4, <1>5 DEF Next, TimeoutHandler, RunProxy

\* What is in the buffer of a request that is alone, when it is sent.
LEMMA AloneBody ==
  ASSUME IInv, NEW q \in Requests, Alone(q), handler[q] = "select", inner[q] = "finish"
  PROVE  body[buffer[q]] = {q}
<1>0. TypeOK /\ Origins /\ Owned /\ Filled /\ HasContext
  BY DEF IInv, TypeInv
<1>1. buffer[q] \in Buffers
  BY <1>0 DEF HasContext, TypeOK
<1>2. ASSUME NEW o \in body[buffer[q]], o # q
      PROVE  FALSE
  <2>1. o \in Requests
    BY <1>0, <1>1 DEF TypeOK
  <2>2. CASE WroteLate(o, buffer[q])
    BY <1>2, <2>1, <2>2 DEF WroteLate, Alone, Reaches
  <2>3. CASE handler[o] = "select" /\ buffer[o] = buffer[q]
    BY <1>0, <1>2, <2>1, <2>3 DEF Owned, Holds
  <2>4. QED
    BY <1>0, <1>1, <2>2, <2>3 DEF Origins
<1>3. q \in body[buffer[q]]
  BY <1>0 DEF Filled
<1>4. QED
  BY <1>2, <1>3

LEMMA WrittenStep ==
  ASSUME IInv, Next
  PROVE  Written'
<1> DEFINE Goal(q) ==
      /\ handler[q] = "select" /\ inner[q] \in {"body", "finish"} => status[q] = answer[q]
      /\ handler[q] = "done" /\ inner[q] = "done" =>
           response[q] = [status |-> answer[q], body |-> {q}]
<1> SUFFICES ASSUME NEW q \in Requests, Alone(q)'
             PROVE  Goal(q)'
  BY DEF Written
<1>0. /\ TypeInv /\ TypeOK /\ Started /\ Written /\ HasContext /\ Contexted
  BY DEF IInv, TypeInv
<1>1. CASE ctx[q] = NoContext
  <2>1. handler[q] = "new" /\ inner[q] = "off"
    BY <1>0, <1>1 DEF HasContext, Started
  <2>2. handler'[q] = "new" \/ inner'[q] = "select"
    <3>1. ASSUME NEW o \in Requests, Arrive(o)
          PROVE  handler'[q] = "new" \/ inner'[q] = "select"
      BY <1>0, <2>1, <3>1 DEF Arrive, TypeOK
    <3>2. ASSUME ~\E o \in Requests : Arrive(o)
          PROVE  handler'[q] = "new"
      BY <1>0, <2>1, <3>2 DEF Next, TimeoutHandler, TimeOut, Flush, Finished, RunProxy, Answer,
            GetResult, GetError, GetTimer, WriteStatus, WriteBody, RequestReturns, TypeOK
    <3>3. QED
      BY <3>1, <3>2
  <2>3. QED
    BY <2>2
<1>2. CASE ctx[q] # NoContext
  <2>1. Alone(q) /\ handler[q] # "new" /\ Goal(q)
    BY <1>0, <1>2, AloneBefore DEF Written, HasContext
  <2>2. ASSUME NEW o \in Requests, Arrive(o)
        PROVE  Goal(q)'
    <3>1. o # q
      BY <2>1, <2>2 DEF Arrive
    <3>2. QED
      BY <1>0, <2>1, <2>2, <3>1 DEF Arrive, TypeOK
  <2>3. ASSUME NEW o \in Requests, TimeOut(o)
        PROVE  Goal(q)'
    BY <1>0, <2>1, <2>3 DEF TimeOut, WriteHeader, Started, TypeOK
  <2>4. ASSUME NEW o \in Requests, Flush(o)
        PROVE  Goal(q)'
    <3>1. CASE o = q
      BY <1>0, <2>4, <3>1, FlushFacts DEF Started
    <3>2. CASE o # q
      BY <1>0, <2>1, <2>4, <3>2, FlushFacts
    <3>3. QED
      BY <3>1, <3>2
  <2>5. ASSUME NEW o \in Requests, Finished(o)
        PROVE  Goal(q)'
    <3>1. CASE o = q
      <4>1. body[buffer[q]] = {q} /\ status[q] = answer[q]
        BY <2>1, <2>5, <3>1, AloneBody DEF Finished
      <4>2. response'[q] = [status |-> answer'[q], body |-> {q}]
        BY <1>0, <2>5, <3>1, <4>1, FinishedFacts
      <4>3. handler'[q] = "done"
        BY <1>0, <2>5, <3>1, FinishedFacts
      <4>4. QED
        BY <4>2, <4>3
    <3>2. CASE o # q
      <4>1. /\ handler'[q] = handler[q] /\ inner'[q] = inner[q] /\ response'[q] = response[q]
            /\ UNCHANGED <<status, answer>>
        BY <1>0, <2>5, <3>2, FinishedFacts
      <4>2. QED
        BY <2>1, <4>1
    <3>3. QED
      BY <3>1, <3>2
  <2>6. ASSUME NEW o \in Requests, RequestReturns(o)
        PROVE  Goal(q)'
    BY <2>1, <2>6 DEF RequestReturns
  <2>7. ASSUME NEW o \in Requests, NEW c, Answer(o, c)
        PROVE  Goal(q)'
    <3>1. /\ inner[o] = "select" /\ inner' = [inner EXCEPT ![o] = "status"]
          /\ answer' = [answer EXCEPT ![o] = c] /\ UNCHANGED <<handler, status, response>>
      BY <2>7 DEF Answer
    <3>2. QED
      BY <1>0, <2>1, <3>1 DEF TypeOK
  <2>8. ASSUME NEW o \in Requests, WriteStatus(o)
        PROVE  Goal(q)'
    <3>1. /\ inner[o] = "status" /\ inner' = [inner EXCEPT ![o] = "body"]
          /\ WriteHeader(Writer(o), answer[o]) /\ UNCHANGED <<handler, answer, response>>
      BY <2>8 DEF WriteStatus
    <3>2. CASE handler[q] # "select"
      BY <1>0, <2>1, <3>1, <3>2 DEF TypeOK
    <3>3. CASE handler[q] = "select" /\ Writer(o) = q
      <4>1. o = q
        BY <2>1, <3>1, <3>3, WhoWrites DEF Alone, Reaches
      <4>2. response[q] = NoResponse
        BY <1>0, <3>3 DEF Started
      <4>3. status'[q] = answer[q]
        BY <1>0, <3>1, <3>3, <4>1, <4>2 DEF WriteHeader, TypeOK
      <4>4. QED
        BY <3>1, <3>3, <4>3
    <3>4. CASE handler[q] = "select" /\ Writer(o) # q
      <4>1. o # q
        BY <1>0, <3>4 DEF Contexted
      <4>2. status'[q] = status[q] /\ inner'[q] = inner[q]
        BY <1>0, <3>1, <3>4, <4>1, WhoWrites DEF WriteHeader, TypeOK
      <4>3. QED
        BY <2>1, <3>1, <3>4, <4>2
    <3>5. QED
      BY <3>2, <3>3, <3>4
  <2>9. ASSUME NEW o \in Requests, WriteBody(o)
        PROVE  Goal(q)'
    <3>1. /\ inner[o] = "body" /\ inner' = [inner EXCEPT ![o] = "finish"]
          /\ UNCHANGED <<handler, answer, status, response>>
      BY <2>9 DEF WriteBody
    <3>2. QED
      BY <1>0, <2>1, <3>1 DEF TypeOK
  <2>10. QED
    BY <2>2, <2>3, <2>4, <2>5, <2>6, <2>7, <2>8, <2>9
       DEF Next, TimeoutHandler, RunProxy, GetResult, GetError, GetTimer
<1>3. QED
  BY <1>1, <1>2

LEMMA InvStep == IInv /\ [Next]_vars => IInv'
<1>1. ASSUME IInv, Next
      PROVE  IInv'
  BY <1>1, TypeStep, ContextStep, OwnedStep, OriginsStep, FilledStep, WrittenStep DEF IInv
<1>2. ASSUME IInv, UNCHANGED vars
      PROVE  IInv'
  BY <1>2 DEF vars, IInv, TypeInv, TypeOK, HasContext, Started, Contexted, Owned, Holds, Origins,
              WroteLate, Filled, Written, Alone, Reaches, TimedOut, Writer
<1>3. QED
  BY <1>1, <1>2

-----------------------------------------------------------------------------
(* Theorems                                                                *)

\* Every variable keeps its type.
THEOREM TypeCorrect == Spec => []TypeOK
<1>1. IInv => TypeOK
  BY DEF IInv, TypeInv
<1>2. QED
  BY <1>1, InvInit, InvStep, PTL DEF Spec

\* A request that stays within its time limit gets the status and the body of one
\* outcome, unless a goroutine of a request that was given up can reach it over a
\* context or a buffer that was used again.
THEOREM Complete == Spec => []AnswerComplete
<1>1. IInv => AnswerComplete
  BY DEF IInv, TypeInv, TypeOK, Started, Written, Alone, TimedOut, AnswerComplete
<1>2. QED
  BY <1>1, InvInit, InvStep, PTL DEF Spec

-----------------------------------------------------------------------------
(* Whose body a caller may get                                             *)

\* How far OwnAnswer, which HttpForeignAnswer refutes, goes wrong: a body that
\* is not the request's own is that of a request that was given up and whose
\* context has led, now or before, to the buffer of the caller's request.
ForeignOnlyGivenUp ==
  \A q \in Requests : \A o \in response[q].body \ {q} : TimedOut(o) /\ Reaches(o, q)

LEMMA ForeignStep ==
  ASSUME IInv, ForeignOnlyGivenUp, [Next]_vars
  PROVE  ForeignOnlyGivenUp'
<1>0. /\ TypeOK /\ HasContext /\ Started /\ Origins /\ Owned
      /\ \A q \in Requests : response[q].body \subseteq Requests
  BY DEF IInv, TypeInv, TypeOK
<1>1. ASSUME NEW q \in Requests, NEW o \in response[q].body \ {q}, Next
      PROVE  (TimedOut(o) /\ Reaches(o, q))'
  <2>1. TimedOut(o) /\ Reaches(o, q) /\ o \in Requests
    BY <1>0, <1>1 DEF ForeignOnlyGivenUp
  <2>2. ctx[q] # NoContext
    BY <1>0, <1>1 DEF Started, HasContext, NoResponse
  <2>3. QED
    BY <1>1, <2>1, <2>2, ReachesOn
<1>2. CASE UNCHANGED vars
  BY <1>2 DEF vars, ForeignOnlyGivenUp, Reaches, TimedOut
<1>3. ASSUME Next, UNCHANGED response
      PROVE  ForeignOnlyGivenUp'
  BY <1>1, <1>3 DEF ForeignOnlyGivenUp
<1>4. ASSUME Next, NEW r \in Requests, Flush(r)
      PROVE  ForeignOnlyGivenUp'
  <2>1. response'[r].body = {} /\ \A q \in Requests \ {r} : response'[q] = response[q]
    <3>1. /\ response'[r] = [status |-> status[r], body |-> {}]
          /\ \A q \in Requests \ {r} : response'[q] = response[q]
      BY <1>0, <1>4, FlushFacts, Zenon
    <3>2. QED
      BY <3>1
  <2>2. QED
    BY <1>1, <1>4, <2>1 DEF ForeignOnlyGivenUp
<1>5. ASSUME Next, NEW r \in Requests, Finished(r)
      PROVE  ForeignOnlyGivenUp'
  <2>1. /\ response'[r].body = body[buffer[r]] /\ buffer[r] \in Buffers
        /\ \A q \in Requests \ {r} : response'[q] = response[q]
        /\ handler[r] = "select" /\ ctx[r] # NoContext
    <3>1. /\ response'[r] = [status |-> status[r], body |-> body[buffer[r]]]
          /\ \A q \in Requests \ {r} : response'[q] = response[q]
          /\ handler[r] = "select"
      BY <1>0, <1>5, FinishedFacts, Zenon
    <3>2. buffer[r] \in Buffers /\ ctx[r] # NoContext
      BY <1>0, <3>1 DEF HasContext, TypeOK
    <3>3. QED
      BY <3>1, <3>2
  <2>2. ASSUME NEW o \in body[buffer[r]] \ {r}
        PROVE  (TimedOut(o) /\ Reaches(o, r))'
    <3>1. o \in Requests
      BY <1>0, <2>1 DEF TypeOK
    <3>2. WroteLate(o, buffer[r])
      BY <1>0, <2>1, <2>2, <3>1 DEF Origins, Owned, Holds
    <3>3. TimedOut(o) /\ Reaches(o, r)
      BY <3>2 DEF WroteLate, Reaches
    <3>4. QED
      BY <1>5, <2>1, <3>1, <3>3, ReachesOn
  <2>3. QED
    BY <1>1, <1>5, <2>1, <2>2 DEF ForeignOnlyGivenUp
<1>6. QED
  BY <1>2, <1>3, <1>4, <1>5 DEF Next, TimeoutHandler, RunProxy, Arrive, TimeOut, GetResult, GetError,
     GetTimer, Answer, WriteStatus, WriteBody, RequestReturns

\* For any number of requests, contexts and buffers a caller is sent the body of
\* another request only if that one was given up and reaches it over a recycled
\* context or a recycled buffer.
THEOREM ForeignBodies == Spec => []ForeignOnlyGivenUp
<1>1. Init => IInv /\ ForeignOnlyGivenUp
  BY InvInit DEF Init, ForeignOnlyGivenUp, NoResponse
<1>2. IInv /\ ForeignOnlyGivenUp /\ [Next]_vars => IInv' /\ ForeignOnlyGivenUp'
  BY InvStep, ForeignStep
<1>3. QED
  BY <1>1, <1>2, PTL DEF Spec

-----------------------------------------------------------------------------
(* What the caller of a request that was given up gets                      *)

\* A status a request that was given up may be answered with.
Decided(q, code) ==
  code = 504 \/ \E o \in Requests : TimedOut(o) /\ ctx[o] = ctx[q] /\ answer[o] = code

\* The status in the writer of such a request, until it is sent.
Marked == \A q \in Requests : handler[q] = "timedout" => Decided(q, status[q])

LEMMA DecidedStays ==
  ASSUME IInv, Next, NEW q \in Requests, ctx[q] # NoContext, NEW code, code # 0,
         Decided(q, code)
  PROVE  Decided(q, code)'
<1>0. TypeOK /\ Started
  BY DEF IInv, TypeInv
<1>1. CASE code = 504
  BY <1>1 DEF Decided
<1>2. ASSUME NEW o \in Requests, TimedOut(o), ctx[o] = ctx[q], answer[o] = code
      PROVE  Decided(q, code)'
  <2>1. TimedOut(o)' /\ ctx'[o] = ctx'[q]
    BY <1>2, GivenUpStays
  <2>2. inner[o] # "select"
    BY <1>0, <1>2 DEF Started
  <2>3. answer'[o] = answer[o]
    BY <1>0, <2>2 DEF Next, Arrive, TimeoutHandler, TimeOut, Flush, Finished, RunProxy, Answer,
       GetResult, GetError, GetTimer, WriteStatus, WriteBody, RequestReturns, TypeOK
  <2>4. QED
    BY <1>2, <2>1, <2>3 DEF Decided
<1>3. QED
  BY <1>1, <1>2 DEF Decided

LEMMA MarkedStep ==
  ASSUME IInv, Marked, Next
  PROVE  Marked'
<1> SUFFICES ASSUME NEW q \in Requests, handler'[q] = "timedout"
             PROVE  Decided(q, status[q])'
  BY DEF Marked
<1>0. TypeOK /\ Started /\ HasContext /\ \A o \in Requests : status[o] # 0
  BY DEF IInv, TypeInv, TypeOK
<1>1. ASSUME handler[q] = "timedout", status'[q] = status[q]
      PROVE  Decided(q, status[q])'
  BY <1>0, <1>1, DecidedStays DEF Marked, HasContext
<1>2. ASSUME NEW o \in Requests, TimeOut(o)
      PROVE  Decided(q, status[q])'
  <2>1. CASE o = q
    <3>1. status'[q] = 504
      BY <1>0, <1>2, <2>1 DEF TimeOut, WriteHeader, Started, TypeOK
    <3>2. QED
      BY <3>1 DEF Decided
  <2>2. CASE o # q
    BY <1>0, <1>1, <1>2, <2>2 DEF TimeOut, WriteHeader, TypeOK
  <2>3. QED
    BY <2>1, <2>2
<1>3. ASSUME NEW o \in Requests, WriteStatus(o)
      PROVE  Decided(q, status[q])'
  <2>1. handler[q] = "timedout" /\ inner[o] = "status"
    BY <1>3 DEF WriteStatus
  <2>2. CASE Writer(o) = q
    <3>1. TimedOut(o) /\ ctx[o] = ctx[q] /\ UNCHANGED <<ctx, answer, handler>>
      BY <1>0, <1>3, <2>1, <2>2, WhoWrites DEF WriteStatus, TypeOK
    <3>2. TimedOut(o)' /\ status'[q] = answer[o]
      BY <1>0, <1>3, <2>1, <2>2, <3>1, GivenUpStays DEF WriteStatus, WriteHeader, Started, TypeOK
    <3>3. QED
      BY <3>1, <3>2 DEF Decided
  <2>3. CASE Writer(o) # q
    BY <1>0, <1>1, <1>3, <2>1, <2>3 DEF WriteStatus, WriteHeader, TypeOK
  <2>4. QED
    BY <2>2, <2>3
<1>4. ASSUME NEW o \in Requests, Arrive(o)
      PROVE  Decided(q, status[q])'
  BY <1>0, <1>1, <1>4 DEF Arrive, TypeOK
<1>5. ASSUME NEW o \in Requests, Flush(o) \/ Finished(o) \/ RequestReturns(o) \/ GetResult(o)
                                 \/ GetError(o) \/ GetTimer(o) \/ WriteBody(o)
      PROVE  Decided(q, status[q])'
  BY <1>0, <1>1, <1>5 DEF Flush, Finished, RequestReturns, GetResult, GetError, GetTimer, Answer,
     WriteBody, TypeOK
<1>6. QED
  BY <1>2, <1>3, <1>4, <1>5 DEF Next, TimeoutHandler, RunProxy

LEMMA GivenUpStep ==
  ASSUME IInv, Marked, GivenUpAnswer, Next
  PROVE  GivenUpAnswer'
<1> SUFFICES ASSUME NEW q \in Requests, handler'[q] = "done", TimedOut(q)'
             PROVE  response'[q].body = {} /\ Decided(q, response[q].status)'
  BY DEF GivenUpAnswer, Decided
<1>0. TypeOK /\ Started /\ HasContext /\ \A o \in Requests : status[o] # 0
  BY DEF IInv, TypeInv, TypeOK
<1>1. ASSUME NEW o \in Requests, Flush(o), o = q
      PROVE  response'[q].body = {} /\ Decided(q, response[q].status)'
  <2>1. handler[q] = "timedout" /\ response'[q] = [status |-> status[q], body |-> {}]
    BY <1>0, <1>1, FlushFacts
  <2>2. Decided(q, status[q])'
    <3>1. status' = status
      BY <1>1 DEF Flush
    <3>2. Decided(q, status[q]) /\ ctx[q] # NoContext
      BY <1>0, <2>1 DEF Marked, HasContext
    <3>3. QED
      BY <1>0, <3>1, <3>2, DecidedStays
  <2>3. status' = status
    BY <1>1 DEF Flush
  <2>4. QED
    BY <2>1, <2>2, <2>3
<1>2. ASSUME \A o \in Requests : o = q => ~Flush(o)
      PROVE  handler[q] = "done" /\ TimedOut(q) /\ response'[q] = response[q]
  <2>1. ASSUME NEW o \in Requests, Finished(o)
        PROVE  handler[q] = "done" /\ TimedOut(q) /\ response'[q] = response[q]
    <3>1. o # q
      BY <1>0, <2>1, FinishedFacts DEF TimedOut
    <3>2. QED
      BY <1>0, <2>1, <3>1, FinishedFacts DEF TimedOut
  <2>2. ASSUME NEW o \in Requests, Flush(o)
        PROVE  handler[q] = "done" /\ TimedOut(q) /\ response'[q] = response[q]
    BY <1>0, <1>2, <2>2, FlushFacts DEF TimedOut
  <2>3. ASSUME NEW o \in Requests, Arrive(o) \/ TimeOut(o) \/ RunProxy(o) \/ RequestReturns(o)
        PROVE  handler[q] = "done" /\ TimedOut(q) /\ response'[q] = response[q]
    BY <1>0, <2>3 DEF Arrive, TimeOut, RunProxy, RequestReturns, Answer, GetResult, GetError,
       GetTimer, WriteStatus, WriteBody, TimedOut, TypeOK
  <2>4. QED
    BY <2>1, <2>2, <2>3 DEF Next, TimeoutHandler
<1>3. ASSUME handler[q] = "done", TimedOut(q), response'[q] = response[q]
      PROVE  response'[q].body = {} /\ Decided(q, response[q].status)'
  <2>1. response[q].body = {} /\ Decided(q, response[q].status)
    BY <1>3 DEF GivenUpAnswer, Decided
  <2>2. ctx[q] # NoContext
    BY <1>0, <1>3 DEF HasContext
  <2>3. response[q].status # 0
    BY <1>0, <1>3 DEF Started
  <2>4. QED
    BY <1>3, <2>1, <2>2, <2>3, DecidedStays
<1>4. QED
  BY <1>1, <1>2, <1>3

\* For any number of requests, contexts and buffers the caller of a request that
\* was given up gets no body and never the default status.
THEOREM GivenUpAnswered == Spec => []GivenUpAnswer
<1>1. Init => IInv /\ Marked /\ GivenUpAnswer
  BY InvInit DEF Init, Marked, GivenUpAnswer
<1>2. IInv /\ Marked /\ GivenUpAnswer /\ [Next]_vars => IInv' /\ Marked' /\ GivenUpAnswer'
  <2>1. ASSUME IInv, Marked, GivenUpAnswer, UNCHANGED vars
        PROVE  IInv' /\ Marked' /\ GivenUpAnswer'
    <3>1. IInv'
      BY <2>1, InvStep
    <3>2. QED
      BY <2>1, <3>1 DEF vars, Marked, Decided, TimedOut, GivenUpAnswer
  <2>2. QED
    BY <2>1, InvStep, MarkedStep, GivenUpStep
<1>3. QED
  BY <1>1, <1>2, PTL DEF Spec

=============================================================================
