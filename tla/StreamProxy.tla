----------------------------- MODULE StreamProxy -----------------------------
(***************************************************************************)
(* The transparent proxying of one gRPC stream                             *)
(* (pkg/plugins/pool/grpc/handler.go): a handler goroutine and its two     *)
(* forwarders, s2c (caller to backend; the source calls the stream of the  *)
(* caller serverStream) and c2s (backend to caller).                       *)
(*                                                                         *)
(* Frames are counted, not represented: a direction is a record of how     *)
(* many frames its origin sent, the forwarder read and forwarded, and the  *)
(* destination took.  grpc-go, the caller and the backend are external:    *)
(* frames arrive in order, RecvMsg returns io.EOF after a half-close of    *)
(* the caller or an OK status of the backend, SendMsg blocks while the     *)
(* flow-control window is full, SendMsg to a backend stream that is over   *)
(* returns io.EOF, and a context that is done ends every call that waits.  *)
(***************************************************************************)
EXTENDS Integers

CONSTANTS
  MaxUp,     \* bound on the frames the caller sends
  MaxDown,   \* bound on the frames the backend sends
  Window,    \* frames a SendMsg may run ahead of its receiver
  MayReject  \* whether a frame of the caller may exceed the receive limit

ASSUME StreamAssumption ==
  /\ MaxUp \in Nat
  /\ MaxDown \in Nat
  /\ Window \in Nat \ {0}
  /\ MayReject \in BOOLEAN

VARIABLES
  up,           \* frames on their way from the caller to the backend
  down,         \* frames on their way from the backend to the caller
  halfClosed,   \* the caller has closed its sending side
  cancelled,    \* the caller's context is done
  rejected,     \* a frame of the caller exceeded the receive limit
  backend,      \* "running", or the status class the backend ended with
  handler,      \* where the handler goroutine is
  round,        \* its loop variable i
  result,       \* what it returned
  conn,         \* the pooled client of the stream
  clientCancel, \* clientCancel() was called
  closeSend,    \* clientStream.CloseSend() was called
  headerSent,   \* dst.SendHeader succeeded
  s2c, c2s,     \* where the forwarders are
  s2cErrChan, c2sErrChan

callerVars  == <<halfClosed, cancelled>>
handlerVars == <<handler, round, result, conn, clientCancel, closeSend>>
s2cVars     == <<s2c, s2cErrChan, rejected>>
c2sVars     == <<c2s, c2sErrChan, headerSent>>
vars == <<up, down, callerVars, backend, handlerVars, s2cVars, c2sVars>>

\* What ends a forwarder.  A forwarder at one of these points is about to
\* execute ret <- err.
Errors == {"eof", "status", "failed"}

\* The context of the caller's stream is done: the caller went away, or
\* the server has finished the call.
ServerDone == cancelled \/ handler = "returned"

\* Mutant of ClientDone: the outgoing context is made from context.Background().
ClientDoneDetached == clientCancel

\* The backend stream's context descends from it.
ClientDone == ServerDone \/ clientCancel

\* Whether the backend stream is over for the proxy.
BackendOver == backend # "running" \/ ClientDone

Idle == [sent |-> 0, read |-> 0, fwd |-> 0, taken |-> 0]

Init ==
  /\ up = Idle /\ down = Idle
  /\ halfClosed = FALSE /\ cancelled = FALSE /\ rejected = FALSE
  /\ backend = "running"
  /\ handler = "director" /\ round = 0 /\ result = "none" /\ conn = "none"
  /\ clientCancel = FALSE /\ closeSend = FALSE /\ headerSent = FALSE
  /\ s2c = "off" /\ c2s = "off"
  /\ s2cErrChan = "empty" /\ c2sErrChan = "empty"

Count(dir, stage) == [dir EXCEPT ![stage] = @ + 1]

-----------------------------------------------------------------------------
(* The caller and the backend.                                             *)

CallerSend ==
  /\ ~halfClosed /\ ~ServerDone /\ up.sent < MaxUp
  /\ up' = Count(up, "sent")
  /\ UNCHANGED <<down, callerVars, backend, handlerVars, s2cVars, c2sVars>>

CallerHalfClose ==
  /\ ~halfClosed /\ ~ServerDone
  /\ halfClosed' = TRUE
  /\ UNCHANGED <<up, down, cancelled, backend, handlerVars, s2cVars, c2sVars>>

CallerTake ==
  /\ down.taken < down.fwd
  /\ down' = Count(down, "taken")
  /\ UNCHANGED <<up, callerVars, backend, handlerVars, s2cVars, c2sVars>>

CallerCancel ==
  /\ ~ServerDone
  /\ cancelled' = TRUE
  /\ UNCHANGED <<up, down, halfClosed, backend, handlerVars, s2cVars, c2sVars>>

BackendTake ==
  /\ up.taken < up.fwd /\ ~BackendOver
  /\ up' = Count(up, "taken")
  /\ UNCHANGED <<down, callerVars, backend, handlerVars, s2cVars, c2sVars>>

BackendSend ==
  /\ c2s # "off" /\ ~BackendOver /\ down.sent < MaxDown
  /\ down' = Count(down, "sent")
  /\ UNCHANGED <<up, callerVars, backend, handlerVars, s2cVars, c2sVars>>

\* The backend ends the call with or without having read everything, or its
\* connection breaks (an error status as seen by the proxy).
BackendEnd ==
  /\ c2s # "off" /\ ~BackendOver
  /\ backend' \in {"ok", "error"}
  /\ UNCHANGED <<up, down, callerVars, handlerVars, s2cVars, c2sVars>>

-----------------------------------------------------------------------------
(* forwardServerToClient                                                   *)

\* src.RecvMsg(f) returns a frame.
S2CRecv ==
  /\ s2c = "recv" /\ up.read < up.sent
  /\ up' = Count(up, "read")
  /\ s2c' = "send"
  /\ UNCHANGED <<down, callerVars, backend, handlerVars, s2cErrChan, rejected, c2sVars>>

\* src.RecvMsg(f) fails: end of the caller's frames, a context that is done,
\* a frame that is too large.
S2CRecvFails ==
  /\ s2c = "recv"
  /\ \/ halfClosed /\ up.read = up.sent /\ s2c' = "eof" /\ UNCHANGED rejected
     \/ ServerDone /\ s2c' = "failed" /\ UNCHANGED rejected
     \/ MayReject /\ up.read < up.sent /\ s2c' = "failed" /\ rejected' = TRUE
  /\ UNCHANGED <<up, down, callerVars, backend, handlerVars, s2cErrChan, c2sVars>>

\* Mutant of S2CSend: SendMsg reports the end of the backend stream as an error.
S2CSendFails ==
  /\ s2c = "send"
  /\ IF BackendOver
       THEN s2c' = "failed" /\ UNCHANGED up
       ELSE up.fwd - up.taken < Window /\ up' = Count(up, "fwd") /\ s2c' = "recv"
  /\ UNCHANGED <<down, callerVars, backend, handlerVars, s2cErrChan, rejected, c2sVars>>

\* dst.SendMsg(f): io.EOF when the backend stream is over.
S2CSend ==
  /\ s2c = "send"
  /\ IF BackendOver
       THEN s2c' = "eof" /\ UNCHANGED up
       ELSE /\ up.fwd - up.taken < Window
            /\ up' = Count(up, "fwd")
            /\ s2c' = "recv"
  /\ UNCHANGED <<down, callerVars, backend, handlerVars, s2cErrChan, rejected, c2sVars>>

\* Mutant of S2CReturn: the break after ret <- err is missing.
S2CReturnGoesOn ==
  /\ s2c \in Errors /\ s2cErrChan = "empty"
  /\ s2cErrChan' = s2c /\ s2c' = "recv"
  /\ UNCHANGED <<up, down, callerVars, backend, handlerVars, rejected, c2sVars>>

\* Mutant of S2CReturn: the channel has no buffer.
S2CReturnUnbuffered ==
  /\ s2c \in Errors /\ s2cErrChan = "empty" /\ handler = "select"
  /\ s2cErrChan' = s2c /\ s2c' = "done"
  /\ UNCHANGED <<up, down, callerVars, backend, handlerVars, rejected, c2sVars>>

\* ret <- err, into a buffer of one.
S2CReturn ==
  /\ s2c \in Errors /\ s2cErrChan = "empty"
  /\ s2cErrChan' = s2c
  /\ s2c' = "done"
  /\ UNCHANGED <<up, down, callerVars, backend, handlerVars, rejected, c2sVars>>

-----------------------------------------------------------------------------
(* forwardClientToServer                                                   *)

C2SRecv ==
  /\ c2s = "recv" /\ down.read < down.sent
  /\ c2s' = IF down.read = 0 THEN "header" ELSE "send"
  /\ down' = Count(down, "read")
  /\ UNCHANGED <<up, callerVars, backend, handlerVars, s2cVars, c2sErrChan, headerSent>>

C2SRecvFails ==
  /\ c2s = "recv"
  /\ \/ down.read = down.sent /\ backend = "ok" /\ c2s' = "eof"
     \/ down.read = down.sent /\ backend = "error" /\ c2s' = "status"
     \/ ClientDone /\ c2s' = "failed"
  /\ UNCHANGED <<up, down, callerVars, backend, handlerVars, s2cVars, c2sErrChan, headerSent>>

\* src.Header() and dst.SendHeader(md), before the first frame.
C2SHeader ==
  /\ c2s = "header"
  /\ IF ServerDone
       THEN c2s' = "failed" /\ UNCHANGED headerSent
       ELSE c2s' = "send" /\ headerSent' = TRUE
  /\ UNCHANGED <<up, down, callerVars, backend, handlerVars, s2cVars, c2sErrChan>>

C2SSend ==
  /\ c2s = "send"
  /\ IF ServerDone
       THEN c2s' = "failed" /\ UNCHANGED down
       ELSE /\ down.fwd - down.taken < Window
            /\ down' = Count(down, "fwd")
            /\ c2s' = "recv"
  /\ UNCHANGED <<up, callerVars, backend, handlerVars, s2cVars, c2sErrChan, headerSent>>

C2SReturn ==
  /\ c2s \in Errors /\ c2sErrChan = "empty"
  /\ c2sErrChan' = c2s
  /\ c2s' = "done"
  /\ UNCHANGED <<up, down, callerVars, backend, handlerVars, s2cVars, headerSent>>

-----------------------------------------------------------------------------
(* handler.handler                                                         *)

\* s.director(...): Acquire, modelled in ClientPool.  It may come back with the
\* context done or never: a loose pool and a tenant do not look at the context.
Director ==
  /\ handler = "director"
  /\ \/ handler' = "stream" /\ conn' = "leased" /\ UNCHANGED result
     \/ handler' = "returning" /\ result' = "status" /\ UNCHANGED conn
  /\ UNCHANGED <<up, down, callerVars, backend, round, clientCancel, closeSend, s2cVars, c2sVars>>

\* return err, with the deferred conn.Close().
Return(err) ==
  /\ handler' = "returning"
  /\ result' = err
  /\ conn' = "returned"

\* grpc.NewClientStream, and the start of the forwarders.
NewClientStream ==
  /\ handler = "stream"
  /\ \/ /\ ~ClientDone
        /\ handler' = "select"
        /\ s2c' = "recv" /\ c2s' = "recv"
        /\ UNCHANGED <<result, conn>>
     \/ /\ Return("status")
        /\ UNCHANGED <<s2c, c2s>>
  /\ UNCHANGED <<up, down, callerVars, backend, round, clientCancel, closeSend,
                 s2cErrChan, rejected, c2sErrChan, headerSent>>

\* Mutant of SelectS2C: every error of the forwarder counts as the end of frames.
SelectS2CAlwaysEOF ==
  /\ handler = "select" /\ s2cErrChan # "empty"
  /\ s2cErrChan' = "empty" /\ closeSend' = TRUE /\ round' = round + 1
  /\ UNCHANGED <<handler, result, conn, clientCancel>>
  /\ UNCHANGED <<up, down, callerVars, backend, s2c, rejected, c2sVars>>

\* case s2cErr := <-s2cErrChan of the select.
SelectS2C ==
  /\ handler = "select" /\ s2cErrChan # "empty"
  /\ s2cErrChan' = "empty"
  /\ IF s2cErrChan = "eof"
       THEN /\ closeSend' = TRUE
            /\ round' = round + 1
            /\ IF round + 1 < 2
                 THEN UNCHANGED <<handler, result, conn>>
                 ELSE Return("unreachable")
            /\ UNCHANGED clientCancel
       ELSE /\ clientCancel' = TRUE
            /\ Return("internal")
            /\ UNCHANGED <<closeSend, round>>
  /\ UNCHANGED <<up, down, callerVars, backend, s2c, rejected, c2sVars>>

\* Mutant of SelectC2S: the error of the forwarder is not returned.
SelectC2SNil ==
  /\ handler = "select" /\ c2sErrChan # "empty"
  /\ c2sErrChan' = "empty" /\ Return("nil")
  /\ UNCHANGED <<up, down, callerVars, backend, round, clientCancel, closeSend,
                 s2cVars, c2s, headerSent>>

\* case c2sErr := <-c2sErrChan of the select.
SelectC2S ==
  /\ handler = "select" /\ c2sErrChan # "empty"
  /\ c2sErrChan' = "empty"
  /\ Return(IF c2sErrChan = "eof" THEN "nil" ELSE c2sErrChan)
  /\ UNCHANGED <<up, down, callerVars, backend, round, clientCancel, closeSend,
                 s2cVars, c2s, headerSent>>

\* grpc-go finishes the call: the context of the stream is cancelled.
Finish ==
  /\ handler = "returning"
  /\ handler' = "returned"
  /\ UNCHANGED <<up, down, callerVars, backend, round, result, conn, clientCancel,
                 closeSend, s2cVars, c2sVars>>

-----------------------------------------------------------------------------

Caller     == CallerSend \/ CallerHalfClose \/ CallerTake \/ CallerCancel
Backend    == BackendTake \/ BackendSend \/ BackendEnd
ForwardS2C == S2CRecv \/ S2CRecvFails \/ S2CSend \/ S2CReturn
ForwardC2S == C2SRecv \/ C2SRecvFails \/ C2SHeader \/ C2SSend \/ C2SReturn
Handler    == NewClientStream \/ SelectS2C \/ SelectC2S \/ Finish

Next == Caller \/ Backend \/ ForwardS2C \/ ForwardC2S \/ Director \/ Handler

Spec == Init /\ [][Next]_vars

\* The scheduler runs the three goroutines of the proxy; nothing is assumed of
\* the caller and of the backend, nor of the director, whose Acquire may wait for
\* ever.  A call into grpc-go whose context is done returns, so weak fairness of
\* each goroutine is what Go provides once the director is back.
FairSpec == Spec /\ WF_vars(ForwardS2C) /\ WF_vars(ForwardC2S) /\ WF_vars(Handler)

-----------------------------------------------------------------------------
(* Properties                                                              *)

Stages(max) == [sent : 0..max, read : 0..max, fwd : 0..max, taken : 0..max]

TypeOK ==
  /\ up \in Stages(MaxUp) /\ down \in Stages(MaxDown)
  /\ halfClosed \in BOOLEAN /\ cancelled \in BOOLEAN /\ rejected \in BOOLEAN
  /\ clientCancel \in BOOLEAN /\ closeSend \in BOOLEAN /\ headerSent \in BOOLEAN
  /\ backend \in {"running", "ok", "error"}
  /\ handler \in {"director", "stream", "select", "returning", "returned"}
  /\ round \in 0..2
  /\ result \in {"none", "nil", "status", "failed", "internal", "unreachable"}
  /\ conn \in {"none", "leased", "returned"}
  /\ s2c \in {"off", "recv", "send", "done"} \cup Errors
  /\ c2s \in {"off", "recv", "header", "send", "done"} \cup Errors
  /\ s2cErrChan \in {"empty"} \cup Errors
  /\ c2sErrChan \in {"empty"} \cup Errors

\* "gRPC proxying should never reach this stage": two rounds of the select
\* always suffice.
NeverReachesEnd == result # "unreachable"

\* The caller is told that the call succeeded only when the backend said so
\* and the proxy has passed on every frame the backend sent, header first.
OkMeansComplete ==
  result = "nil" =>
    /\ backend = "ok"
    /\ down.fwd = down.sent
    /\ down.sent > 0 => headerSent

\* io.EOF of the s2c forwarder has two meanings, no more frames and backend
\* over.  CloseSend truncates nothing in either: all the caller's frames were
\* forwarded, or the backend stream was over by itself.
HalfCloseTruncatesNothing ==
  closeSend => (halfClosed /\ up.fwd = up.sent) \/ BackendOver

\* The proxy replaces the backend's status by Internal only when the caller
\* went away or sent a frame the proxy refuses, never because the backend
\* ended the call while the caller was still sending.
InternalOnlyForCaller == result = "internal" => cancelled \/ rejected

\* No frame is forwarded over the backend connection once the handler has
\* given its client back to the pool, although the forwarder still runs and
\* the stream's context is cancelled only afterwards.
NothingSentAfterReturn == [][up.fwd' # up.fwd => conn = "leased"]_vars

\* A caller that goes away ends the handler once its director has returned,
\* wherever the forwarders wait.  A handler in the director may stay there: the
\* receive of a loose pool and that of a tenant do not end with the context.
CancelEndsHandler == cancelled /\ handler # "director" ~> handler = "returned"

\* Both forwarders end after the handler, whichever of them it listened to.
ForwardersEnd == handler = "returned" ~> s2c \in {"off", "done"} /\ c2s \in {"off", "done"}

=============================================================================
