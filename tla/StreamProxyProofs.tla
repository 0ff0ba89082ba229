-------------------------- MODULE StreamProxyProofs --------------------------
(***************************************************************************)
(* Theorems about StreamProxy, for any number of frames in either          *)
(* direction, any flow-control window, and with or without frames that     *)
(* exceed the receive limit.                                               *)
(*                                                                         *)
(* An error of a forwarder passes through three places, the forwarder, its *)
(* channel and the handler, and each property is what such an error still  *)
(* stands for when it reaches the handler.                                 *)
(***************************************************************************)
EXTENDS StreamProxy, TLAPS

-----------------------------------------------------------------------------
(* Frames                                                                  *)

\* Frames are neither made up nor overtaken.
Ordered(dir) == dir.taken <= dir.fwd /\ dir.fwd <= dir.read /\ dir.read <= dir.sent

LEMMA SentFacts ==
  ASSUME NEW max \in Nat, NEW dir \in Stages(max), Ordered(dir), dir.sent < max
  PROVE  LET new == Count(dir, "sent")
         IN  /\ new \in Stages(max) /\ Ordered(new)
             /\ new.sent = dir.sent + 1 /\ new.read = dir.read
             /\ new.fwd = dir.fwd /\ new.taken = dir.taken
BY DEF Stages, Ordered, Count

LEMMA ReadFacts ==
  ASSUME NEW max \in Nat, NEW dir \in Stages(max), Ordered(dir), dir.read < dir.sent
  PROVE  LET new == Count(dir, "read")
         IN  /\ new \in Stages(max) /\ Ordered(new)
             /\ new.sent = dir.sent /\ new.read = dir.read + 1
             /\ new.fwd = dir.fwd /\ new.taken = dir.taken
BY DEF Stages, Ordered, Count

LEMMA FwdFacts ==
  ASSUME NEW max \in Nat, NEW dir \in Stages(max), Ordered(dir), dir.fwd < dir.read
  PROVE  LET new == Count(dir, "fwd")
         IN  /\ new \in Stages(max) /\ Ordered(new)
             /\ new.sent = dir.sent /\ new.read = dir.read
             /\ new.fwd = dir.fwd + 1 /\ new.taken = dir.taken
BY DEF Stages, Ordered, Count

LEMMA TakenFacts ==
  ASSUME NEW max \in Nat, NEW dir \in Stages(max), Ordered(dir), dir.taken < dir.fwd
  PROVE  LET new == Count(dir, "taken")
         IN  /\ new \in Stages(max) /\ Ordered(new)
             /\ new.sent = dir.sent /\ new.read = dir.read
             /\ new.fwd = dir.fwd /\ new.taken = dir.taken + 1
BY DEF Stages, Ordered, Count

-----------------------------------------------------------------------------
(* The inductive invariant                                                 *)

Frames == Ordered(up) /\ Ordered(down)

\* TypeOK in two parts, the variables used as formulas and the others.
Flags ==
  /\ halfClosed \in BOOLEAN /\ cancelled \in BOOLEAN /\ rejected \in BOOLEAN
  /\ clientCancel \in BOOLEAN /\ closeSend \in BOOLEAN /\ headerSent \in BOOLEAN

Types ==
  /\ up \in Stages(MaxUp) /\ down \in Stages(MaxDown)
  /\ backend \in {"running", "ok", "error"}
  /\ handler \in {"director", "stream", "select", "returning", "returned"}
  /\ round \in 0..2
  /\ result \in {"none", "nil", "status", "failed", "internal", "unreachable"}
  /\ conn \in {"none", "leased", "returned"}
  /\ s2c \in {"off", "recv", "send", "done"} \cup Errors
  /\ c2s \in {"off", "recv", "header", "send", "done"} \cup Errors
  /\ s2cErrChan \in {"empty"} \cup Errors
  /\ c2sErrChan \in {"empty"} \cup Errors

LEMMA TypeParts == TypeOK <=> Flags /\ Types
BY DEF TypeOK, Flags, Types

\* What the handler has done where it is.
HandlerInv ==
  /\ handler \in {"director", "stream"} => s2c = "off" /\ c2s = "off"
  /\ handler \in {"director", "stream", "select"} => result = "none"
  /\ handler \in {"stream", "select"} => conn = "leased"
  /\ handler = "select" => c2s # "off" /\ (c2s = "done" => c2sErrChan # "empty")

\* What the forwarder of the caller's frames knows.
Uncut == (halfClosed /\ up.fwd = up.sent) \/ BackendOver

S2CInv ==
  /\ s2c # "status" /\ s2cErrChan # "status"
  /\ s2cErrChan # "empty" => s2c = "done"
  /\ round > 0 => s2c = "done" /\ s2cErrChan = "empty"
  /\ s2c \in {"off", "recv"} => up.fwd = up.read
  /\ s2c = "send" => up.read = up.fwd + 1
  /\ s2c = "eof" \/ s2cErrChan = "eof" => Uncut
  /\ closeSend => Uncut /\ s2c = "done"
  /\ s2c = "failed" \/ s2cErrChan = "failed" => ServerDone \/ rejected
  /\ s2c # "off" => conn = "leased" \/ BackendOver
  /\ result # "unreachable"
  /\ result = "internal" => cancelled \/ rejected

\* What the forwarder of the backend's frames knows.
Complete ==
  /\ backend = "ok"
  /\ down.fwd = down.sent
  /\ down.sent > 0 => headerSent

C2SInv ==
  /\ c2sErrChan # "empty" => c2s = "done"
  /\ c2s \in {"off", "recv"} => down.fwd = down.read
  /\ c2s \in {"header", "send"} => down.read = down.fwd + 1
  /\ c2s \in {"recv", "send"} /\ down.read > 0 => headerSent
  /\ c2s = "off" => down.read = 0
  /\ c2s \in Errors \/ c2sErrChan \in Errors => BackendOver
  /\ c2s = "eof" \/ c2sErrChan = "eof" => Complete
  /\ result = "nil" => Complete /\ c2s = "done"

IInv == Flags /\ Types /\ Frames /\ HandlerInv /\ S2CInv /\ C2SInv

LEMMA InvInit == Init => IInv
<1> SUFFICES ASSUME Init
             PROVE  IInv
  OBVIOUS
<1>1. Idle \in Stages(MaxUp) /\ Idle \in Stages(MaxDown) /\ Ordered(Idle) /\ Idle.fwd = Idle.read
      /\ Idle.read = 0
  BY StreamAssumption DEF Idle, Stages, Ordered
<1>2. Flags
  BY DEF Init, Flags
<1>3. Types
  BY <1>1 DEF Init, Types
<1>4. QED
  BY <1>1, <1>2, <1>3 DEF Init, IInv, Frames, HandlerInv, S2CInv, C2SInv, Errors

\* Actions of the caller and the backend.
LEMMA EnvironmentStep == IInv /\ (Caller \/ Backend) => IInv'
<1> SUFFICES ASSUME IInv, Caller \/ Backend
             PROVE  IInv'
  OBVIOUS
<1> USE StreamAssumption
        DEF IInv, Frames, HandlerInv, S2CInv, C2SInv, Uncut, Complete, Errors,
            BackendOver, ClientDone, ServerDone,
            callerVars, handlerVars, s2cVars, c2sVars
<1>1. CASE CallerSend
  <2>1. Flags'
    BY <1>1, Zenon DEF CallerSend, Flags
  <2>2. Types' /\ (Frames /\ HandlerInv /\ S2CInv /\ C2SInv)'
    BY <1>1, SentFacts DEF CallerSend, Types
  <2>3. QED
    BY <2>1, <2>2
<1>2. CASE CallerHalfClose
  <2>1. Flags'
    BY <1>2, Zenon DEF CallerHalfClose, Flags
  <2>2. Types' /\ (Frames /\ HandlerInv /\ S2CInv /\ C2SInv)'
    BY <1>2 DEF CallerHalfClose, Types
  <2>3. QED
    BY <2>1, <2>2
<1>3. CASE CallerTake
  <2>1. Flags'
    BY <1>3, Zenon DEF CallerTake, Flags
  <2>2. Types' /\ (Frames /\ HandlerInv /\ S2CInv /\ C2SInv)'
    BY <1>3, TakenFacts DEF CallerTake, Types
  <2>3. QED
    BY <2>1, <2>2
<1>4. CASE CallerCancel
  <2>1. Flags'
    BY <1>4, Zenon DEF CallerCancel, Flags
  <2>2. Types' /\ (Frames /\ HandlerInv /\ S2CInv /\ C2SInv)'
    BY <1>4 DEF CallerCancel, Types
  <2>3. QED
    BY <2>1, <2>2
<1>5. CASE BackendTake
  <2>1. Flags'
    BY <1>5, Zenon DEF BackendTake, Flags
  <2>2. Types' /\ (Frames /\ HandlerInv /\ S2CInv /\ C2SInv)'
    BY <1>5, TakenFacts DEF BackendTake, Types
  <2>3. QED
    BY <2>1, <2>2
<1>6. CASE BackendSend
  <2>1. Flags'
    BY <1>6, Zenon DEF BackendSend, Flags
  <2>2. Types' /\ (Frames /\ HandlerInv /\ S2CInv /\ C2SInv)'
    BY <1>6, SentFacts DEF BackendSend, Types
  <2>3. QED
    BY <2>1, <2>2
<1>7. CASE BackendEnd
  <2>1. Flags'
    BY <1>7, Zenon DEF BackendEnd, Flags
  <2>2. Types' /\ (Frames /\ HandlerInv /\ S2CInv /\ C2SInv)'
    BY <1>7 DEF BackendEnd, Types
  <2>3. QED
    BY <2>1, <2>2
<1>8. QED
  BY <1>1, <1>2, <1>3, <1>4, <1>5, <1>6, <1>7 DEF Caller, Backend

LEMMA ForwardS2CStep == IInv /\ ForwardS2C => IInv'
<1> SUFFICES ASSUME IInv, ForwardS2C
             PROVE  IInv'
  OBVIOUS
<1> USE StreamAssumption
        DEF IInv, Frames, HandlerInv, S2CInv, C2SInv, Uncut, Complete, Errors,
            BackendOver, ClientDone, ServerDone,
            callerVars, handlerVars, s2cVars, c2sVars
<1>1. CASE S2CRecv
  <2>1. /\ up' \in Stages(MaxUp) /\ Ordered(up') /\ up'.sent = up.sent
        /\ up'.read = up.read + 1 /\ up'.fwd = up.fwd
    BY <1>1, ReadFacts DEF S2CRecv, Types
  <2>2. Flags' /\ Types'
    <3>1. Flags'
      BY <1>1, Zenon DEF S2CRecv, Flags
    <3>2. Types'
      BY <1>1, <2>1 DEF S2CRecv, Types
    <3>3. QED
      BY <3>1, <3>2
  <2>3. (Frames /\ HandlerInv)'
    BY <1>1, <2>1 DEF S2CRecv, Types
  <2>4. S2CInv'
    BY <1>1, <2>1 DEF S2CRecv, Types
  <2>5. C2SInv'
    BY <1>1, <2>1 DEF S2CRecv, Types
  <2>6. QED
    BY <2>2, <2>3, <2>4, <2>5
<1>2. CASE S2CRecvFails
  <2>2. Flags' /\ Types'
    <3>1. Flags'
      BY <1>2, Zenon DEF S2CRecvFails, Flags
    <3>2. Types'
      BY <1>2 DEF S2CRecvFails, Types
    <3>3. QED
      BY <3>1, <3>2
  <2>3. (Frames /\ HandlerInv)'
    BY <1>2 DEF S2CRecvFails, Types
  <2>4. S2CInv'
    BY <1>2 DEF S2CRecvFails, Types
  <2>5. C2SInv'
    BY <1>2 DEF S2CRecvFails, Types
  <2>6. QED
    BY <2>2, <2>3, <2>4, <2>5
<1>3. CASE S2CSend
  <2>1. Flags'
    BY <1>3, Zenon DEF S2CSend, Flags
  <2>2. CASE BackendOver
    BY <1>3, <2>1, <2>2 DEF S2CSend, Types
  <2>3. CASE ~(BackendOver)
    <3>1. /\ up' = Count(up, "fwd") /\ s2c = "send" /\ s2c' = "recv"
      BY <1>3, <2>3 DEF S2CSend
    <3>2. /\ up' \in Stages(MaxUp) /\ Ordered(up')
          /\ up'.sent = up.sent /\ up'.read = up.read /\ up'.fwd = up.fwd + 1
      BY <3>1, FwdFacts DEF Types, Stages
    <3>3. Types'
      BY <1>3, <3>1, <3>2 DEF S2CSend, Types
    <3>4. (Frames /\ HandlerInv)'
      BY <1>3, <3>1, <3>2 DEF S2CSend
    <3>5. S2CInv'
      BY <1>3, <3>1, <3>2 DEF S2CSend, Types, Stages
    <3>6. C2SInv'
      BY <1>3, <3>1, <3>2 DEF S2CSend, Types, Stages
    <3>7. QED
      BY <2>1, <3>3, <3>4, <3>5, <3>6
  <2>4. QED
    BY <2>2, <2>3
<1>4. CASE S2CReturn
  <2>1. Flags'
    BY <1>4, Zenon DEF S2CReturn, Flags
  <2>2. Types' /\ (Frames /\ HandlerInv /\ S2CInv /\ C2SInv)'
    BY <1>4 DEF S2CReturn, Types
  <2>3. QED
    BY <2>1, <2>2
<1>5. QED
  BY <1>1, <1>2, <1>3, <1>4 DEF ForwardS2C

LEMMA ForwardC2SStep == IInv /\ ForwardC2S => IInv'
<1> SUFFICES ASSUME IInv, ForwardC2S
             PROVE  IInv'
  OBVIOUS
<1> USE StreamAssumption
        DEF IInv, Frames, HandlerInv, S2CInv, C2SInv, Uncut, Complete, Errors,
            BackendOver, ClientDone, ServerDone,
            callerVars, handlerVars, s2cVars, c2sVars
<1>1. CASE C2SRecv
  <2>1. /\ down' \in Stages(MaxDown) /\ Ordered(down') /\ down'.sent = down.sent
        /\ down'.read = down.read + 1 /\ down'.fwd = down.fwd
    BY <1>1, ReadFacts DEF C2SRecv, Types
  <2>2. Flags' /\ Types'
    <3>1. Flags'
      BY <1>1, Zenon DEF C2SRecv, Flags
    <3>2. Types'
      BY <1>1, <2>1 DEF C2SRecv, Types
    <3>3. QED
      BY <3>1, <3>2
  <2>3. (Frames /\ HandlerInv)'
    BY <1>1, <2>1 DEF C2SRecv, Types
  <2>4. S2CInv'
    BY <1>1, <2>1 DEF C2SRecv, Types
  <2>5. C2SInv'
    <3>1. /\ c2s = "recv" /\ c2sErrChan' = "empty" /\ result' # "nil"
          /\ c2s' = IF down.read = 0 THEN "header" ELSE "send"
          /\ down.read \in Nat /\ down.fwd = down.read
          /\ UNCHANGED headerSent
      BY <1>1 DEF C2SRecv, Types, Stages
    <3>2. down.read # 0 => headerSent
      BY <3>1
    <3>3. QED
      BY <2>1, <3>1, <3>2
  <2>6. QED
    BY <2>2, <2>3, <2>4, <2>5
<1>2. CASE C2SRecvFails
  <2>1. Flags'
    BY <1>2, Zenon DEF C2SRecvFails, Flags
  <2>2. Types' /\ (Frames /\ HandlerInv /\ S2CInv /\ C2SInv)'
    BY <1>2 DEF C2SRecvFails, Types
  <2>3. QED
    BY <2>1, <2>2
<1>3. CASE C2SHeader
  <2>2. Flags' /\ Types'
    <3>1. Flags'
      BY <1>3, Zenon DEF C2SHeader, Flags
    <3>2. Types'
      BY <1>3 DEF C2SHeader, Types
    <3>3. QED
      BY <3>1, <3>2
  <2>3. (Frames /\ HandlerInv)'
    BY <1>3 DEF C2SHeader, Types
  <2>4. S2CInv'
    BY <1>3 DEF C2SHeader, Types
  <2>5. C2SInv'
    BY <1>3 DEF C2SHeader, Types
  <2>6. QED
    BY <2>2, <2>3, <2>4, <2>5
<1>4. CASE C2SSend
  <2>1. Flags'
    BY <1>4, Zenon DEF C2SSend, Flags
  <2>2. CASE ServerDone
    BY <1>4, <2>1, <2>2 DEF C2SSend, Types
  <2>3. CASE ~(ServerDone)
    <3>1. /\ down' = Count(down, "fwd") /\ c2s = "send" /\ c2s' = "recv"
      BY <1>4, <2>3 DEF C2SSend
    <3>2. /\ down' \in Stages(MaxDown) /\ Ordered(down')
          /\ down'.sent = down.sent /\ down'.read = down.read /\ down'.fwd = down.fwd + 1
      BY <3>1, FwdFacts DEF Types, Stages
    <3>3. Types'
      BY <1>4, <3>1, <3>2 DEF C2SSend, Types
    <3>4. (Frames /\ HandlerInv)'
      BY <1>4, <3>1, <3>2 DEF C2SSend
    <3>5. S2CInv'
      BY <1>4, <3>1, <3>2 DEF C2SSend, Types, Stages
    <3>6. C2SInv'
      BY <1>4, <3>1, <3>2 DEF C2SSend, Types, Stages
    <3>7. QED
      BY <2>1, <3>3, <3>4, <3>5, <3>6
  <2>4. QED
    BY <2>2, <2>3
<1>5. CASE C2SReturn
  <2>1. Flags'
    BY <1>5, Zenon DEF C2SReturn, Flags
  <2>2. Types' /\ (Frames /\ HandlerInv /\ S2CInv /\ C2SInv)'
    BY <1>5 DEF C2SReturn, Types
  <2>3. QED
    BY <2>1, <2>2
<1>6. QED
  BY <1>1, <1>2, <1>3, <1>4, <1>5 DEF ForwardC2S

LEMMA HandlerStep == IInv /\ (Director \/ Handler) => IInv'
<1> SUFFICES ASSUME IInv, Director \/ Handler
             PROVE  IInv'
  OBVIOUS
<1> USE StreamAssumption
        DEF IInv, Frames, HandlerInv, S2CInv, C2SInv, Uncut, Complete, Errors,
            BackendOver, ClientDone, ServerDone, Return,
            callerVars, handlerVars, s2cVars, c2sVars
<1>1. CASE Director
  <2>1. Flags'
    BY <1>1, Zenon DEF Director, Flags
  <2>2. Types' /\ (Frames /\ HandlerInv /\ S2CInv /\ C2SInv)'
    BY <1>1 DEF Director, Types
  <2>3. QED
    BY <2>1, <2>2
<1>2. CASE NewClientStream
  <2>1. Flags'
    BY <1>2, Zenon DEF NewClientStream, Flags
  <2>2. Types' /\ (Frames /\ HandlerInv /\ S2CInv /\ C2SInv)'
    BY <1>2 DEF NewClientStream, Types
  <2>3. QED
    BY <2>1, <2>2
<1>3. CASE SelectS2C
  <2>2. Flags' /\ Types'
    <3>1. Flags'
      BY <1>3, Zenon DEF SelectS2C, Flags
    <3>2. Types'
      BY <1>3 DEF SelectS2C, Types
    <3>3. QED
      BY <3>1, <3>2
  <2>3. (Frames /\ HandlerInv)'
    BY <1>3 DEF SelectS2C, Types
  <2>4. S2CInv'
    BY <1>3 DEF SelectS2C, Types
  <2>5. C2SInv'
    BY <1>3 DEF SelectS2C, Types
  <2>6. QED
    BY <2>2, <2>3, <2>4, <2>5
<1>4. CASE SelectC2S
  <2>1. Flags'
    BY <1>4, Zenon DEF SelectC2S, Flags
  <2>2. Types' /\ (Frames /\ HandlerInv /\ S2CInv /\ C2SInv)'
    BY <1>4 DEF SelectC2S, Types
  <2>3. QED
    BY <2>1, <2>2
<1>5. CASE Finish
  <2>1. Flags'
    BY <1>5, Zenon DEF Finish, Flags
  <2>2. Types' /\ (Frames /\ HandlerInv /\ S2CInv /\ C2SInv)'
    BY <1>5 DEF Finish, Types
  <2>3. QED
    BY <2>1, <2>2
<1>6. QED
  BY <1>1, <1>2, <1>3, <1>4, <1>5 DEF Handler

LEMMA InvStep == IInv /\ [Next]_vars => IInv'
<1> SUFFICES ASSUME IInv, [Next]_vars
             PROVE  IInv'
  OBVIOUS
<1>1. CASE Next
  BY <1>1, EnvironmentStep, ForwardS2CStep, ForwardC2SStep, HandlerStep DEF Next
<1>2. CASE UNCHANGED vars
  BY <1>2 DEF vars, IInv, Flags, Types, Frames, Ordered, HandlerInv, S2CInv, C2SInv, Uncut, Complete,
     BackendOver, ClientDone, ServerDone, callerVars, handlerVars, s2cVars, c2sVars
<1>3. QED
  BY <1>1, <1>2

-----------------------------------------------------------------------------
(* The theorems                                                            *)

\* The handler waits in its select only while a report of c2s is there or
\* still to come: it never waits for two forwarders that are both done.
NeverStranded == handler = "select" => c2s \notin {"off", "done"} \/ c2sErrChan # "empty"

\* ret <- err finds the buffer empty, so no forwarder is stuck with its last
\* error, whether the handler still listens or not.
ErrorsHaveRoom ==
  /\ s2c \in Errors => s2cErrChan = "empty"
  /\ c2s \in Errors => c2sErrChan = "empty"

\* How many steps a forwarder has left when the context of the caller's stream
\* is done.
StepsLeft(l) ==
  CASE l = "recv"              -> 3
    [] l \in {"header", "send"} -> 2
    [] l \in Errors            -> 1
    [] OTHER                   -> 0

\* Once the caller has gone or the handler has returned, every move of a
\* forwarder is one towards its end.
ForwardersWindDown ==
  [][ServerDone =>
       /\ s2c' = s2c \/ StepsLeft(s2c') < StepsLeft(s2c)
       /\ c2s' = c2s \/ StepsLeft(c2s') < StepsLeft(c2s)]_vars

LEMMA Invariant == Spec => []IInv
BY InvInit, InvStep, PTL DEF Spec

\* Type correctness, for every bound on the frames and every window.
THEOREM TypeCorrect == Spec => []TypeOK
<1>1. IInv => TypeOK
  BY TypeParts DEF IInv
<1>2. QED
  BY <1>1, Invariant, PTL

\* The statement after the loop of the handler is never executed, as its
\* comment says: the s2c forwarder reports once, and the loop leaves with the
\* first report of the other one.
THEOREM LoopEnough == Spec => []NeverReachesEnd
<1>1. IInv => NeverReachesEnd
  BY DEF IInv, S2CInv, NeverReachesEnd
<1>2. QED
  BY <1>1, Invariant, PTL

\* A caller is told OK only when the backend said so and every frame of it was
\* passed on, however many there were.
THEOREM OkIsComplete == Spec => []OkMeansComplete
<1>1. IInv => OkMeansComplete
  BY DEF IInv, C2SInv, Complete, OkMeansComplete
<1>2. QED
  BY <1>1, Invariant, PTL

\* CloseSend never cuts the caller's frames short.
THEOREM NothingTruncated == Spec => []HalfCloseTruncatesNothing
<1>1. IInv => HalfCloseTruncatesNothing
  BY DEF IInv, S2CInv, Uncut, HalfCloseTruncatesNothing
<1>2. QED
  BY <1>1, Invariant, PTL

\* Internal is told only to a caller that went away or sent a frame that was
\* refused.
THEOREM InternalJustified == Spec => []InternalOnlyForCaller
<1>1. IInv => InternalOnlyForCaller
  BY DEF IInv, S2CInv, InternalOnlyForCaller
<1>2. QED
  BY <1>1, Invariant, PTL

\* No frame is forwarded after the client went back to the pool: the backend
\* stream is over by then, although the forwarder may still run.
THEOREM NothingAfterReturn == Spec => NothingSentAfterReturn
<1>1. ASSUME IInv, [Next]_vars, up'.fwd # up.fwd
      PROVE  conn = "leased"
  <2>1. up \in Stages(MaxUp) /\ Ordered(up)
    BY <1>1 DEF IInv, Types, Frames
  <2>2. up'.fwd = up.fwd \/ S2CSend
    <3>1. up' = up \/ CallerSend \/ S2CRecv \/ S2CSend \/ BackendTake
      BY <1>1 DEF Next, vars, Caller, Backend, ForwardS2C, ForwardC2S, Handler, CallerHalfClose,
         CallerTake, CallerCancel, BackendSend, BackendEnd, S2CRecvFails, S2CReturn, C2SRecv,
         C2SRecvFails, C2SHeader, C2SSend, C2SReturn, Director, NewClientStream, SelectS2C,
         SelectC2S, Finish
    <3>2. CallerSend \/ S2CRecv \/ BackendTake => up'.fwd = up.fwd
      BY <2>1 DEF CallerSend, S2CRecv, BackendTake, Count, Stages
    <3>3. QED
      BY <3>1, <3>2
  <2>3. s2c = "send" /\ ~BackendOver
    BY <1>1, <2>2 DEF S2CSend
  <2>4. QED
    BY <1>1, <2>3 DEF IInv, S2CInv
<1>2. IInv /\ [Next]_vars => [up.fwd' # up.fwd => conn = "leased"]_vars
  BY <1>1
<1>3. QED
  BY <1>2, InvInit, InvStep, PTL DEF Spec, NothingSentAfterReturn

\* The safety half of CancelEndsHandler: the select is never left without a
\* forwarder that reports.
THEOREM HandlerNeverStranded == Spec => []NeverStranded
<1>1. IInv => NeverStranded
  BY DEF IInv, HandlerInv, NeverStranded
<1>2. QED
  BY <1>1, Invariant, PTL

\* The safety half of ForwardersEnd: a buffer of one is enough for the error
\* a forwarder ends with.
THEOREM LastErrorFits == Spec => []ErrorsHaveRoom
<1>1. IInv => ErrorsHaveRoom
  BY DEF IInv, S2CInv, C2SInv, ErrorsHaveRoom, Errors
<1>2. QED
  BY <1>1, Invariant, PTL

\* What the fairness of the forwarders has to add to it: they need at most
\* three steps each to end, whatever the caller and the backend still send.
THEOREM WindDown == Spec => ForwardersWindDown
<1>1. ASSUME IInv, [Next]_vars, ServerDone
      PROVE  /\ s2c' = s2c \/ StepsLeft(s2c') < StepsLeft(s2c)
             /\ c2s' = c2s \/ StepsLeft(c2s') < StepsLeft(c2s)
  <2> USE <1>1 DEF ServerDone, ClientDone, BackendOver, StepsLeft, Errors
  <2>1. CASE UNCHANGED <<s2c, c2s>>
    BY <2>1
  <2>2. CASE ForwardS2C
    BY <2>2 DEF ForwardS2C, S2CRecv, S2CRecvFails, S2CSend, S2CReturn, c2sVars
  <2>3. CASE ForwardC2S
    BY <2>3 DEF ForwardC2S, C2SRecv, C2SRecvFails, C2SHeader, C2SSend, C2SReturn, s2cVars
  <2>4. CASE NewClientStream
    BY <2>4 DEF NewClientStream
  <2>5. Caller \/ Backend \/ Director \/ SelectS2C \/ SelectC2S \/ Finish \/ UNCHANGED vars
          => UNCHANGED <<s2c, c2s>>
    BY DEF Caller, Backend, CallerSend, CallerHalfClose, CallerTake, CallerCancel, BackendTake,
       BackendSend, BackendEnd, Director, SelectS2C, SelectC2S, Finish, vars, s2cVars, c2sVars
  <2>6. QED
    BY <2>1, <2>2, <2>3, <2>4, <2>5 DEF Next, Handler
<1>2. IInv /\ [Next]_vars
        => [ServerDone =>
              /\ s2c' = s2c \/ StepsLeft(s2c') < StepsLeft(s2c)
              /\ c2s' = c2s \/ StepsLeft(c2s') < StepsLeft(c2s)]_vars
  BY <1>1
<1>3. QED
  BY <1>2, InvInit, InvStep, PTL DEF Spec, ForwardersWindDown

=============================================================================
