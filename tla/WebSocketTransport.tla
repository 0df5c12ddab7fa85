------------------------- MODULE WebSocketTransport -------------------------
(***************************************************************************)
(* winhttp_websocket::Transport: blocking calls with deadlines on top of   *)
(* asynchronous WinHTTP.  The worker of a session connects, sends, closes  *)
(* and destroys; its receiver thread receives; the application's thread    *)
(* aborts.  WinHTTP completes, fails or delays whatever it accepted.       *)
(*                                                                         *)
(* Every Connect() has an Impl of its own, the callback context of its     *)
(* handles.  impl[0] is the empty one of a transport that never connected. *)
(***************************************************************************)
EXTENDS Naturals, Sequences, Functions

CONSTANTS
  MaxConnects,  \* calls of Connect()
  MaxMessages,  \* messages of the peer, over all connections
  MaxCalls      \* calls of Send(), of Close(), and of Abort() by the application

ASSUME TransportAssumption ==
  {MaxConnects, MaxMessages, MaxCalls} \subseteq Nat

VARIABLES
  impl,       \* the Impl of each attempt
  current,    \* impl_: the attempt the transport stands for
  destroyed,  \* the destructor has run
  thr,        \* what each thread does: pc, the Impl it works on, handles it took
  calls       \* how many of the counted calls there have been

vars == <<impl, current, destroyed, thr, calls>>

Threads == {"worker", "receiver", "app"}
Handles == {"session", "connect", "request", "websocket"}
Operations == {"handshake", "send", "receive"}

(***************************************************************************)
(* One Impl.  "held" are its handle members that are not null, "open" the  *)
(* handles WinHTTP knows, "io" what WinHTTP has accepted and not completed.*)
(* "closing" says that HANDLE_CLOSING of the session is still to come.     *)
(***************************************************************************)

EmptyImpl ==
  [cancelled |-> FALSE, connected |-> FALSE, held |-> {}, open |-> {},
   closer |-> "none", closing |-> FALSE, sessionClosed |-> FALSE,
   selfKeepAlive |-> FALSE, io |-> {}, handshake |-> "idle", send |-> "idle",
   sendBuffer |-> 0, receive |-> "idle", arrived |-> 0, got |-> <<>>]

At(t) == impl[thr[t].on]

Idle == [pc |-> "idle", on |-> 0, took |-> {}, back |-> "idle"]

Goto(t, pc) ==
  thr' = [thr EXCEPT ![t] = IF pc = "idle" THEN Idle ELSE [@ EXCEPT !.pc = pc]]

\* What wait_for() in WaitFor() returns on: the flag, a cancellation, the time.
Done(state) == state \in {"done", "failed"}

(***************************************************************************)
(* AbortAndClose: the handles are taken under the lock, closed outside of  *)
(* it, and the end of the session handle is awaited for a second at most.  *)
(* closeMutex is held from the beginning to the end.                       *)
(***************************************************************************)

CloseFrom(t, i, back) ==
  thr' = [thr EXCEPT ![t].pc = "close", ![t].on = i, ![t].back = back]

\* Mutant: the handles are read but left where they are.
TakeHandlesAndKeep(t) ==
  /\ thr[t].pc = "close"
  /\ At(t).closer = "none"
  /\ impl' = [impl EXCEPT ![thr[t].on] =
       [@ EXCEPT !.closer = t, !.cancelled = TRUE, !.connected = FALSE]]
  /\ thr' = [thr EXCEPT ![t].pc = "closing", ![t].took = At(t).held]
  /\ UNCHANGED <<current, destroyed, calls>>

TakeHandles(t) ==
  /\ thr[t].pc = "close"
  /\ At(t).closer = "none"
  /\ impl' = [impl EXCEPT ![thr[t].on] =
       [@ EXCEPT !.closer = t, !.cancelled = TRUE, !.connected = FALSE, !.held = {}]]
  /\ thr' = [thr EXCEPT ![t].pc = "closing", ![t].took = At(t).held]
  /\ UNCHANGED <<current, destroyed, calls>>

\* WinHttpCloseHandle, child handles first; without a session there is nothing
\* to wait for, and the callback context is given up.
CloseHandles(t) ==
  LET took == thr[t].took
      last == "session" \in took
  IN  /\ thr[t].pc = "closing"
      /\ impl' = [impl EXCEPT ![thr[t].on] =
           [At(t) EXCEPT !.open = @ \ took,
                         !.closing = @ \/ last,
                         !.selfKeepAlive = @ /\ last,
                         !.closer = IF last THEN t ELSE "none"]]
      /\ thr' = [thr EXCEPT ![t] =
                   IF ~last /\ @.back = "idle" THEN Idle
                   ELSE [@ EXCEPT !.pc = IF last THEN "closeWait" ELSE thr[t].back,
                                  !.took = {}]]
      /\ UNCHANGED <<current, destroyed, calls>>

\* Mutant: the wait for HANDLE_CLOSING has no end.
CloseWaitedForever(t) ==
  /\ thr[t].pc = "closeWait"
  /\ At(t).sessionClosed
  /\ impl' = [impl EXCEPT ![thr[t].on].closer = "none"]
  /\ Goto(t, thr[t].back)
  /\ UNCHANGED <<current, destroyed, calls>>

\* HANDLE_CLOSING arrived, or the second is over.
CloseWaited(t) ==
  /\ thr[t].pc = "closeWait"
  /\ impl' = [impl EXCEPT ![thr[t].on].closer = "none"]
  /\ Goto(t, thr[t].back)
  /\ UNCHANGED <<current, destroyed, calls>>

(***************************************************************************)
(* Connect.                                                                *)
(***************************************************************************)

\* A fresh Impl is swapped in and the previous one closed.
BeginConnect ==
  /\ thr["worker"].pc = "idle"
  /\ ~destroyed
  /\ current < MaxConnects
  /\ current' = current + 1
  /\ impl' = [impl EXCEPT ![current + 1].selfKeepAlive = TRUE]
  /\ CloseFrom("worker", current, "session")
  /\ UNCHANGED <<destroyed, calls>>

\* The handle each stage opens, and the stage that follows; the options of the
\* request are a stage of their own that opens none.
NextStage == [session |-> "connect", connect |-> "request", request |-> "options",
              options |-> "sendRequest"]
Parent == [connect |-> "session", request |-> "connect", options |-> "request"]

Cancelled(stage) ==
  \/ impl[current].cancelled
  \/ stage # "session" /\ Parent[stage] \notin impl[current].held

\* One stage, under closeMutex: cancelled, opened, or failed.
OpenHandle(stage) ==
  /\ thr["worker"].pc = stage
  /\ impl[current].closer = "none"
  /\ IF Cancelled(stage)
     THEN /\ Goto("worker", "idle")
          /\ impl' = IF stage = "session"
                     THEN [impl EXCEPT ![current].selfKeepAlive = FALSE] ELSE impl
     ELSE \/ /\ impl' = IF stage = "options" THEN impl
                        ELSE [impl EXCEPT ![current] =
                               [impl[current] EXCEPT !.held = @ \cup {stage},
                                                     !.open = @ \cup {stage}]]
             /\ thr' = [thr EXCEPT !["worker"].pc = NextStage[stage],
                                   !["worker"].on = current]
          \/ /\ stage = "session"
             /\ impl' = [impl EXCEPT ![current].selfKeepAlive = FALSE]
             /\ Goto("worker", "idle")
          \/ /\ stage # "session"
             /\ impl' = impl
             /\ CloseFrom("worker", current, "idle")
  /\ UNCHANGED <<current, destroyed, calls>>

\* BeginHandshakeWait and the call, whose handle may have been closed meanwhile.
HandshakeCall(call, wait) ==
  /\ thr["worker"].pc = call
  /\ impl' = IF "request" \in impl[current].open
             THEN [impl EXCEPT ![current] =
                     [impl[current] EXCEPT !.handshake = "waiting",
                                           !.io = @ \cup {"handshake"}]]
             ELSE [impl EXCEPT ![current].handshake = "failed"]
  /\ Goto("worker", wait)
  /\ UNCHANGED <<current, destroyed, calls>>

\* CompleteHandshakeCall: only a completion without error or abort goes on.  The
\* result is read this once, and forgotten.
HandshakeWaited(wait, next) ==
  /\ thr["worker"].pc = wait
  /\ \/ /\ impl[current].handshake = "done" /\ ~impl[current].cancelled
        /\ Goto("worker", next)
     \/ /\ impl[current].handshake # "done" \/ impl[current].cancelled
        /\ CloseFrom("worker", current, "idle")
  /\ impl' = [impl EXCEPT ![current].handshake = "idle"]
  /\ UNCHANGED <<current, destroyed, calls>>

\* The status of the response: 101, or anything else, or no answer at all.
CheckStatus ==
  /\ thr["worker"].pc = "status"
  /\ \/ Goto("worker", "upgrade") /\ "request" \in impl[current].open
     \/ CloseFrom("worker", current, "idle")
  /\ UNCHANGED <<impl, current, destroyed, calls>>

\* Mutant: nobody looks whether the attempt was cancelled meanwhile.
UpgradeUnchecked ==
  /\ thr["worker"].pc = "upgrade"
  /\ impl' = [impl EXCEPT ![current] =
       [impl[current] EXCEPT !.connected = TRUE,
                             !.held = (@ \ {"request"}) \cup {"websocket"},
                             !.open = @ \cup {"websocket"}]]
  /\ thr' = [thr EXCEPT !["worker"].pc = "upgraded", !["worker"].took = {"request"}]
  /\ UNCHANGED <<current, destroyed, calls>>

\* The upgrade trades the request handle for that of the WebSocket.
Upgrade ==
  /\ thr["worker"].pc = "upgrade"
  /\ impl[current].closer = "none"
  /\ IF impl[current].cancelled \/ "request" \notin impl[current].held
     THEN Goto("worker", "idle") /\ impl' = impl
     ELSE \/ /\ impl' = [impl EXCEPT ![current] =
                  [impl[current] EXCEPT !.connected = TRUE,
                                        !.held = (@ \ {"request"}) \cup {"websocket"},
                                        !.open = @ \cup {"websocket"}]]
             /\ thr' = [thr EXCEPT !["worker"].pc = "upgraded",
                                   !["worker"].took = {"request"}]
          \/ impl' = impl /\ CloseFrom("worker", current, "idle")
  /\ UNCHANGED <<current, destroyed, calls>>

\* WinHttpCloseHandle(request), outside of the lock.
CloseRequest ==
  /\ thr["worker"].pc = "upgraded"
  /\ impl' = [impl EXCEPT ![current].open = @ \ thr["worker"].took]
  /\ Goto("worker", "idle")
  /\ UNCHANGED <<current, destroyed, calls>>

Connect ==
  \/ BeginConnect
  \/ \E stage \in DOMAIN NextStage : OpenHandle(stage)
  \/ HandshakeCall("sendRequest", "sendWait")
  \/ HandshakeWaited("sendWait", "receiveResponse")
  \/ HandshakeCall("receiveResponse", "responseWait")
  \/ HandshakeWaited("responseWait", "status")
  \/ CheckStatus \/ Upgrade \/ CloseRequest

(***************************************************************************)
(* Send.                                                                   *)
(***************************************************************************)

Refused(i) ==
  impl[i].cancelled \/ ~impl[i].connected \/ "websocket" \notin impl[i].held

\* A call on a handle: accepted, or refused, as when the handle is closed by now.
Accept(state, operation, failed) ==
  IF "websocket" \in state.open
  THEN {[state EXCEPT !.io = @ \cup {operation}], failed} ELSE {failed}

\* The payload is copied into the buffer that WinHTTP will read from.
BeginSend ==
  /\ thr["worker"].pc = "idle"
  /\ ~destroyed
  /\ calls < MaxCalls
  /\ calls' = calls + 1
  /\ IF Refused(current) THEN UNCHANGED <<impl, thr>>
     ELSE /\ LET filled == [impl[current] EXCEPT !.send = "pending",
                                                !.sendBuffer = calls + 1]
             IN  \E s \in Accept(filled, "send", [filled EXCEPT !.send = "failed"]) :
                   impl' = [impl EXCEPT ![current] = s]
          /\ thr' = [thr EXCEPT !["worker"].pc = "sendDone", !["worker"].on = current]
  /\ UNCHANGED <<current, destroyed>>

\* Mutant: a send that times out leaves the connection as it is.
SendTimesOutOpen ==
  /\ thr["worker"].pc = "sendDone"
  /\ impl' = IF Done(At("worker").send)
             THEN [impl EXCEPT ![thr["worker"].on] =
                     [@ EXCEPT !.send = "idle", !.sendBuffer = 0]]
             ELSE impl
  /\ Goto("worker", "idle")
  /\ UNCHANGED <<current, destroyed, calls>>

\* Completed, aborted, or timed out: only a completion clears the buffer, and
\* only a timeout closes the connection.
SendWaited ==
  /\ thr["worker"].pc = "sendDone"
  /\ \/ /\ Done(At("worker").send)
        /\ impl' = [impl EXCEPT ![thr["worker"].on] =
                      [@ EXCEPT !.send = "idle", !.sendBuffer = 0]]
        /\ Goto("worker", "idle")
     \/ /\ At("worker").send = "pending"
        /\ impl' = impl
        /\ IF At("worker").cancelled THEN Goto("worker", "idle")
           ELSE CloseFrom("worker", thr["worker"].on, "idle")
  /\ UNCHANGED <<current, destroyed, calls>>

Send == BeginSend \/ SendWaited

(***************************************************************************)
(* Receive: a receive that is still pending when the time is over stays so,*)
(* and a later call takes its message.                                     *)
(***************************************************************************)

\* Mutant: every call starts a receive of its own.
BeginReceiveAnew ==
  /\ thr["receiver"].pc = "idle"
  /\ ~destroyed
  /\ ~Refused(current)
  /\ LET begun == [impl[current] EXCEPT !.receive = "pending"]
     IN  \E s \in Accept(begun, "receive", [begun EXCEPT !.receive = "failed"]) :
           impl' = [impl EXCEPT ![current] = s]
  /\ thr' = [thr EXCEPT !["receiver"].on = current, !["receiver"].pc = "receiveDone"]
  /\ UNCHANGED <<current, destroyed, calls>>

BeginReceive ==
  /\ thr["receiver"].pc = "idle"
  /\ ~destroyed
  /\ ~Refused(current)
  /\ IF impl[current].receive # "idle" THEN impl' = impl
     ELSE LET begun == [impl[current] EXCEPT !.receive = "pending"]
          IN  \E s \in Accept(begun, "receive", [begun EXCEPT !.receive = "failed"]) :
                impl' = [impl EXCEPT ![current] = s]
  /\ thr' = [thr EXCEPT !["receiver"].on = current, !["receiver"].pc = "receiveDone"]
  /\ UNCHANGED <<current, destroyed, calls>>

ReceiveWaited ==
  LET s == At("receiver")
  IN  /\ thr["receiver"].pc = "receiveDone"
      /\ impl' = IF ~Done(s.receive) THEN impl
                 ELSE [impl EXCEPT ![thr["receiver"].on] =
                        [s EXCEPT !.receive = "idle",
                           !.got = IF s.receive = "done" THEN Append(@, s.arrived) ELSE @]]
      /\ Goto("receiver", "idle")
      /\ UNCHANGED <<current, destroyed, calls>>

Receive == BeginReceive \/ ReceiveWaited

(***************************************************************************)
(* Abort, Close and the destructor.                                        *)
(***************************************************************************)

Abort ==
  /\ thr["app"].pc = "idle"
  /\ ~destroyed
  /\ calls < MaxCalls
  /\ calls' = calls + 1
  /\ CloseFrom("app", current, "idle")
  /\ UNCHANGED <<impl, current, destroyed>>

Close ==
  /\ thr["worker"].pc = "idle"
  /\ ~destroyed
  /\ calls < MaxCalls
  /\ calls' = calls + 1
  /\ CloseFrom("worker", current, "idle")
  /\ UNCHANGED <<impl, current, destroyed>>

\* ~Transport: Close() and the release of impl_.  The session has joined its
\* receiver and cleared the pointer of its Abort() before.
BeginDestroy ==
  /\ \A t \in Threads : thr[t].pc = "idle"
  /\ ~destroyed
  /\ CloseFrom("worker", current, "destroy")
  /\ destroyed' = TRUE
  /\ UNCHANGED <<impl, current, calls>>

Destroy ==
  /\ thr["worker"].pc = "destroy"
  /\ Goto("worker", "idle")
  /\ UNCHANGED <<impl, current, destroyed, calls>>

(***************************************************************************)
(* WinHTTP and its callbacks.  StatusCallback ignores whatever comes when  *)
(* the context has been given up.                                          *)
(***************************************************************************)

Arrived == FoldFunction(+, 0, [i \in DOMAIN impl |-> impl[i].arrived])

\* An operation completes or fails; a closed handle makes it fail.
StatusCallback(i, operation) ==
  /\ operation \in impl[i].io
  /\ \E end \in {"done", "failed"} :
       /\ LET handle == IF operation = "handshake" THEN "request" ELSE "websocket"
          IN  end = "done" => handle \in impl[i].open
       /\ operation = "receive" /\ end = "done" => Arrived < MaxMessages
       /\ LET s == [impl[i] EXCEPT !.io = @ \ {operation}]
              e == IF impl[i].selfKeepAlive THEN end ELSE "lost"
          IN  impl' = [impl EXCEPT ![i] =
                IF e = "lost" THEN s
                ELSE IF operation = "handshake"
                THEN IF s.handshake = "waiting" THEN [s EXCEPT !.handshake = e] ELSE s
                ELSE IF operation = "send" THEN [s EXCEPT !.send = e]
                ELSE [s EXCEPT !.receive = e,
                               !.arrived = IF e = "done" THEN @ + 1 ELSE @]]
  /\ UNCHANGED <<current, destroyed, thr, calls>>

\* HANDLE_CLOSING of the session, the last callback of all.
HandleClosing(i) ==
  /\ impl[i].closing
  /\ impl[i].open = {} /\ impl[i].io = {}
  /\ impl' = [impl EXCEPT ![i] =
       [@ EXCEPT !.closing = FALSE, !.sessionClosed = impl[i].selfKeepAlive,
                 !.selfKeepAlive = FALSE]]
  /\ UNCHANGED <<current, destroyed, thr, calls>>

WinHttp ==
  \E i \in DOMAIN impl :
    \/ \E operation \in Operations : StatusCallback(i, operation)
    \/ HandleClosing(i)

(***************************************************************************)
(* The specification.                                                      *)
(***************************************************************************)

Init ==
  /\ impl = [i \in 0..MaxConnects |-> EmptyImpl]
  /\ current = 0
  /\ destroyed = FALSE
  /\ thr = [t \in Threads |-> Idle]
  /\ calls = 0

Closing(t) == TakeHandles(t) \/ CloseHandles(t) \/ CloseWaited(t)

Next ==
  \/ Connect \/ Send \/ Receive
  \/ Abort \/ Close \/ BeginDestroy \/ Destroy
  \/ \E t \in Threads : Closing(t)
  \/ WinHttp

Spec == Init /\ [][Next]_vars

\* A call that has begun goes on, and each of its waits has a deadline.  WinHTTP
\* owes it nothing.
GoesOn(t) ==
  /\ thr[t].pc # "idle"
  /\ \/ Closing(t)
     \/ t = "worker" /\ (Connect \/ Send \/ Destroy)
     \/ t = "receiver" /\ Receive

FairSpec == Spec /\ \A t \in Threads : WF_vars(GoesOn(t))

(***************************************************************************)
(* Properties.                                                             *)
(***************************************************************************)

\* Whatever Abort(), Close(), the timeouts and the steps of Connect() do to each
\* other: a handle of WinHTTP is either in the state, where the next close finds
\* it, or one thread has taken it out and is about to close it.  None is closed
\* twice, and none is left open behind a connection that was given up.
Taken(t, i) == IF thr[t].on = i THEN thr[t].took ELSE {}

HandlesHaveOneOwner ==
  \A i \in DOMAIN impl :
    /\ impl[i].open = impl[i].held \cup UNION {Taken(t, i) : t \in Threads}
    /\ \A t \in Threads :
         /\ Taken(t, i) \cap impl[i].held = {}
         /\ \A u \in Threads \ {t} : Taken(t, i) \cap Taken(u, i) = {}

\* A receive that timed out goes on in the background; its message is handed out
\* by a later call, so the messages of a connection come complete and in order.
MessagesInOrder ==
  \A i \in DOMAIN impl :
    impl[i].got \o (IF impl[i].receive = "done" THEN <<impl[i].arrived>> ELSE <<>>)
      = [n \in 1..impl[i].arrived |-> n]

\* An attempt that was aborted once never comes up, however late its handshake is.
AbortIsFinal ==
  [][\A i \in DOMAIN impl :
       impl[i].cancelled => impl'[i].cancelled /\ ~impl'[i].connected]_vars

\* "The send buffer must remain valid until WRITE_COMPLETE" (:661): no later call
\* writes the buffer of a send that timed out or was aborted.
SendBufferStable ==
  [][\A i \in DOMAIN impl :
       "send" \in impl[i].io => impl'[i].sendBuffer = impl[i].sendBuffer]_vars

\* Every call returns, although WinHTTP may never complete anything.
CallsReturn == \A t \in Threads : (thr[t].pc # "idle") ~> (thr[t].pc = "idle")

\* The comment at :257 says that selfKeepAlive keeps the callback context valid
\* until WinHTTP delivers the terminal callback.
Alive(i) ==
  \/ impl[i].selfKeepAlive
  \/ i = current /\ ~destroyed
  \/ \E t \in Threads : thr[t].pc # "idle" /\ thr[t].on = i
  \/ thr["worker"].pc # "idle" /\ i + 1 = current

ContextOutlivesCallbacks ==
  \A i \in DOMAIN impl : impl[i].closing \/ impl[i].io # {} => Alive(i)
=============================================================================
