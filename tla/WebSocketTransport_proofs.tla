----------------------- MODULE WebSocketTransport_proofs -----------------------
(***************************************************************************)
(* Theorems about WebSocketTransport, for any number of connections, calls *)
(* and messages.                                                           *)
(*                                                                         *)
(* A step is one of few kinds: it gives no handle away (QuietStep), or it  *)
(* moves handles between an Impl and the thread that is to close them.     *)
(***************************************************************************)
EXTENDS WebSocketTransport, SequenceTheorems, TLAPS

Attempt == 0..MaxConnects

Outcomes == {"idle", "pending", "done", "failed"}

Impls ==
  [cancelled : BOOLEAN, connected : BOOLEAN, held : SUBSET Handles,
   open : SUBSET Handles, closer : {"none"} \union Threads, closing : BOOLEAN,
   sessionClosed : BOOLEAN, selfKeepAlive : BOOLEAN, io : SUBSET Operations,
   handshake : {"idle", "waiting", "done", "failed"}, send : Outcomes,
   sendBuffer : Nat, receive : Outcomes, arrived : Nat, got : Seq(Nat)]

\* The steps of Connect() that work on impl_ itself.
Connecting ==
  {"connect", "request", "options", "sendRequest", "sendWait", "receiveResponse",
   "responseWait", "status", "upgrade", "upgraded"}

CloseSteps == {"close", "closing", "closeWait"}

StepsOf(t) ==
  IF t = "receiver" THEN {"idle", "receiveDone"}
  ELSE IF t = "app" THEN {"idle"} \union CloseSteps
  ELSE {"idle", "session", "sendDone", "destroy"} \union CloseSteps \union Connecting

BackOf(t) == IF t = "worker" THEN {"idle", "session", "destroy"} ELSE {"idle"}

Jobs ==
  [pc : UNION {StepsOf(t) : t \in Threads}, on : Attempt, took : SUBSET Handles,
   back : {"idle", "session", "destroy"}]

TypeInv ==
  /\ impl \in [Attempt -> Impls]
  /\ current \in Attempt
  /\ destroyed \in BOOLEAN
  /\ thr \in [Threads -> Jobs]
  /\ calls \in Nat

\* Handles are in a thread's hand only where it closes them next.
JobOK(t, s) ==
  /\ s.pc \in StepsOf(t)
  /\ s.back \in BackOf(t)
  /\ s.took # {} => s.pc \in {"closing", "upgraded"}
  /\ s.pc \in Connecting => s.on = current

ThreadInv == \A t \in Threads : JobOK(t, thr[t])

\* closeMutex: who is in AbortAndClose has it, and has cancelled the attempt.
Busy(s) == s.pc \in {"closing", "closeWait"}

CloserInv ==
  \A t \in Threads :
    Busy(thr[t]) => At(t).closer = t /\ At(t).cancelled

\* What WinHTTP has accepted is still pending in the state; a cancelled attempt is
\* not connected; the messages are those that arrived.
ImplOK(a) ==
  /\ a.cancelled => ~a.connected
  /\ "send" \in a.io => a.send = "pending"
  /\ "receive" \in a.io => a.receive = "pending"
  /\ a.got \o (IF a.receive = "done" THEN <<a.arrived>> ELSE <<>>)
       = [n \in 1..a.arrived |-> n]

ImplInv == \A i \in Attempt : ImplOK(impl[i])

\* A send that WinHTTP still has is waited for, or its connection is closed, or it
\* is about to be.
SendInv ==
  \A i \in Attempt :
    "send" \in impl[i].io =>
      \/ impl[i].cancelled
      \/ thr["worker"].on = i /\ thr["worker"].pc \in {"sendDone", "close"}

\* HandlesHaveOneOwner, handle by handle: I are the attempts, T the threads.
OneOwner(I, T, i, h) ==
  /\ h \in I[i].open <=>
       h \in I[i].held \/ \E t \in Threads : T[t].on = i /\ h \in T[t].took
  /\ \A t \in Threads :
       T[t].on = i /\ h \in T[t].took =>
         /\ h \notin I[i].held
         /\ \A u \in Threads \ {t} : ~(T[u].on = i /\ h \in T[u].took)

OwnerInv == \A i \in Attempt, h \in Handles : OneOwner(impl, thr, i, h)

Inv == TypeInv /\ ThreadInv /\ CloserInv /\ OwnerInv /\ ImplInv /\ SendInv

\* What a step may never do to an attempt.
Final == \A i \in Attempt : impl[i].cancelled => impl'[i].cancelled

Stable ==
  \A i \in Attempt : "send" \in impl[i].io => impl'[i].sendBuffer = impl[i].sendBuffer

---------------------------------------------------------------------------
(***************************************************************************)
(* The kinds of steps.                                                     *)
(***************************************************************************)

LEMMA Owners ==
  ASSUME TypeInv, OwnerInv
  PROVE  HandlesHaveOneOwner
<1>1. DOMAIN impl = Attempt
  BY DEF TypeInv
<1>2. ASSUME NEW i \in Attempt
      PROVE  /\ impl[i].open = impl[i].held \union UNION {Taken(t, i) : t \in Threads}
             /\ \A t \in Threads :
                  /\ Taken(t, i) \cap impl[i].held = {}
                  /\ \A u \in Threads \ {t} : Taken(t, i) \cap Taken(u, i) = {}
  <2>1. impl[i].open \subseteq Handles /\ impl[i].held \subseteq Handles
    BY DEF TypeInv, Impls
  <2>2. \A t \in Threads : Taken(t, i) \subseteq Handles
    BY DEF TypeInv, Jobs, Taken
  <2>3. \A t \in Threads, h \in Handles :
          thr[t].on = i /\ h \in thr[t].took <=> h \in Taken(t, i)
    BY DEF Taken
  <2>4. \A h \in Handles : h \in impl[i].open <=>
          h \in impl[i].held \/ \E t \in Threads : h \in Taken(t, i)
    BY <2>3 DEF OwnerInv, OneOwner
  <2>5. \A t \in Threads, h \in Handles :
          h \in Taken(t, i) =>
            h \notin impl[i].held /\ \A u \in Threads \ {t} : h \notin Taken(u, i)
    BY <2>3 DEF OwnerInv, OneOwner
  <2>6. impl[i].open = impl[i].held \union UNION {Taken(t, i) : t \in Threads}
    BY <2>1, <2>2, <2>4
  <2> QED
    BY <2>2, <2>5, <2>6
<1> QED
  BY <1>1, <1>2 DEF HandlesHaveOneOwner

\* What the worker gives up has no send that WinHTTP still has, or is cancelled.
SendKept(t, s, i, a) ==
  /\ "send" \in a.io =>
       \/ "send" \in impl[i].io \/ a.cancelled
       \/ t = "worker" /\ s.on = i /\ s.pc \in {"sendDone", "close"}
  /\ t = "worker" /\ thr[t].pc \in {"sendDone", "close"} =>
       \/ s.on = thr[t].on /\ s.pc \in {"sendDone", "close"}
       \/ impl[thr[t].on].cancelled
       \/ thr[t].on = i /\ (a.cancelled \/ "send" \notin a.io)

\* What a step of thread t makes of attempt i and of its own job.
LEMMA OneStep ==
  ASSUME Inv, NEW i \in Attempt, NEW a \in Impls, NEW t \in Threads, NEW s \in Jobs,
         impl' = [impl EXCEPT ![i] = a], thr' = [thr EXCEPT ![t] = s],
         current' \in Attempt, destroyed' \in BOOLEAN, calls' \in Nat,
         current' = current \/ t = "worker",
         s.pc \in StepsOf(t), s.back \in BackOf(t),
         s.took # {} => s.pc \in {"closing", "upgraded"},
         s.pc \in Connecting => s.on = current',
         Busy(s) => s.on = i /\ a.closer = t /\ a.cancelled,
         a.closer = impl[i].closer \/ impl[i].closer \in {"none", t},
         impl[i].cancelled => a.cancelled,
         "send" \in impl[i].io => a.sendBuffer = impl[i].sendBuffer,
         ImplOK(a), SendKept(t, s, i, a),
         thr[t].took = {} \/ thr[t].on = i, s.took = {} \/ s.on = i,
         \A h \in Handles : OneOwner(impl', thr', i, h)
  PROVE  Inv' /\ Final /\ Stable
<1>0. /\ impl \in [Attempt -> Impls] /\ thr \in [Threads -> Jobs]
      /\ \A j \in Attempt : impl[j] \in Impls
      /\ \A u \in Threads : thr[u] \in Jobs /\ thr[u].on \in Attempt
  BY DEF Inv, TypeInv, Jobs
<1>1. TypeInv'
  BY <1>0 DEF TypeInv
<1>2. /\ impl'[i] = a /\ \A j \in Attempt \ {i} : impl'[j] = impl[j]
      /\ thr'[t] = s /\ \A u \in Threads \ {t} : thr'[u] = thr[u]
      /\ "worker" \in Threads
  BY <1>0 DEF Threads
<1>3. ThreadInv'
  <2>1. ASSUME NEW u \in Threads, u # t
        PROVE  JobOK(u, thr[u])'
    <3>1. JobOK(u, thr[u]) /\ thr'[u] = thr[u]
      BY <1>2, <2>1 DEF Inv, ThreadInv
    <3>2. thr[u].pc \in Connecting => current' = current
      BY <2>1, <3>1 DEF JobOK, StepsOf, Connecting, CloseSteps, Threads
    <3> QED
      BY <3>1, <3>2 DEF JobOK
  <2>2. JobOK(t, thr[t])'
    BY <1>2 DEF JobOK
  <2> QED
    BY <2>1, <2>2 DEF ThreadInv
<1>4. CloserInv'
  <2>1. ASSUME NEW u \in Threads \ {t}, Busy(thr'[u])
        PROVE  impl'[thr'[u].on].closer = u /\ impl'[thr'[u].on].cancelled
    <3>1. thr'[u] = thr[u]
      BY <1>2
    <3>2. impl[thr[u].on].closer = u /\ impl[thr[u].on].cancelled
      BY <2>1, <3>1 DEF Inv, CloserInv, At
    <3>3. u # "none"
      BY DEF Threads
    <3> QED
      BY <1>0, <1>2, <3>1, <3>2, <3>3
  <2>2. Busy(thr'[t]) => impl'[thr'[t].on].closer = t /\ impl'[thr'[t].on].cancelled
    BY <1>2
  <2> QED
    BY <2>1, <2>2 DEF CloserInv, At, Busy
<1>5. OwnerInv'
  <2>1. ASSUME NEW j \in Attempt \ {i}, NEW h \in Handles
        PROVE  OneOwner(impl', thr', j, h)
    BY <1>2, <2>1 DEF Inv, OwnerInv, OneOwner
  <2> QED
    BY <2>1 DEF OwnerInv, OneOwner
<1>6. ImplInv'
  <2>1. \A j \in Attempt : ImplOK(impl'[j])
    BY <1>2 DEF Inv, ImplInv
  <2> QED
    BY <2>1 DEF ImplInv, ImplOK
<1>7. SendInv'
  <2> SUFFICES ASSUME NEW j \in Attempt, "send" \in impl'[j].io, ~impl'[j].cancelled
               PROVE  thr'["worker"].on = j /\ thr'["worker"].pc \in {"sendDone", "close"}
    BY DEF SendInv
  <2>1. ~impl[j].cancelled
    BY <1>2
  <2>2. CASE "send" \notin impl[j].io
    BY <1>2, <2>2 DEF SendKept
  <2>3. CASE "send" \in impl[j].io
    <3>1. thr["worker"].on = j /\ thr["worker"].pc \in {"sendDone", "close"}
      BY <2>1, <2>3 DEF Inv, SendInv
    <3> QED
      BY <1>2, <2>1, <3>1 DEF SendKept
  <2> QED
    BY <2>2, <2>3
<1>8. Final /\ Stable
  BY <1>2 DEF Final, Stable
<1> QED
  BY <1>1, <1>3, <1>4, <1>5, <1>6, <1>7, <1>8 DEF Inv

\* A step of thread t that opens, closes and takes no handle.
LEMMA QuietStep ==
  ASSUME Inv, NEW i \in Attempt, NEW a \in Impls, NEW t \in Threads, NEW s \in Jobs,
         impl' = [impl EXCEPT ![i] = a], thr' = [thr EXCEPT ![t] = s],
         current' \in Attempt, destroyed' \in BOOLEAN, calls' \in Nat,
         current' = current \/ t = "worker",
         s.pc \in StepsOf(t), s.back \in BackOf(t), s.took = {}, ~Busy(s),
         s.pc \in Connecting => s.on = current',
         thr[t].took = {},
         a.held = impl[i].held, a.open = impl[i].open,
         a.cancelled = impl[i].cancelled,
         a.closer = impl[i].closer \/ impl[i].closer = t,
         "send" \in impl[i].io => a.sendBuffer = impl[i].sendBuffer,
         ImplOK(a), SendKept(t, s, i, a)
  PROVE  Inv' /\ Final /\ Stable
<1>1. /\ impl'[i] = a
      /\ thr'[t] = s /\ \A u \in Threads \ {t} : thr'[u] = thr[u]
  BY DEF Inv, TypeInv
<1>2. \A h \in Handles : OneOwner(impl', thr', i, h)
  BY <1>1 DEF Inv, OwnerInv, OneOwner
<1> QED
  BY <1>2, OneStep

\* A step of a thread on its own job only.
LEMMA ThreadStep ==
  ASSUME Inv, NEW t \in Threads, NEW s \in Jobs,
         thr' = [thr EXCEPT ![t] = s], UNCHANGED impl,
         current' \in Attempt, destroyed' \in BOOLEAN, calls' \in Nat,
         current' = current \/ t = "worker",
         s.pc \in StepsOf(t), s.back \in BackOf(t), s.took = {}, ~Busy(s),
         s.pc \in Connecting => s.on = current',
         thr[t].took = {},
         SendKept(t, s, s.on, impl[s.on])
  PROVE  Inv' /\ Final /\ Stable
<1>1. s.on \in Attempt /\ impl \in [Attempt -> Impls]
  BY DEF Inv, TypeInv, Jobs
<1>2. impl[s.on] \in Impls /\ impl' = [impl EXCEPT ![s.on] = impl[s.on]]
  BY <1>1
<1>3. ImplOK(impl[s.on])
  BY <1>1 DEF Inv, ImplInv
<1> QED
  BY <1>1, <1>2, <1>3, QuietStep

\* A callback: it touches what WinHTTP has of an attempt, and no handle.
LEMMA CallbackStep ==
  ASSUME Inv, NEW i \in Attempt, NEW a \in Impls,
         impl' = [impl EXCEPT ![i] = a], UNCHANGED <<current, destroyed, thr, calls>>,
         a.held = impl[i].held, a.open = impl[i].open, a.closer = impl[i].closer,
         a.cancelled = impl[i].cancelled, a.sendBuffer = impl[i].sendBuffer,
         a.io \subseteq impl[i].io, ImplOK(a)
  PROVE  Inv' /\ Final /\ Stable
<1>0. /\ impl \in [Attempt -> Impls] /\ thr \in [Threads -> Jobs]
      /\ \A u \in Threads : thr[u].on \in Attempt
  BY DEF Inv, TypeInv, Jobs
<1>1. TypeInv'
  BY <1>0 DEF Inv, TypeInv
<1>2. impl'[i] = a /\ \A j \in Attempt \ {i} : impl'[j] = impl[j]
  BY <1>0
<1>3. ThreadInv'
  BY DEF Inv, ThreadInv, JobOK
<1>4. CloserInv'
  BY <1>0, <1>2 DEF Inv, CloserInv, At, Busy
<1>5. OwnerInv'
  <2>1. \A j \in Attempt : impl'[j].held = impl[j].held /\ impl'[j].open = impl[j].open
    BY <1>2
  <2> QED
    BY <2>1 DEF Inv, OwnerInv, OneOwner
<1>6. ImplInv'
  <2>1. \A j \in Attempt : ImplOK(impl'[j])
    BY <1>2 DEF Inv, ImplInv
  <2> QED
    BY <2>1 DEF ImplInv, ImplOK
<1>7. SendInv'
  BY <1>2 DEF Inv, SendInv
<1>8. Final /\ Stable
  BY <1>2 DEF Final, Stable
<1> QED
  BY <1>1, <1>3, <1>4, <1>5, <1>6, <1>7, <1>8 DEF Inv

---------------------------------------------------------------------------
(***************************************************************************)
(* AbortAndClose.                                                          *)
(***************************************************************************)

\* Jobs and attempts, opened.
LEMMA JobFields ==
  ASSUME Inv, NEW t \in Threads
  PROVE  /\ thr[t].pc \in StepsOf(t) /\ thr[t].back \in BackOf(t)
         /\ thr[t].on \in Attempt /\ thr[t].took \subseteq Handles
         /\ thr[t].back \in {"idle", "session", "destroy"}
         /\ thr[t].took # {} => thr[t].pc \in {"closing", "upgraded"}
         /\ thr[t].pc \in Connecting => thr[t].on = current
         /\ At(t) = impl[thr[t].on] /\ At(t) \in Impls /\ ImplOK(At(t))
  BY DEF Inv, TypeInv, Jobs, ThreadInv, JobOK, At, ImplInv

LEMMA Steps ==
  /\ "worker" \in Threads /\ "receiver" \in Threads /\ "app" \in Threads
  /\ \A t \in Threads : StepsOf(t) \subseteq UNION {StepsOf(u) : u \in Threads}
  /\ \A t \in {"worker", "app"} :
       {"idle", "close", "closing", "closeWait"} \subseteq StepsOf(t)
  /\ \A t \in Threads : BackOf(t) \subseteq StepsOf(t)
  /\ StepsOf("receiver") = {"idle", "receiveDone"}
  /\ {"session", "destroy", "sendDone"} \union Connecting \subseteq StepsOf("worker")
  BY DEF Threads, StepsOf, BackOf, CloseSteps, Connecting

LEMMA IdleJob ==
  /\ Idle \in Jobs /\ Idle.pc = "idle" /\ Idle.back = "idle" /\ Idle.took = {}
  /\ \A t \in Threads : Idle.pc \in StepsOf(t) /\ Idle.back \in BackOf(t)
  /\ ~Busy(Idle) /\ Idle.pc \notin Connecting /\ Idle.on = 0
<1>1. /\ "idle" \in UNION {StepsOf(u) : u \in Threads}
      /\ 0 \in Attempt /\ {} \in SUBSET Handles
  BY Steps, TransportAssumption DEF Attempt, BackOf
<1>2. Idle \in Jobs
  BY <1>1 DEF Idle, Jobs
<1> QED
  BY <1>2, Steps DEF Idle, BackOf, Busy, Connecting, StepsOf

\* closeMutex and what it guards, in one step of the thread that closes.
LEMMA ClosePermission ==
  ASSUME Inv, NEW t \in Threads, thr[t].pc \in CloseSteps
  PROVE  t \in {"worker", "app"}
  BY JobFields, Steps DEF CloseSteps, Threads

LEMMA TakeHandlesKeeps ==
  ASSUME Inv, NEW t \in Threads, TakeHandles(t)
  PROVE  Inv' /\ Final /\ Stable
<1> DEFINE i == thr[t].on
           a == [impl[i] EXCEPT !.closer = t, !.cancelled = TRUE, !.connected = FALSE,
                                !.held = {}]
           s == [thr[t] EXCEPT !.pc = "closing", !.took = impl[i].held]
<1>0. /\ impl \in [Attempt -> Impls] /\ thr \in [Threads -> Jobs]
      /\ i \in Attempt /\ impl[i] \in Impls /\ thr[t] \in Jobs
      /\ \A u \in Threads : thr[u].on \in Attempt
  BY DEF Inv, TypeInv, Jobs
<1>1. /\ thr[t].pc = "close" /\ impl[i].closer = "none"
      /\ impl' = [impl EXCEPT ![i] = a]
      /\ thr' = [thr EXCEPT ![t] = s]
      /\ UNCHANGED <<current, destroyed, calls>>
  BY <1>0 DEF TakeHandles, At
<1>2. thr[t].took = {} /\ t \in {"worker", "app"} /\ thr[t].back \in BackOf(t)
  BY <1>1, JobFields, ClosePermission DEF CloseSteps
<1>3. a \in Impls /\ a.closer = t /\ a.cancelled /\ ~a.connected /\ a.held = {}
      /\ a.open = impl[i].open /\ a.io = impl[i].io /\ a.send = impl[i].send
      /\ a.receive = impl[i].receive /\ a.got = impl[i].got
      /\ a.arrived = impl[i].arrived /\ a.sendBuffer = impl[i].sendBuffer
  BY <1>0 DEF Impls
<1>4. /\ s \in Jobs /\ s.pc = "closing" /\ s.took = impl[i].held
      /\ s.on = i /\ s.back = thr[t].back
  <2>1. "closing" \in UNION {StepsOf(u) : u \in Threads} /\ impl[i].held \in SUBSET Handles
    BY <1>0, Steps DEF Impls
  <2> QED
    BY <1>0, <2>1 DEF Jobs
<1>5. /\ impl'[i] = a /\ \A j \in Attempt \ {i} : impl'[j] = impl[j]
      /\ thr'[t] = s /\ \A u \in Threads \ {t} : thr'[u] = thr[u]
  BY <1>0, <1>1
<1> HIDE DEF a, s
<1>6. ImplOK(a)
  BY <1>0, <1>3 DEF Inv, ImplInv, ImplOK
<1>7. ASSUME NEW h \in Handles
      PROVE  OneOwner(impl', thr', i, h)
  <2>1. OneOwner(impl, thr, i, h)
    BY <1>0 DEF Inv, OwnerInv
  <2>2. /\ h \notin thr[t].took /\ h \notin impl'[i].held
        /\ impl'[i].open = impl[i].open
        /\ thr'[t].on = i /\ thr'[t].took = impl[i].held
    BY <1>2, <1>3, <1>4, <1>5
  <2> QED
    BY <1>5, <2>1, <2>2 DEF OneOwner
<1>8. SendKept(t, s, i, a)
  BY <1>3 DEF SendKept
<1>9. /\ s.pc \in StepsOf(t) /\ s.back \in BackOf(t) /\ s.pc \notin Connecting
      /\ current' \in Attempt /\ destroyed' \in BOOLEAN /\ calls' \in Nat
  BY <1>1, <1>2, <1>4, Steps DEF Connecting, Inv, TypeInv
<1> QED
  BY <1>0, <1>1, <1>2, <1>3, <1>4, <1>6, <1>7, <1>8, <1>9, OneStep

LEMMA CloseHandlesKeeps ==
  ASSUME Inv, NEW t \in Threads, CloseHandles(t)
  PROVE  Inv' /\ Final /\ Stable
<1> DEFINE i == thr[t].on
           took == thr[t].took
           last == "session" \in took
           a == [impl[i] EXCEPT !.open = @ \ took, !.closing = @ \/ last,
                                !.selfKeepAlive = @ /\ last,
                                !.closer = IF last THEN t ELSE "none"]
           s == IF ~last /\ thr[t].back = "idle" THEN Idle
                ELSE [thr[t] EXCEPT !.pc = IF last THEN "closeWait" ELSE thr[t].back,
                                    !.took = {}]
<1>0. /\ impl \in [Attempt -> Impls] /\ thr \in [Threads -> Jobs]
      /\ i \in Attempt /\ impl[i] \in Impls /\ thr[t] \in Jobs
      /\ took \subseteq Handles
  BY DEF Inv, TypeInv, Jobs
<1>1. /\ thr[t].pc = "closing"
      /\ impl' = [impl EXCEPT ![i] = a]
      /\ thr' = [thr EXCEPT ![t] = s]
      /\ UNCHANGED <<current, destroyed, calls>>
  <2>1. impl' = [impl EXCEPT ![i] = a]
    BY <1>0 DEF CloseHandles, At
  <2>2. thr' = [thr EXCEPT ![t] = s]
    BY <1>0 DEF CloseHandles
  <2> QED
    BY <2>1, <2>2 DEF CloseHandles
<1>2. /\ t \in {"worker", "app"} /\ thr[t].back \in BackOf(t)
      /\ impl[i].closer = t /\ impl[i].cancelled
  <2>1. Busy(thr[t])
    BY <1>1 DEF Busy
  <2> QED
    BY <1>1, <2>1, JobFields, ClosePermission DEF CloseSteps, Inv, CloserInv, At
<1>3. /\ a \in Impls /\ a.closer = (IF last THEN t ELSE "none") /\ a.cancelled
      /\ ~a.connected /\ a.held = impl[i].held
      /\ a.open = impl[i].open \ took /\ a.io = impl[i].io /\ a.send = impl[i].send
      /\ a.receive = impl[i].receive /\ a.got = impl[i].got
      /\ a.arrived = impl[i].arrived /\ a.sendBuffer = impl[i].sendBuffer
  <2>1. /\ impl[i].open \ took \in SUBSET Handles
        /\ (impl[i].closing \/ last) \in BOOLEAN
        /\ (impl[i].selfKeepAlive /\ last) \in BOOLEAN
        /\ (IF last THEN t ELSE "none") \in {"none"} \union Threads
    BY <1>0 DEF Impls
  <2>2. impl[i].cancelled /\ ~impl[i].connected
    BY <1>0, <1>2 DEF Inv, ImplInv, ImplOK
  <2> DEFINE opened == impl[i].open \ took
             closing == impl[i].closing \/ last
             kept == impl[i].selfKeepAlive /\ last
             closer == IF last THEN t ELSE "none"
  <2>3. a = [impl[i] EXCEPT !.open = opened, !.closing = closing,
                            !.selfKeepAlive = kept, !.closer = closer]
    BY <1>0 DEF Impls
  <2>4. opened \in SUBSET Handles /\ closing \in BOOLEAN /\ kept \in BOOLEAN
        /\ closer \in {"none"} \union Threads
    BY <2>1
  <2> HIDE DEF a, opened, closing, kept, closer
  <2>5. /\ a \in Impls /\ a.closer = closer /\ a.cancelled = impl[i].cancelled
        /\ a.connected = impl[i].connected /\ a.held = impl[i].held
        /\ a.open = opened /\ a.io = impl[i].io /\ a.send = impl[i].send
        /\ a.receive = impl[i].receive /\ a.got = impl[i].got
        /\ a.arrived = impl[i].arrived /\ a.sendBuffer = impl[i].sendBuffer
    BY <1>0, <2>3, <2>4 DEF Impls
  <2> QED
    BY <2>2, <2>5 DEF opened, closer
<1>4. /\ s \in Jobs /\ s.took = {} /\ s.back \in BackOf(t)
      /\ s.pc \in StepsOf(t) /\ s.pc \notin Connecting
      /\ Busy(s) => s.on = i /\ last
  <2>1. CASE ~last /\ thr[t].back = "idle"
    BY <1>2, <2>1, IdleJob
  <2>2. CASE ~(~last /\ thr[t].back = "idle")
    <3> DEFINE pc == IF last THEN "closeWait" ELSE thr[t].back
    <3>1. pc \in StepsOf(t) /\ pc \notin Connecting /\ (pc = "closeWait" => last)
      BY <1>2, Steps, JobFields DEF Connecting, BackOf
    <3>2. pc # "closing"
      BY <1>2 DEF BackOf
    <3>3. s = [thr[t] EXCEPT !.pc = pc, !.took = {}]
      BY <2>2
    <3>4. pc \in UNION {StepsOf(u) : u \in Threads}
      BY <3>1, Steps
    <3> HIDE DEF s, pc
    <3>5. s \in Jobs /\ s.pc = pc /\ s.took = {} /\ s.on = i /\ s.back = thr[t].back
      BY <1>0, <3>3, <3>4 DEF Jobs
    <3> QED
      BY <1>2, <3>1, <3>2, <3>5 DEF Busy
  <2> QED
    BY <2>1, <2>2
<1>5. /\ impl'[i] = a /\ thr'[t] = s /\ \A u \in Threads \ {t} : thr'[u] = thr[u]
  BY <1>0, <1>1
<1> HIDE DEF a, s
<1>6. ImplOK(a)
  BY <1>0, <1>3 DEF Inv, ImplInv, ImplOK
<1>7. ASSUME NEW h \in Handles
      PROVE  OneOwner(impl', thr', i, h)
  <2>1. OneOwner(impl, thr, i, h)
    BY <1>0 DEF Inv, OwnerInv
  <2>2. /\ impl'[i].held = impl[i].held /\ impl'[i].open = impl[i].open \ thr[t].took
        /\ thr'[t].took = {}
    BY <1>3, <1>4, <1>5
  <2> QED
    BY <1>5, <2>1, <2>2 DEF OneOwner
<1>8. SendKept(t, s, i, a)
  BY <1>1, <1>3 DEF SendKept
<1>9. current' \in Attempt /\ destroyed' \in BOOLEAN /\ calls' \in Nat
  BY <1>1 DEF Inv, TypeInv
<1> QED
  BY <1>0, <1>1, <1>2, <1>3, <1>4, <1>6, <1>7, <1>8, <1>9, OneStep

\* Goto and CloseFrom, as the next job of the thread.
LEMMA GotoJob ==
  ASSUME Inv, NEW t \in Threads, NEW pc \in StepsOf(t), Goto(t, pc)
  PROVE  \E s \in Jobs :
           /\ thr' = [thr EXCEPT ![t] = s]
           /\ s.pc = pc /\ s.back \in BackOf(t)
           /\ pc = "idle" => s.took = {}
           /\ pc # "idle" => s.on = thr[t].on /\ s.took = thr[t].took
<1>0. thr \in [Threads -> Jobs] /\ thr[t] \in Jobs /\ thr[t].back \in BackOf(t)
  BY JobFields DEF Inv, TypeInv
<1>1. CASE pc = "idle"
  BY <1>1, IdleJob DEF Goto
<1>2. CASE pc # "idle"
  <2> DEFINE s == [thr[t] EXCEPT !.pc = pc]
  <2>1. thr' = [thr EXCEPT ![t] = s]
    BY <1>0, <1>2 DEF Goto
  <2>2. pc \in UNION {StepsOf(u) : u \in Threads}
    BY Steps
  <2>3. s \in Jobs /\ s.pc = pc /\ s.back = thr[t].back /\ s.on = thr[t].on
        /\ s.took = thr[t].took
    BY <1>0, <2>2 DEF Jobs
  <2> QED
    BY <1>0, <1>2, <2>1, <2>3
<1> QED
  BY <1>1, <1>2

LEMMA CloseFromJob ==
  ASSUME Inv, NEW t \in {"worker", "app"}, NEW i \in Attempt, NEW back \in BackOf(t),
         CloseFrom(t, i, back), thr[t].took = {}
  PROVE  \E s \in Jobs :
           /\ thr' = [thr EXCEPT ![t] = s]
           /\ s.pc = "close" /\ s.on = i /\ s.back = back /\ s.took = {}
<1> DEFINE s == [thr[t] EXCEPT !.pc = "close", !.on = i, !.back = back]
<1>0. t \in Threads /\ thr \in [Threads -> Jobs] /\ thr[t] \in Jobs
  BY DEF Inv, TypeInv, Threads
<1>1. thr' = [thr EXCEPT ![t] = s]
  BY <1>0 DEF CloseFrom
<1>2. /\ "close" \in UNION {StepsOf(u) : u \in Threads}
      /\ back \in {"idle", "session", "destroy"}
  BY <1>0, Steps DEF BackOf
<1>3. s \in Jobs /\ s.pc = "close" /\ s.on = i /\ s.back = back /\ s.took = {}
  BY <1>0, <1>2 DEF Jobs
<1> QED
  BY <1>1, <1>3

LEMMA CloseWaitedKeeps ==
  ASSUME Inv, NEW t \in Threads, CloseWaited(t)
  PROVE  Inv' /\ Final /\ Stable
<1> DEFINE i == thr[t].on
           a == [impl[i] EXCEPT !.closer = "none"]
<1>0. /\ impl \in [Attempt -> Impls] /\ thr \in [Threads -> Jobs]
      /\ i \in Attempt /\ impl[i] \in Impls
  BY DEF Inv, TypeInv, Jobs
<1>1. /\ thr[t].pc = "closeWait" /\ Goto(t, thr[t].back)
      /\ impl' = [impl EXCEPT ![i] = a]
      /\ UNCHANGED <<current, destroyed, calls>>
  BY <1>0 DEF CloseWaited, At
<1>2. /\ t \in {"worker", "app"} /\ thr[t].back \in BackOf(t) /\ thr[t].took = {}
      /\ impl[i].closer = t
  <2>1. Busy(thr[t])
    BY <1>1 DEF Busy
  <2> QED
    BY <1>1, <2>1, JobFields, ClosePermission DEF CloseSteps, Inv, CloserInv, At
<1>3. /\ a \in Impls /\ a.held = impl[i].held /\ a.open = impl[i].open
      /\ a.cancelled = impl[i].cancelled /\ a.connected = impl[i].connected
      /\ a.io = impl[i].io /\ a.send = impl[i].send /\ a.receive = impl[i].receive
      /\ a.got = impl[i].got /\ a.arrived = impl[i].arrived
      /\ a.sendBuffer = impl[i].sendBuffer
  BY <1>0 DEF Impls
<1>4. thr[t].back \in StepsOf(t)
  BY <1>2, Steps
<1>5. PICK s \in Jobs :
        /\ thr' = [thr EXCEPT ![t] = s]
        /\ s.pc = thr[t].back /\ s.back \in BackOf(t) /\ s.took = {}
  BY <1>1, <1>2, <1>4, GotoJob
<1>6. ~Busy(s) /\ s.pc \notin Connecting
  BY <1>2, <1>5 DEF Busy, Connecting, BackOf
<1> HIDE DEF a
<1>7. ImplOK(a) /\ SendKept(t, s, i, a)
  BY <1>0, <1>1, <1>3 DEF Inv, ImplInv, ImplOK, SendKept
<1>8. current' \in Attempt /\ destroyed' \in BOOLEAN /\ calls' \in Nat
  BY <1>1 DEF Inv, TypeInv
<1>9. a.closer = "none" => impl[i].closer = t
  BY <1>2
<1>10. \A h \in Handles : OneOwner(impl', thr', i, h)
  <2>1. /\ impl'[i] = a /\ thr'[t] = s /\ \A u \in Threads \ {t} : thr'[u] = thr[u]
    BY <1>0, <1>1, <1>5
  <2> QED
    BY <1>0, <1>2, <1>3, <1>5, <2>1 DEF Inv, OwnerInv, OneOwner
<1> QED
  BY <1>0, <1>1, <1>2, <1>3, <1>4, <1>5, <1>6, <1>7, <1>8, <1>10, OneStep

---------------------------------------------------------------------------
(***************************************************************************)
(* Connect.                                                                *)
(***************************************************************************)

\* What an attempt keeps when only its operations change.
LEMMA ImplFields ==
  ASSUME Inv, NEW i \in Attempt
  PROVE  impl \in [Attempt -> Impls] /\ impl[i] \in Impls /\ ImplOK(impl[i])
  BY DEF Inv, TypeInv, ImplInv

\* A thread that is not closing turns to AbortAndClose.
LEMMA CloseFromStep ==
  ASSUME Inv, NEW t \in {"worker", "app"}, NEW i \in Attempt, NEW back \in BackOf(t),
         CloseFrom(t, i, back), thr[t].took = {},
         NEW j \in Attempt, NEW a \in Impls, impl' = [impl EXCEPT ![j] = a],
         current' \in Attempt, destroyed' \in BOOLEAN, calls' \in Nat,
         current' = current \/ t = "worker",
         a.held = impl[j].held, a.open = impl[j].open, a.closer = impl[j].closer,
         a.cancelled = impl[j].cancelled, a.sendBuffer = impl[j].sendBuffer,
         a.io \subseteq impl[j].io \union {"handshake"}, ImplOK(a),
         t = "worker" /\ thr[t].pc \in {"sendDone", "close"} => thr[t].on = i
  PROVE  Inv' /\ Final /\ Stable
<1>1. PICK s \in Jobs :
        /\ thr' = [thr EXCEPT ![t] = s]
        /\ s.pc = "close" /\ s.on = i /\ s.back = back /\ s.took = {}
  BY CloseFromJob
<1>2. t \in Threads /\ s.pc \in StepsOf(t) /\ ~Busy(s) /\ s.pc \notin Connecting
  BY <1>1, Steps DEF Busy, Connecting, Threads
<1>3. SendKept(t, s, j, a)
  BY <1>1 DEF SendKept
<1> QED
  BY <1>1, <1>2, <1>3, QuietStep

\* A thread that is not closing goes on, without a send.
LEMMA GotoStep ==
  ASSUME Inv, NEW t \in Threads, NEW pc \in StepsOf(t) \ {"closing", "closeWait"},
         Goto(t, pc), thr[t].took = {},
         NEW j \in Attempt, NEW a \in Impls, impl' = [impl EXCEPT ![j] = a],
         UNCHANGED <<current, destroyed, calls>>,
         a.held = impl[j].held, a.open = impl[j].open, a.closer = impl[j].closer,
         a.cancelled = impl[j].cancelled, a.sendBuffer = impl[j].sendBuffer,
         a.io \subseteq impl[j].io \union {"handshake"}, ImplOK(a),
         pc \in Connecting => thr[t].on = current,
         thr[t].pc \notin {"sendDone", "close"}
  PROVE  Inv' /\ Final /\ Stable
<1>1. PICK s \in Jobs :
        /\ thr' = [thr EXCEPT ![t] = s]
        /\ s.pc = pc /\ s.back \in BackOf(t)
        /\ pc = "idle" => s.took = {}
        /\ pc # "idle" => s.on = thr[t].on /\ s.took = thr[t].took
  BY GotoJob
<1>2. s.took = {} /\ ~Busy(s) /\ s.pc \in StepsOf(t)
  BY <1>1 DEF Busy
<1>3. s.pc \in Connecting => s.on = current'
  BY <1>1 DEF Connecting
<1>4. SendKept(t, s, j, a)
  BY <1>1 DEF SendKept
<1>5. current' \in Attempt /\ destroyed' \in BOOLEAN /\ calls' \in Nat
  BY DEF Inv, TypeInv
<1> QED
  BY <1>1, <1>2, <1>3, <1>4, <1>5, QuietStep

LEMMA BeginConnectKeeps ==
  ASSUME Inv, BeginConnect
  PROVE  Inv' /\ Final /\ Stable
<1> DEFINE i == current + 1
           a == [impl[i] EXCEPT !.selfKeepAlive = TRUE]
<1>1. current \in Attempt /\ i \in Attempt
  BY TransportAssumption DEF BeginConnect, Inv, TypeInv, Attempt
<1>2. impl \in [Attempt -> Impls] /\ impl[i] \in Impls /\ ImplOK(impl[i])
  BY <1>1, ImplFields
<1>3. /\ thr["worker"].pc = "idle" /\ current' = i /\ UNCHANGED <<destroyed, calls>>
      /\ impl' = [impl EXCEPT ![i] = a] /\ CloseFrom("worker", current, "session")
  BY <1>2 DEF BeginConnect
<1>4. /\ a \in Impls /\ a.held = impl[i].held /\ a.open = impl[i].open
      /\ a.closer = impl[i].closer /\ a.cancelled = impl[i].cancelled
      /\ a.connected = impl[i].connected /\ a.sendBuffer = impl[i].sendBuffer
      /\ a.io = impl[i].io /\ a.send = impl[i].send /\ a.receive = impl[i].receive
      /\ a.got = impl[i].got /\ a.arrived = impl[i].arrived
  BY <1>2 DEF Impls
<1>5. thr["worker"].took = {} /\ "worker" \in Threads /\ "session" \in BackOf("worker")
  BY <1>3, JobFields, Steps DEF BackOf
<1> HIDE DEF a
<1>6. ImplOK(a)
  BY <1>2, <1>4 DEF ImplOK
<1>7. current' \in Attempt /\ destroyed' \in BOOLEAN /\ calls' \in Nat
  BY <1>1, <1>3 DEF Inv, TypeInv
<1> QED
  BY <1>1, <1>3, <1>4, <1>5, <1>6, <1>7, CloseFromStep

LEMMA HandshakeCallKeeps ==
  ASSUME Inv, NEW call \in Connecting, NEW wait \in Connecting \ {"upgraded"},
         call # "upgraded", HandshakeCall(call, wait)
  PROVE  Inv' /\ Final /\ Stable
<1> DEFINE i == current
           waits == [impl[i] EXCEPT !.handshake = "waiting", !.io = @ \union {"handshake"}]
           fails == [impl[i] EXCEPT !.handshake = "failed"]
           a == IF "request" \in impl[i].open THEN waits ELSE fails
<1>1. i \in Attempt /\ impl \in [Attempt -> Impls] /\ impl[i] \in Impls /\ ImplOK(impl[i])
  BY ImplFields DEF Inv, TypeInv
<1>2. /\ thr["worker"].pc = call /\ Goto("worker", wait)
      /\ UNCHANGED <<current, destroyed, calls>>
  BY DEF HandshakeCall
<1>3. impl' = [impl EXCEPT ![i] = a]
  BY <1>1 DEF HandshakeCall
<1>4. /\ waits \in Impls /\ waits.held = impl[i].held /\ waits.open = impl[i].open
      /\ waits.closer = impl[i].closer /\ waits.cancelled = impl[i].cancelled
      /\ waits.connected = impl[i].connected /\ waits.sendBuffer = impl[i].sendBuffer
      /\ waits.io = impl[i].io \union {"handshake"} /\ waits.send = impl[i].send
      /\ waits.receive = impl[i].receive /\ waits.got = impl[i].got
      /\ waits.arrived = impl[i].arrived
  <2>1. impl[i].io \union {"handshake"} \in SUBSET Operations
    BY <1>1 DEF Impls, Operations
  <2> QED
    BY <1>1, <2>1 DEF Impls
<1>5. /\ fails \in Impls /\ fails.held = impl[i].held /\ fails.open = impl[i].open
      /\ fails.closer = impl[i].closer /\ fails.cancelled = impl[i].cancelled
      /\ fails.connected = impl[i].connected /\ fails.sendBuffer = impl[i].sendBuffer
      /\ fails.io = impl[i].io /\ fails.send = impl[i].send
      /\ fails.receive = impl[i].receive /\ fails.got = impl[i].got
      /\ fails.arrived = impl[i].arrived
  BY <1>1 DEF Impls
<1> HIDE DEF waits, fails
<1>6. /\ a \in Impls /\ a.held = impl[i].held /\ a.open = impl[i].open
      /\ a.closer = impl[i].closer /\ a.cancelled = impl[i].cancelled
      /\ a.sendBuffer = impl[i].sendBuffer
      /\ a.io \subseteq impl[i].io \union {"handshake"}
  BY <1>4, <1>5
<1>7. ImplOK(a)
  BY <1>1, <1>4, <1>5 DEF ImplOK
<1> HIDE DEF a
<1>8. /\ "worker" \in Threads /\ thr["worker"].took = {}
      /\ thr["worker"].on = current
      /\ wait \in StepsOf("worker") \ {"closing", "closeWait"}
      /\ thr["worker"].pc \notin {"sendDone", "close"}
  BY <1>2, JobFields, Steps DEF Connecting
<1> QED
  BY <1>1, <1>2, <1>3, <1>6, <1>7, <1>8, GotoStep

LEMMA HandshakeWaitedKeeps ==
  ASSUME Inv, NEW wait \in Connecting, NEW next \in Connecting \ {"upgraded"},
         wait # "upgraded", HandshakeWaited(wait, next)
  PROVE  Inv' /\ Final /\ Stable
<1> DEFINE i == current
           a == [impl[i] EXCEPT !.handshake = "idle"]
<1>1. i \in Attempt /\ impl \in [Attempt -> Impls] /\ impl[i] \in Impls /\ ImplOK(impl[i])
  BY ImplFields DEF Inv, TypeInv
<1>2. /\ thr["worker"].pc = wait
      /\ Goto("worker", next) \/ CloseFrom("worker", current, "idle")
      /\ UNCHANGED <<current, destroyed, calls>>
  BY DEF HandshakeWaited
<1>3. impl' = [impl EXCEPT ![i] = a]
  BY <1>1 DEF HandshakeWaited
<1>4. /\ a \in Impls /\ a.held = impl[i].held /\ a.open = impl[i].open
      /\ a.closer = impl[i].closer /\ a.cancelled = impl[i].cancelled
      /\ a.connected = impl[i].connected /\ a.sendBuffer = impl[i].sendBuffer
      /\ a.io = impl[i].io /\ a.send = impl[i].send /\ a.receive = impl[i].receive
      /\ a.got = impl[i].got /\ a.arrived = impl[i].arrived
  BY <1>1 DEF Impls
<1> HIDE DEF a
<1>5. ImplOK(a)
  BY <1>1, <1>4 DEF ImplOK
<1>6. /\ "worker" \in Threads /\ thr["worker"].took = {}
      /\ thr["worker"].on = current /\ "idle" \in BackOf("worker")
      /\ next \in StepsOf("worker") \ {"closing", "closeWait"}
      /\ thr["worker"].pc \notin {"sendDone", "close"}
      /\ current' \in Attempt /\ destroyed' \in BOOLEAN /\ calls' \in Nat
  BY <1>2, JobFields, Steps DEF Connecting, BackOf, Inv, TypeInv
<1>7. CASE Goto("worker", next)
  BY <1>1, <1>2, <1>3, <1>4, <1>5, <1>6, <1>7, GotoStep
<1>8. CASE CloseFrom("worker", current, "idle")
  BY <1>1, <1>2, <1>3, <1>4, <1>5, <1>6, <1>8, CloseFromStep
<1> QED
  BY <1>2, <1>7, <1>8

LEMMA CheckStatusKeeps ==
  ASSUME Inv, CheckStatus
  PROVE  Inv' /\ Final /\ Stable
<1>1. current \in Attempt /\ impl \in [Attempt -> Impls] /\ impl[current] \in Impls
      /\ ImplOK(impl[current])
  BY ImplFields DEF Inv, TypeInv
<1>2. impl' = [impl EXCEPT ![current] = impl[current]]
  BY <1>1 DEF CheckStatus
<1>3. /\ thr["worker"].pc = "status" /\ UNCHANGED <<current, destroyed, calls>>
      /\ Goto("worker", "upgrade") \/ CloseFrom("worker", current, "idle")
  BY DEF CheckStatus
<1>4. /\ "worker" \in Threads /\ thr["worker"].took = {}
      /\ thr["worker"].on = current /\ "idle" \in BackOf("worker")
      /\ "upgrade" \in StepsOf("worker") \ {"closing", "closeWait"}
      /\ current' \in Attempt /\ destroyed' \in BOOLEAN /\ calls' \in Nat
  BY <1>3, JobFields, Steps DEF Connecting, BackOf, Inv, TypeInv
<1>5. CASE Goto("worker", "upgrade")
  BY <1>1, <1>2, <1>3, <1>4, <1>5, GotoStep
<1>6. CASE CloseFrom("worker", current, "idle")
  BY <1>1, <1>2, <1>3, <1>4, <1>6, CloseFromStep
<1> QED
  BY <1>3, <1>5, <1>6

\* Who holds closeMutex of an attempt finds that nobody else has taken a handle.
LEMMA NothingTaken ==
  ASSUME Inv, NEW i \in Attempt, impl[i].closer = "none", thr["worker"].pc # "upgraded"
  PROVE  \A u \in Threads : thr[u].on = i => thr[u].took = {}
<1> SUFFICES ASSUME NEW u \in Threads, thr[u].on = i, thr[u].took # {}
             PROVE  FALSE
  OBVIOUS
<1>1. thr[u].pc \in {"closing", "upgraded"} /\ thr[u].pc \in StepsOf(u)
  BY JobFields
<1>2. thr[u].pc = "closing"
  BY <1>1 DEF StepsOf, CloseSteps, Threads
<1>3. impl[i].closer = u
  BY <1>2 DEF Inv, CloserInv, Busy, At
<1> QED
  BY <1>3 DEF Threads

LEMMA KeepAliveGivenUp ==
  ASSUME NEW a \in Impls, ImplOK(a)
  PROVE  LET b == [a EXCEPT !.selfKeepAlive = FALSE]
         IN  /\ b \in Impls /\ b.held = a.held /\ b.open = a.open
             /\ b.closer = a.closer /\ b.cancelled = a.cancelled
             /\ b.sendBuffer = a.sendBuffer /\ b.io = a.io /\ ImplOK(b)
  BY DEF Impls, ImplOK

LEMMA OpenHandleFails ==
  ASSUME Inv, NEW stage \in DOMAIN NextStage, thr["worker"].pc = stage,
         Goto("worker", "idle") \/ CloseFrom("worker", current, "idle"),
         impl' \in {impl, [impl EXCEPT ![current].selfKeepAlive = FALSE]},
         UNCHANGED <<current, destroyed, calls>>
  PROVE  Inv' /\ Final /\ Stable
<1> DEFINE b == [impl[current] EXCEPT !.selfKeepAlive = FALSE]
<1>1. current \in Attempt /\ impl \in [Attempt -> Impls] /\ impl[current] \in Impls
      /\ ImplOK(impl[current])
  BY ImplFields DEF Inv, TypeInv
<1>2. PICK a \in {impl[current], b} : impl' = [impl EXCEPT ![current] = a]
  BY <1>1
<1>3. /\ a \in Impls /\ a.held = impl[current].held /\ a.open = impl[current].open
      /\ a.closer = impl[current].closer /\ a.cancelled = impl[current].cancelled
      /\ a.sendBuffer = impl[current].sendBuffer /\ a.io = impl[current].io /\ ImplOK(a)
  BY <1>1, KeepAliveGivenUp
<1>4. /\ "worker" \in Threads /\ thr["worker"].took = {} /\ "idle" \in BackOf("worker")
      /\ "idle" \in StepsOf("worker") \ {"closing", "closeWait"} /\ "idle" \notin Connecting
      /\ thr["worker"].pc \notin {"sendDone", "close"}
      /\ current' \in Attempt /\ destroyed' \in BOOLEAN /\ calls' \in Nat
  BY JobFields, Steps DEF Connecting, BackOf, Inv, TypeInv, NextStage
<1>5. CASE Goto("worker", "idle")
  BY <1>1, <1>2, <1>3, <1>4, <1>5, GotoStep
<1>6. CASE CloseFrom("worker", current, "idle")
  BY <1>1, <1>2, <1>3, <1>4, <1>6, CloseFromStep
<1> QED
  BY <1>5, <1>6

\* A stage of Connect() that opens a handle, under closeMutex.
LEMMA StageStep ==
  ASSUME Inv, NEW a \in Impls, NEW s \in Jobs,
         impl' = [impl EXCEPT ![current] = a], thr' = [thr EXCEPT !["worker"] = s],
         UNCHANGED <<current, destroyed, calls>>,
         s.pc \in Connecting, s.on = current, s.back \in BackOf("worker"), s.took = {},
         thr["worker"].took = {}, a.closer = impl[current].closer,
         a.cancelled = impl[current].cancelled,
         a.sendBuffer = impl[current].sendBuffer, ImplOK(a),
         SendKept("worker", s, current, a),
         \A h \in Handles : OneOwner(impl', thr', current, h)
  PROVE  Inv' /\ Final /\ Stable
<1>1. s.pc \in StepsOf("worker") /\ ~Busy(s) /\ "worker" \in Threads
  BY Steps DEF Connecting, Busy
<1>2. /\ current \in Attempt
      /\ current' \in Attempt /\ destroyed' \in BOOLEAN /\ calls' \in Nat
  BY DEF Inv, TypeInv
<1> QED
  BY <1>1, <1>2, OneStep

LEMMA OpenHandleOpens ==
  ASSUME Inv, NEW stage \in DOMAIN NextStage, thr["worker"].pc = stage,
         impl[current].closer = "none",
         impl' = IF stage = "options" THEN impl
                 ELSE [impl EXCEPT ![current] =
                        [impl[current] EXCEPT !.held = @ \union {stage},
                                              !.open = @ \union {stage}]],
         thr' = [thr EXCEPT !["worker"].pc = NextStage[stage], !["worker"].on = current],
         UNCHANGED <<current, destroyed, calls>>
  PROVE  Inv' /\ Final /\ Stable
<1> DEFINE i == current
           opened == [impl[i] EXCEPT !.held = @ \union {stage}, !.open = @ \union {stage}]
           a == IF stage = "options" THEN impl[i] ELSE opened
           s == [thr["worker"] EXCEPT !.pc = NextStage[stage], !.on = i]
<1>1. /\ i \in Attempt /\ impl \in [Attempt -> Impls] /\ impl[i] \in Impls
      /\ ImplOK(impl[i])
      /\ "worker" \in Threads /\ thr \in [Threads -> Jobs] /\ thr["worker"] \in Jobs
  BY ImplFields, Steps DEF Inv, TypeInv
<1>2. /\ impl' = [impl EXCEPT ![i] = a]
      /\ thr' = [thr EXCEPT !["worker"] = s]
  BY <1>1
<1>3. /\ stage \in {"session", "connect", "request", "options"}
      /\ NextStage[stage] \in Connecting \ {"upgraded"}
  BY DEF NextStage, Connecting
<1>4. /\ s \in Jobs /\ s.pc = NextStage[stage] /\ s.on = i
      /\ s.back = thr["worker"].back /\ s.took = thr["worker"].took
  <2>1. NextStage[stage] \in UNION {StepsOf(u) : u \in Threads}
    BY <1>1, <1>3, Steps
  <2> QED
    BY <1>1, <2>1 DEF Jobs
<1>5. stage # "options" =>
        /\ opened \in Impls /\ opened.held = impl[i].held \union {stage}
        /\ opened.open = impl[i].open \union {stage}
        /\ opened.closer = impl[i].closer /\ opened.cancelled = impl[i].cancelled
        /\ opened.connected = impl[i].connected /\ opened.io = impl[i].io
        /\ opened.sendBuffer = impl[i].sendBuffer /\ opened.send = impl[i].send
        /\ opened.receive = impl[i].receive /\ opened.got = impl[i].got
        /\ opened.arrived = impl[i].arrived
  <2> SUFFICES ASSUME stage # "options"
               PROVE  /\ opened \in Impls /\ opened.held = impl[i].held \union {stage}
                      /\ opened.open = impl[i].open \union {stage}
                      /\ opened.closer = impl[i].closer
                      /\ opened.cancelled = impl[i].cancelled
                      /\ opened.connected = impl[i].connected /\ opened.io = impl[i].io
                      /\ opened.sendBuffer = impl[i].sendBuffer
                      /\ opened.send = impl[i].send
                      /\ opened.receive = impl[i].receive /\ opened.got = impl[i].got
                      /\ opened.arrived = impl[i].arrived
    OBVIOUS
  <2>1. stage \in Handles
    BY <1>3 DEF Handles
  <2>2. /\ impl[i].held \union {stage} \in SUBSET Handles
        /\ impl[i].open \union {stage} \in SUBSET Handles
    BY <1>1, <2>1 DEF Impls
  <2> QED
    BY <1>1, <2>2 DEF Impls
<1> HIDE DEF opened, s
<1>6. /\ a \in Impls /\ ImplOK(a) /\ a.closer = impl[i].closer
      /\ a.cancelled = impl[i].cancelled /\ a.sendBuffer = impl[i].sendBuffer
      /\ a.io = impl[i].io
  BY <1>1, <1>5 DEF ImplOK
<1>7. thr["worker"].took = {} /\ thr["worker"].back \in BackOf("worker")
  BY <1>1, <1>3, JobFields DEF Connecting
<1>8. s.pc \in StepsOf("worker") /\ ~Busy(s) /\ s.took = {}
  BY <1>3, <1>4, <1>7, Steps DEF Connecting, Busy
<1>9. SendKept("worker", s, i, a)
  BY <1>3, <1>6 DEF SendKept
<1>10. ASSUME NEW h \in Handles
       PROVE  OneOwner(impl', thr', i, h)
  <2>1. OneOwner(impl, thr, i, h)
    BY <1>1 DEF Inv, OwnerInv
  <2>2. \A u \in Threads : thr[u].on = i => thr[u].took = {}
    BY <1>1, <1>3, NothingTaken
  <2>3. \A u \in Threads : thr'[u].on = i => thr'[u].took = {}
    BY <1>1, <1>2, <1>8, <2>2
  <2>4. h \in impl[i].held <=> h \in impl[i].open
    BY <2>1, <2>2 DEF OneOwner
  <2>5. impl'[i] = a
    BY <1>1, <1>2
  <2>6. h \in impl'[i].held <=> h \in impl'[i].open
    BY <1>5, <2>4, <2>5
  <2> QED
    BY <2>3, <2>6 DEF OneOwner
<1> HIDE DEF a
<1>11. s.pc \in Connecting /\ s.on = current /\ s.back \in BackOf("worker")
  BY <1>3, <1>4, <1>7
<1> QED
  BY <1>2, <1>4, <1>6, <1>7, <1>8, <1>9, <1>10, <1>11, StageStep

LEMMA OpenHandleKeeps ==
  ASSUME Inv, NEW stage \in DOMAIN NextStage, OpenHandle(stage)
  PROVE  Inv' /\ Final /\ Stable
<1>1. CASE Cancelled(stage)
  BY <1>1, OpenHandleFails DEF OpenHandle
<1>2. CASE ~Cancelled(stage)
  BY <1>2, OpenHandleFails, OpenHandleOpens DEF OpenHandle
<1> QED
  BY <1>1, <1>2

LEMMA UpgradeKeeps ==
  ASSUME Inv, Upgrade
  PROVE  Inv' /\ Final /\ Stable
<1> DEFINE i == current
           a == [impl[i] EXCEPT !.connected = TRUE,
                                !.held = (@ \ {"request"}) \union {"websocket"},
                                !.open = @ \union {"websocket"}]
           s == [thr["worker"] EXCEPT !.pc = "upgraded", !.took = {"request"}]
<1>1. /\ i \in Attempt /\ impl \in [Attempt -> Impls] /\ impl[i] \in Impls
      /\ ImplOK(impl[i])
      /\ "worker" \in Threads /\ thr \in [Threads -> Jobs] /\ thr["worker"] \in Jobs
      /\ current' \in Attempt /\ destroyed' \in BOOLEAN /\ calls' \in Nat
  BY ImplFields, Steps DEF Inv, TypeInv, Upgrade
<1>2. /\ thr["worker"].pc = "upgrade" /\ impl[i].closer = "none"
      /\ UNCHANGED <<current, destroyed, calls>>
  BY DEF Upgrade
<1>3. /\ thr["worker"].took = {} /\ thr["worker"].on = i
      /\ thr["worker"].back \in BackOf("worker") /\ "idle" \in BackOf("worker")
      /\ "idle" \in StepsOf("worker") \ {"closing", "closeWait"} /\ "idle" \notin Connecting
  BY <1>1, <1>2, JobFields, Steps DEF Connecting, BackOf
<1>4. CASE impl' = impl /\ Goto("worker", "idle")
  <2>1. impl' = [impl EXCEPT ![i] = impl[i]]
    BY <1>1, <1>4
  <2> QED
    BY <1>1, <1>2, <1>3, <1>4, <2>1, GotoStep
<1>5. CASE impl' = impl /\ CloseFrom("worker", current, "idle")
  <2>1. impl' = [impl EXCEPT ![i] = impl[i]]
    BY <1>1, <1>5
  <2> QED
    BY <1>1, <1>2, <1>3, <1>5, <2>1, CloseFromStep
<1>6. CASE /\ ~impl[i].cancelled /\ "request" \in impl[i].held
           /\ impl' = [impl EXCEPT ![i] = a]
           /\ thr' = [thr EXCEPT !["worker"] = s]
  <2>1. /\ a \in Impls /\ a.held = (impl[i].held \ {"request"}) \union {"websocket"}
        /\ a.open = impl[i].open \union {"websocket"}
        /\ a.closer = impl[i].closer /\ a.cancelled = impl[i].cancelled
        /\ a.io = impl[i].io /\ a.sendBuffer = impl[i].sendBuffer
        /\ a.send = impl[i].send /\ a.receive = impl[i].receive
        /\ a.got = impl[i].got /\ a.arrived = impl[i].arrived
    <3>1. /\ (impl[i].held \ {"request"}) \union {"websocket"} \in SUBSET Handles
          /\ impl[i].open \union {"websocket"} \in SUBSET Handles
      BY <1>1 DEF Impls, Handles
    <3> QED
      BY <1>1, <3>1 DEF Impls
  <2>2. s \in Jobs /\ s.pc = "upgraded" /\ s.took = {"request"} /\ s.on = i
        /\ s.back \in BackOf("worker") /\ s.pc \in StepsOf("worker") /\ ~Busy(s)
    <3>1. /\ "upgraded" \in UNION {StepsOf(u) : u \in Threads}
          /\ "upgraded" \in StepsOf("worker")
      BY <1>1, Steps DEF Connecting
    <3>2. {"request"} \in SUBSET Handles
      BY DEF Handles
    <3> QED
      BY <1>1, <1>3, <3>1, <3>2 DEF Jobs, Busy
  <2>3. \A u \in Threads : thr[u].on = i => thr[u].took = {}
    BY <1>1, <1>2, NothingTaken
  <2>4. /\ impl'[i] = a /\ thr'["worker"] = s
        /\ \A u \in Threads \ {"worker"} : thr'[u] = thr[u]
    BY <1>1, <1>6
  <2> HIDE DEF a, s
  <2>5. ImplOK(a)
    BY <1>1, <1>6, <2>1 DEF ImplOK
  <2>6. SendKept("worker", s, i, a)
    BY <1>2, <2>1 DEF SendKept
  <2>7. ASSUME NEW h \in Handles
        PROVE  OneOwner(impl', thr', i, h)
    <3>1. OneOwner(impl, thr, i, h)
      BY <1>1 DEF Inv, OwnerInv
    <3>2. h \in impl[i].held <=> h \in impl[i].open
      BY <2>3, <3>1 DEF OneOwner
    <3>3. /\ \A u \in Threads \ {"worker"} : thr'[u].on = i => thr'[u].took = {}
          /\ thr'["worker"].on = i /\ thr'["worker"].took = {"request"}
      BY <2>2, <2>3, <2>4
    <3>4. /\ h \in impl'[i].open <=> h \in impl'[i].held \/ h = "request"
          /\ "request" \notin impl'[i].held
      BY <1>6, <2>1, <2>4, <3>2
    <3> QED
      BY <1>1, <3>3, <3>4 DEF OneOwner
  <2> QED
    BY <1>1, <1>2, <1>3, <1>6, <2>1, <2>2, <2>5, <2>6, <2>7, OneStep
<1> QED
  <2>1. CASE impl[i].cancelled \/ "request" \notin impl[i].held
    BY <1>4, <2>1 DEF Upgrade
  <2>2. CASE ~(impl[i].cancelled \/ "request" \notin impl[i].held)
    <3>1. CASE impl' = impl /\ CloseFrom("worker", current, "idle")
      BY <1>5, <3>1
    <3>2. CASE ~(impl' = impl /\ CloseFrom("worker", current, "idle"))
      <4>1. /\ impl' = [impl EXCEPT ![i] = a]
            /\ thr' = [thr EXCEPT !["worker"].pc = "upgraded",
                                  !["worker"].took = {"request"}]
        BY <2>2, <3>2 DEF Upgrade
      <4>2. thr' = [thr EXCEPT !["worker"] = s]
        BY <1>1, <4>1
      <4> QED
        BY <1>1, <1>6, <2>2, <4>1, <4>2
    <3> QED
      BY <3>1, <3>2
  <2> QED
    BY <2>1, <2>2

LEMMA CloseRequestKeeps ==
  ASSUME Inv, CloseRequest
  PROVE  Inv' /\ Final /\ Stable
<1> DEFINE i == current
           took == thr["worker"].took
           a == [impl[i] EXCEPT !.open = @ \ took]
<1>1. /\ i \in Attempt /\ impl \in [Attempt -> Impls] /\ impl[i] \in Impls
      /\ ImplOK(impl[i])
      /\ "worker" \in Threads /\ thr \in [Threads -> Jobs]
      /\ current' \in Attempt /\ destroyed' \in BOOLEAN /\ calls' \in Nat
  BY ImplFields, Steps DEF Inv, TypeInv, CloseRequest
<1>2. /\ thr["worker"].pc = "upgraded" /\ thr["worker"].on = i
      /\ UNCHANGED <<current, destroyed, calls>>
      /\ thr' = [thr EXCEPT !["worker"] = Idle]
  BY <1>1, JobFields DEF CloseRequest, Goto, Connecting
<1>3. impl' = [impl EXCEPT ![i] = a]
  BY <1>1 DEF CloseRequest
<1>4. /\ a \in Impls /\ a.held = impl[i].held /\ a.open = impl[i].open \ took
      /\ a.closer = impl[i].closer /\ a.cancelled = impl[i].cancelled
      /\ a.connected = impl[i].connected
      /\ a.io = impl[i].io /\ a.sendBuffer = impl[i].sendBuffer
      /\ a.send = impl[i].send /\ a.receive = impl[i].receive
      /\ a.got = impl[i].got /\ a.arrived = impl[i].arrived
  <2>1. impl[i].open \ took \in SUBSET Handles
    BY <1>1 DEF Impls
  <2> QED
    BY <1>1, <2>1 DEF Impls
<1>5. /\ impl'[i] = a /\ thr'["worker"] = Idle
      /\ \A u \in Threads \ {"worker"} : thr'[u] = thr[u]
  BY <1>1, <1>2, <1>3
<1> HIDE DEF a
<1>6. ImplOK(a)
  BY <1>1, <1>4 DEF ImplOK
<1>7. SendKept("worker", Idle, i, a)
  BY <1>2, <1>4 DEF SendKept
<1>8. ASSUME NEW h \in Handles
      PROVE  OneOwner(impl', thr', i, h)
  <2>1. OneOwner(impl, thr, i, h)
    BY <1>1 DEF Inv, OwnerInv
  <2> QED
    BY <1>1, <1>2, <1>4, <1>5, <2>1, IdleJob DEF OneOwner
<1> QED
  BY <1>1, <1>2, <1>3, <1>4, <1>6, <1>7, <1>8, IdleJob, OneStep

---------------------------------------------------------------------------
(***************************************************************************)
(* Send and Receive.                                                       *)
(***************************************************************************)

\* The worker turns to a send of an attempt, or the receiver to a receive.
LEMMA JobOn ==
  ASSUME Inv, NEW t \in Threads, NEW pc \in StepsOf(t), thr[t].took = {},
         thr' = [thr EXCEPT ![t].pc = pc, ![t].on = current]
  PROVE  \E s \in Jobs :
           /\ thr' = [thr EXCEPT ![t] = s]
           /\ s.pc = pc /\ s.on = current /\ s.took = {} /\ s.back \in BackOf(t)
<1> DEFINE s == [thr[t] EXCEPT !.pc = pc, !.on = current]
<1>1. thr \in [Threads -> Jobs] /\ thr[t] \in Jobs /\ current \in Attempt
      /\ thr[t].back \in BackOf(t)
  BY JobFields DEF Inv, TypeInv
<1>2. thr' = [thr EXCEPT ![t] = s]
  BY <1>1
<1>3. pc \in UNION {StepsOf(u) : u \in Threads}
  BY Steps
<1>4. s \in Jobs /\ s.pc = pc /\ s.on = current /\ s.took = {} /\ s.back \in BackOf(t)
  BY <1>1, <1>3 DEF Jobs
<1> QED
  BY <1>2, <1>4

\* A step that hands out no message and gets none leaves the messages in order.
LEMMA SameMessages ==
  ASSUME NEW a, NEW b, ImplOK(a), b.got = a.got, b.arrived = a.arrived,
         b.receive = "done" <=> a.receive = "done"
  PROVE  b.got \o (IF b.receive = "done" THEN <<b.arrived>> ELSE <<>>)
           = [n \in 1..b.arrived |-> n]
<1>1. CASE a.receive = "done"
  BY <1>1 DEF ImplOK
<1>2. CASE a.receive # "done"
  BY <1>2 DEF ImplOK
<1> QED
  BY <1>1, <1>2

LEMMA BeginSendKeeps ==
  ASSUME Inv, BeginSend
  PROVE  Inv' /\ Final /\ Stable
<1> DEFINE i == current
           filled == [impl[i] EXCEPT !.send = "pending", !.sendBuffer = calls + 1]
           accepted == [filled EXCEPT !.io = @ \union {"send"}]
           failed == [filled EXCEPT !.send = "failed"]
<1>1. /\ i \in Attempt /\ impl \in [Attempt -> Impls] /\ impl[i] \in Impls
      /\ ImplOK(impl[i]) /\ calls + 1 \in Nat
      /\ "worker" \in Threads /\ thr \in [Threads -> Jobs] /\ thr["worker"] \in Jobs
      /\ current' \in Attempt /\ destroyed' \in BOOLEAN /\ calls' \in Nat
  BY ImplFields, Steps DEF Inv, TypeInv, BeginSend
<1>2. /\ thr["worker"].pc = "idle" /\ UNCHANGED <<current, destroyed>>
      /\ thr["worker"].took = {} /\ thr["worker"].back \in BackOf("worker")
  BY <1>1, JobFields DEF BeginSend
<1>3. CASE Refused(i)
  <2>1. /\ UNCHANGED impl /\ thr' = [thr EXCEPT !["worker"] = thr["worker"]]
    BY <1>1, <1>3 DEF BeginSend
  <2>2. /\ thr["worker"].pc \in StepsOf("worker") /\ ~Busy(thr["worker"])
        /\ thr["worker"].pc \notin Connecting
    BY <1>1, <1>2, JobFields DEF Busy, Connecting
  <2>3. thr["worker"].on \in Attempt
    BY <1>1, JobFields
  <2>4. SendKept("worker", thr["worker"], thr["worker"].on, impl[thr["worker"].on])
    BY <1>2 DEF SendKept
  <2> QED
    BY <1>1, <1>2, <2>1, <2>2, <2>4, ThreadStep
<1>4. CASE ~Refused(i)
  <2>1. PICK a \in {accepted, failed} :
          /\ impl' = [impl EXCEPT ![i] = a]
          /\ thr' = [thr EXCEPT !["worker"].pc = "sendDone", !["worker"].on = current]
    BY <1>4 DEF BeginSend, Accept
  <2>2. "send" \notin impl[i].io
    <3>1. ~impl[i].cancelled
      BY <1>4 DEF Refused
    <3> QED
      BY <1>1, <1>2, <3>1 DEF Inv, SendInv
  <2>3. /\ filled \in Impls /\ filled.held = impl[i].held /\ filled.open = impl[i].open
        /\ filled.closer = impl[i].closer /\ filled.cancelled = impl[i].cancelled
        /\ filled.connected = impl[i].connected /\ filled.io = impl[i].io
        /\ filled.send = "pending" /\ filled.receive = impl[i].receive
        /\ filled.got = impl[i].got /\ filled.arrived = impl[i].arrived
    BY <1>1 DEF Impls, Outcomes
  <2> HIDE DEF filled
  <2>4. /\ accepted \in Impls /\ accepted.held = filled.held /\ accepted.open = filled.open
        /\ accepted.closer = filled.closer /\ accepted.cancelled = filled.cancelled
        /\ accepted.connected = filled.connected
        /\ accepted.io = filled.io \union {"send"}
        /\ accepted.send = "pending" /\ accepted.receive = filled.receive
        /\ accepted.got = filled.got /\ accepted.arrived = filled.arrived
    <3>1. filled.io \union {"send"} \in SUBSET Operations
      BY <2>3 DEF Impls, Operations
    <3> QED
      BY <2>3, <3>1 DEF Impls
  <2>5. /\ failed \in Impls /\ failed.held = filled.held /\ failed.open = filled.open
        /\ failed.closer = filled.closer /\ failed.cancelled = filled.cancelled
        /\ failed.connected = filled.connected /\ failed.io = filled.io
        /\ failed.send = "failed" /\ failed.receive = filled.receive
        /\ failed.got = filled.got /\ failed.arrived = filled.arrived
    BY <2>3 DEF Impls, Outcomes
  <2> HIDE DEF accepted, failed
  <2>6. /\ a \in Impls /\ a.held = impl[i].held /\ a.open = impl[i].open
        /\ a.closer = impl[i].closer /\ a.cancelled = impl[i].cancelled
    BY <2>3, <2>4, <2>5
  <2>7. ImplOK(a)
    <3>1. /\ a.receive = impl[i].receive /\ a.got = impl[i].got
          /\ a.arrived = impl[i].arrived /\ a.connected = impl[i].connected
          /\ "receive" \in a.io <=> "receive" \in impl[i].io
          /\ "send" \in a.io => a.send = "pending"
      <4>1. CASE a = accepted
        BY <2>3, <2>4, <4>1
      <4>2. CASE a = failed
        BY <2>2, <2>3, <2>5, <4>2
      <4> QED
        BY <4>1, <4>2
    <3>2. a.got \o (IF a.receive = "done" THEN <<a.arrived>> ELSE <<>>)
            = [n \in 1..a.arrived |-> n]
      BY <1>1, <3>1, SameMessages
    <3>3. /\ a.cancelled => ~a.connected
          /\ "receive" \in a.io => a.receive = "pending"
      BY <1>1, <2>6, <3>1 DEF ImplOK
    <3> QED
      BY <3>1, <3>2, <3>3 DEF ImplOK
  <2>8. "sendDone" \in StepsOf("worker")
    BY Steps
  <2>9. PICK s \in Jobs :
          /\ thr' = [thr EXCEPT !["worker"] = s]
          /\ s.pc = "sendDone" /\ s.on = current /\ s.took = {}
          /\ s.back \in BackOf("worker")
    BY <1>1, <1>2, <2>1, <2>8, JobOn
  <2>10. ~Busy(s) /\ s.pc \notin Connecting /\ s.pc \in StepsOf("worker")
    BY <2>8, <2>9 DEF Busy, Connecting
  <2>11. SendKept("worker", s, i, a)
    BY <1>2, <2>9 DEF SendKept
  <2> QED
    BY <1>1, <1>2, <2>1, <2>2, <2>6, <2>7, <2>9, <2>10, <2>11, QuietStep
<1> QED
  BY <1>3, <1>4

LEMMA SendWaitedKeeps ==
  ASSUME Inv, SendWaited
  PROVE  Inv' /\ Final /\ Stable
<1> DEFINE i == thr["worker"].on
           a == [impl[i] EXCEPT !.send = "idle", !.sendBuffer = 0]
<1>1. /\ i \in Attempt /\ impl \in [Attempt -> Impls] /\ impl[i] \in Impls
      /\ ImplOK(impl[i]) /\ "worker" \in Threads
      /\ current' \in Attempt /\ destroyed' \in BOOLEAN /\ calls' \in Nat
  BY ImplFields, JobFields, Steps DEF Inv, TypeInv, SendWaited
<1>2. /\ thr["worker"].pc = "sendDone" /\ UNCHANGED <<current, destroyed, calls>>
      /\ thr["worker"].took = {}
      /\ "idle" \in StepsOf("worker") /\ "idle" \in BackOf("worker")
  BY <1>1, JobFields, Steps DEF SendWaited, BackOf
<1>3. CASE Goto("worker", "idle")
  <2>1. PICK s \in Jobs :
          /\ thr' = [thr EXCEPT !["worker"] = s]
          /\ s.pc = "idle" /\ s.took = {} /\ s.back \in BackOf("worker")
    BY <1>1, <1>2, <1>3, GotoJob
  <2>2. ~Busy(s) /\ s.pc \notin Connecting /\ s.pc \in StepsOf("worker")
    BY <1>2, <2>1 DEF Busy, Connecting
  <2>3. CASE Done(impl[i].send) /\ impl' = [impl EXCEPT ![i] = a]
    <3>1. "send" \notin impl[i].io
      BY <1>1, <2>3 DEF ImplOK, Done
    <3>2. /\ a \in Impls /\ a.held = impl[i].held /\ a.open = impl[i].open
          /\ a.closer = impl[i].closer /\ a.cancelled = impl[i].cancelled
          /\ a.connected = impl[i].connected /\ a.io = impl[i].io
          /\ a.receive = impl[i].receive /\ a.got = impl[i].got
          /\ a.arrived = impl[i].arrived
      BY <1>1 DEF Impls, Outcomes
    <3> HIDE DEF a
    <3>3. ImplOK(a) /\ SendKept("worker", s, i, a)
      BY <1>1, <3>1, <3>2 DEF ImplOK, SendKept
    <3> QED
      BY <1>1, <1>2, <2>1, <2>2, <2>3, <3>1, <3>2, <3>3, QuietStep
  <2>4. CASE impl' = impl /\ impl[i].cancelled
    <3>1. impl' = [impl EXCEPT ![i] = impl[i]]
      BY <1>1, <2>4
    <3>2. SendKept("worker", s, i, impl[i])
      BY <2>4 DEF SendKept
    <3> QED
      BY <1>1, <1>2, <2>1, <2>2, <3>1, <3>2, QuietStep
  <2>5. thr["worker"].pc # "close" /\ s.pc # "close"
    BY <1>2, <2>1
  <2> QED
    <3>1. CASE Done(impl[i].send) /\ impl' = [impl EXCEPT ![thr["worker"].on] =
                      [impl[thr["worker"].on] EXCEPT !.send = "idle", !.sendBuffer = 0]]
      BY <2>3, <3>1
    <3>2. CASE impl' = impl /\ (IF impl[i].cancelled THEN Goto("worker", "idle")
                                ELSE CloseFrom("worker", i, "idle"))
      <4>1. CASE impl[i].cancelled
        BY <2>4, <3>2, <4>1
      <4>2. CASE ~impl[i].cancelled
        <5>1. thr'["worker"].pc = "close"
          BY <1>1, <3>2, <4>2 DEF CloseFrom, Inv, TypeInv, Jobs
        <5>2. thr'["worker"].pc = "idle"
          BY <1>1, <2>1 DEF Inv, TypeInv
        <5> QED
          BY <5>1, <5>2
      <4> QED
        BY <4>1, <4>2
    <3> QED
      BY <3>1, <3>2 DEF SendWaited, At
<1>4. CASE impl' = impl /\ CloseFrom("worker", i, "idle")
  <2>1. impl' = [impl EXCEPT ![i] = impl[i]]
    BY <1>1, <1>4
  <2> QED
    BY <1>1, <1>2, <1>4, <2>1, CloseFromStep
<1> QED
  BY <1>3, <1>4 DEF SendWaited, At

LEMMA BeginReceiveKeeps ==
  ASSUME Inv, BeginReceive
  PROVE  Inv' /\ Final /\ Stable
<1> DEFINE i == current
           begun == [impl[i] EXCEPT !.receive = "pending"]
           accepted == [begun EXCEPT !.io = @ \union {"receive"}]
           failed == [begun EXCEPT !.receive = "failed"]
<1>1. /\ i \in Attempt /\ impl \in [Attempt -> Impls] /\ impl[i] \in Impls
      /\ ImplOK(impl[i]) /\ "receiver" \in Threads
      /\ current' \in Attempt /\ destroyed' \in BOOLEAN /\ calls' \in Nat
  BY ImplFields, Steps DEF Inv, TypeInv, BeginReceive
<1>2. /\ thr["receiver"].pc = "idle" /\ UNCHANGED <<current, destroyed, calls>>
      /\ thr["receiver"].took = {}
  BY <1>1, JobFields DEF BeginReceive
<1>3. PICK a \in {impl[i], accepted, failed} :
        /\ impl' = [impl EXCEPT ![i] = a]
        /\ a = impl[i] \/ impl[i].receive = "idle"
  BY <1>1 DEF BeginReceive, Accept
<1>4. /\ begun \in Impls /\ begun.held = impl[i].held /\ begun.open = impl[i].open
      /\ begun.closer = impl[i].closer /\ begun.cancelled = impl[i].cancelled
      /\ begun.connected = impl[i].connected /\ begun.io = impl[i].io
      /\ begun.sendBuffer = impl[i].sendBuffer
      /\ begun.send = impl[i].send /\ begun.receive = "pending"
      /\ begun.got = impl[i].got /\ begun.arrived = impl[i].arrived
  BY <1>1 DEF Impls, Outcomes
<1> HIDE DEF begun
<1>5. /\ accepted \in Impls /\ accepted.held = begun.held /\ accepted.open = begun.open
      /\ accepted.closer = begun.closer /\ accepted.cancelled = begun.cancelled
      /\ accepted.connected = begun.connected /\ accepted.sendBuffer = begun.sendBuffer
      /\ accepted.io = begun.io \union {"receive"}
      /\ accepted.send = begun.send /\ accepted.receive = "pending"
      /\ accepted.got = begun.got /\ accepted.arrived = begun.arrived
  <2>1. begun.io \union {"receive"} \in SUBSET Operations
    BY <1>4 DEF Impls, Operations
  <2> QED
    BY <1>4, <2>1 DEF Impls
<1>6. /\ failed \in Impls /\ failed.held = begun.held /\ failed.open = begun.open
      /\ failed.closer = begun.closer /\ failed.cancelled = begun.cancelled
      /\ failed.connected = begun.connected /\ failed.sendBuffer = begun.sendBuffer
      /\ failed.io = begun.io
      /\ failed.send = begun.send /\ failed.receive = "failed"
      /\ failed.got = begun.got /\ failed.arrived = begun.arrived
  BY <1>4 DEF Impls, Outcomes
<1> HIDE DEF accepted, failed
<1>7. /\ a \in Impls /\ a.held = impl[i].held /\ a.open = impl[i].open
      /\ a.closer = impl[i].closer /\ a.cancelled = impl[i].cancelled
      /\ a.sendBuffer = impl[i].sendBuffer
      /\ "send" \in a.io <=> "send" \in impl[i].io
  BY <1>1, <1>4, <1>5, <1>6
<1>8. ImplOK(a)
  <2>1. CASE a = impl[i]
    BY <1>1, <2>1
  <2>2. CASE a \in {accepted, failed} /\ impl[i].receive = "idle"
    <3>1. /\ a.send = impl[i].send /\ a.got = impl[i].got
          /\ a.arrived = impl[i].arrived /\ a.connected = impl[i].connected
          /\ a.receive # "done" /\ impl[i].receive # "done"
          /\ "receive" \in a.io => a.receive = "pending"
      <4>1. CASE a = accepted
        BY <1>4, <1>5, <2>2, <4>1
      <4>2. CASE a = failed
        <5>1. "receive" \notin impl[i].io
          BY <1>1, <2>2 DEF ImplOK
        <5> QED
          BY <1>4, <1>6, <2>2, <4>2, <5>1
      <4> QED
        BY <2>2, <4>1, <4>2
    <3>2. a.got \o (IF a.receive = "done" THEN <<a.arrived>> ELSE <<>>)
            = [n \in 1..a.arrived |-> n]
      BY <1>1, <3>1, SameMessages
    <3>3. /\ a.cancelled => ~a.connected
          /\ "send" \in a.io => a.send = "pending"
      BY <1>1, <1>7, <3>1 DEF ImplOK
    <3> QED
      BY <3>1, <3>2, <3>3 DEF ImplOK
  <2> QED
    BY <1>3, <2>1, <2>2
<1>9. PICK s \in Jobs :
        /\ thr' = [thr EXCEPT !["receiver"] = s]
        /\ s.pc = "receiveDone" /\ s.on = current /\ s.took = {}
        /\ s.back \in BackOf("receiver")
  <2>1. /\ "receiveDone" \in StepsOf("receiver")
        /\ thr' = [thr EXCEPT !["receiver"].pc = "receiveDone", !["receiver"].on = current]
    <3>1. thr \in [Threads -> Jobs] /\ thr["receiver"] \in Jobs
      BY <1>1 DEF Inv, TypeInv
    <3>2. [thr["receiver"] EXCEPT !.on = current, !.pc = "receiveDone"]
            = [thr["receiver"] EXCEPT !.pc = "receiveDone", !.on = current]
      BY <3>1 DEF Jobs
    <3> QED
      BY <1>1, <3>1, <3>2, Steps DEF BeginReceive
  <2> QED
    BY <1>1, <1>2, <2>1, JobOn
<1>10. ~Busy(s) /\ s.pc \notin Connecting /\ s.pc \in StepsOf("receiver")
  BY <1>9, Steps DEF Busy, Connecting
<1>11. SendKept("receiver", s, i, a)
  BY <1>7 DEF SendKept
<1> QED
  BY <1>1, <1>2, <1>3, <1>7, <1>8, <1>9, <1>10, <1>11, QuietStep

LEMMA ReceiveWaitedKeeps ==
  ASSUME Inv, ReceiveWaited
  PROVE  Inv' /\ Final /\ Stable
<1> DEFINE i == thr["receiver"].on
           got == IF impl[i].receive = "done" THEN Append(impl[i].got, impl[i].arrived)
                  ELSE impl[i].got
           taken == [impl[i] EXCEPT !.receive = "idle", !.got = got]
           a == IF Done(impl[i].receive) THEN taken ELSE impl[i]
<1>1. /\ i \in Attempt /\ impl \in [Attempt -> Impls] /\ impl[i] \in Impls
      /\ ImplOK(impl[i]) /\ "receiver" \in Threads
      /\ "idle" \in StepsOf("receiver") \ {"closing", "closeWait"}
  BY ImplFields, JobFields, Steps DEF Inv, TypeInv
<1>2. /\ thr["receiver"].pc = "receiveDone" /\ UNCHANGED <<current, destroyed, calls>>
      /\ thr["receiver"].took = {} /\ Goto("receiver", "idle")
  BY <1>1, JobFields DEF ReceiveWaited
<1>3. impl' = [impl EXCEPT ![i] = a]
  BY <1>1 DEF ReceiveWaited, At
<1>4. impl[i].got \in Seq(Nat) /\ impl[i].arrived \in Nat /\ got \in Seq(Nat)
  BY <1>1 DEF Impls
<1>5. got = impl[i].got \o (IF impl[i].receive = "done" THEN <<impl[i].arrived>> ELSE <<>>)
  <2>1. impl[i].got \o <<>> = impl[i].got
    BY <1>4
  <2>2. Append(impl[i].got, impl[i].arrived) = impl[i].got \o <<impl[i].arrived>>
    BY <1>4, AppendIsConcat, Zenon
  <2>3. CASE impl[i].receive = "done"
    BY <2>2, <2>3
  <2>4. CASE impl[i].receive # "done"
    BY <2>1, <2>4
  <2> QED
    BY <2>3, <2>4
<1> HIDE DEF got
<1>6. /\ taken \in Impls /\ taken.held = impl[i].held /\ taken.open = impl[i].open
      /\ taken.closer = impl[i].closer /\ taken.cancelled = impl[i].cancelled
      /\ taken.connected = impl[i].connected /\ taken.sendBuffer = impl[i].sendBuffer
      /\ taken.io = impl[i].io /\ taken.send = impl[i].send
      /\ taken.receive = "idle" /\ taken.got = got /\ taken.arrived = impl[i].arrived
  BY <1>1, <1>4 DEF Impls, Outcomes
<1> HIDE DEF taken
<1>7. /\ a \in Impls /\ a.held = impl[i].held /\ a.open = impl[i].open
      /\ a.closer = impl[i].closer /\ a.cancelled = impl[i].cancelled
      /\ a.sendBuffer = impl[i].sendBuffer /\ a.io = impl[i].io
  BY <1>1, <1>6
<1>8. ImplOK(a)
  <2>1. CASE ~Done(impl[i].receive)
    BY <1>1, <2>1
  <2>2. CASE Done(impl[i].receive)
    <3>1. got = [n \in 1..impl[i].arrived |-> n]
      BY <1>1, <1>5, <2>2 DEF ImplOK
    <3>2. "receive" \notin impl[i].io
      BY <1>1, <2>2 DEF ImplOK, Done
    <3>3. got \o <<>> = got
      BY <1>4
    <3> QED
      BY <1>1, <1>6, <2>2, <3>1, <3>2, <3>3 DEF ImplOK
  <2> QED
    BY <2>1, <2>2
<1>9. "idle" \notin Connecting /\ thr["receiver"].pc \notin {"sendDone", "close"}
  BY <1>2 DEF Connecting
<1>10. UNCHANGED <<current, destroyed, calls>>
  BY <1>2
<1>11. Goto("receiver", "idle") /\ thr["receiver"].took = {}
  BY <1>2
<1> HIDE DEF a, i
<1> QED
  BY <1>1, <1>3, <1>7, <1>8, <1>9, <1>10, <1>11, GotoStep


---------------------------------------------------------------------------
(***************************************************************************)
(* Abort, Close, the destructor and the callbacks.                         *)
(***************************************************************************)

\* A thread begins AbortAndClose on impl_, and does nothing else.
LEMMA BeginCloseKeeps ==
  ASSUME Inv, NEW t \in {"worker", "app"}, NEW back \in BackOf(t), thr[t].pc = "idle",
         CloseFrom(t, current, back), UNCHANGED <<impl, current>>,
         destroyed' \in BOOLEAN, calls' \in Nat
  PROVE  Inv' /\ Final /\ Stable
<1>1. /\ current \in Attempt /\ impl \in [Attempt -> Impls] /\ impl[current] \in Impls
      /\ ImplOK(impl[current]) /\ current' \in Attempt /\ t \in Threads
  BY ImplFields DEF Inv, TypeInv, Threads
<1>2. impl' = [impl EXCEPT ![current] = impl[current]] /\ thr[t].took = {}
  BY <1>1, JobFields
<1> QED
  BY <1>1, <1>2, CloseFromStep

LEMMA AbortKeeps ==
  ASSUME Inv, Abort \/ Close \/ BeginDestroy
  PROVE  Inv' /\ Final /\ Stable
<1>1. calls + 1 \in Nat /\ calls \in Nat /\ destroyed \in BOOLEAN /\ TRUE \in BOOLEAN
  BY DEF Inv, TypeInv
<1>2. /\ "idle" \in BackOf("app") /\ "idle" \in BackOf("worker")
      /\ "destroy" \in BackOf("worker") /\ "worker" \in Threads
  BY Steps DEF BackOf
<1>3. CASE Abort
  BY <1>1, <1>2, <1>3, BeginCloseKeeps DEF Abort
<1>4. CASE Close
  BY <1>1, <1>2, <1>4, BeginCloseKeeps DEF Close
<1>5. CASE BeginDestroy
  BY <1>1, <1>2, <1>5, BeginCloseKeeps DEF BeginDestroy
<1> QED
  BY <1>3, <1>4, <1>5

LEMMA DestroyKeeps ==
  ASSUME Inv, Destroy
  PROVE  Inv' /\ Final /\ Stable
<1>1. /\ current \in Attempt /\ impl \in [Attempt -> Impls] /\ impl[current] \in Impls
      /\ ImplOK(impl[current])
  BY ImplFields DEF Inv, TypeInv
<1>2. impl' = [impl EXCEPT ![current] = impl[current]]
  BY <1>1 DEF Destroy
<1>3. /\ "worker" \in Threads /\ thr["worker"].took = {}
      /\ "idle" \in StepsOf("worker") \ {"closing", "closeWait"} /\ "idle" \notin Connecting
      /\ thr["worker"].pc \notin {"sendDone", "close"} /\ Goto("worker", "idle")
      /\ UNCHANGED <<current, destroyed, calls>>
  BY JobFields, Steps DEF Connecting, Destroy
<1> QED
  BY <1>1, <1>2, <1>3, GotoStep

\* The message that arrives is the next one.
LEMMA NextMessage ==
  ASSUME NEW k \in Nat
  PROVE  [n \in 1..k |-> n] \o <<k + 1>> = [n \in 1..(k + 1) |-> n]
<1> DEFINE f == [n \in 1..k |-> n]
           g == [n \in 1..(k + 1) |-> n]
<1>1. f \in Seq(Nat) /\ Len(f) = k /\ g \in Seq(Nat) /\ Len(g) = k + 1
  OBVIOUS
<1> QED
  BY <1>1

\* What the callback of each operation makes of the Impl.
Ended(s, operation, end) ==
  IF operation = "handshake"
  THEN {s, [s EXCEPT !.handshake = end]}
  ELSE IF operation = "send" THEN {[s EXCEPT !.send = end]}
  ELSE {[s EXCEPT !.receive = end, !.arrived = IF end = "done" THEN @ + 1 ELSE @]}

LEMMA EndedOK ==
  ASSUME NEW s \in Impls, ImplOK(s), NEW operation \in Operations,
         operation \notin s.io, NEW end \in {"done", "failed"},
         operation = "receive" => s.receive = "pending",
         NEW a \in Ended(s, operation, end)
  PROVE  /\ a \in Impls /\ a.held = s.held /\ a.open = s.open /\ a.closer = s.closer
         /\ a.cancelled = s.cancelled /\ a.sendBuffer = s.sendBuffer
         /\ a.io = s.io /\ ImplOK(a)
<1>1. CASE a = s
  BY <1>1
<1>2. CASE a = [s EXCEPT !.handshake = end]
  <2>1. /\ a \in Impls /\ a.held = s.held /\ a.open = s.open /\ a.closer = s.closer
        /\ a.cancelled = s.cancelled /\ a.sendBuffer = s.sendBuffer
        /\ a.io = s.io /\ a.connected = s.connected /\ a.send = s.send
        /\ a.receive = s.receive /\ a.got = s.got /\ a.arrived = s.arrived
    BY <1>2 DEF Impls
  <2> QED
    BY <2>1 DEF ImplOK
<1>3. CASE operation = "send" /\ a = [s EXCEPT !.send = end]
  <2>1. /\ a \in Impls /\ a.held = s.held /\ a.open = s.open /\ a.closer = s.closer
        /\ a.cancelled = s.cancelled /\ a.sendBuffer = s.sendBuffer
        /\ a.io = s.io /\ a.connected = s.connected
        /\ a.receive = s.receive /\ a.got = s.got /\ a.arrived = s.arrived
    BY <1>3 DEF Impls, Outcomes
  <2> QED
    BY <1>3, <2>1 DEF ImplOK
<1>4. CASE /\ operation = "receive"
           /\ a = [s EXCEPT !.receive = end, !.arrived = IF end = "done" THEN @ + 1 ELSE @]
  <2> DEFINE n == IF end = "done" THEN s.arrived + 1 ELSE s.arrived
  <2>1. s.arrived \in Nat /\ s.got \in Seq(Nat) /\ n \in Nat
    BY DEF Impls
  <2>2. a = [s EXCEPT !.receive = end, !.arrived = n]
    BY <1>4 DEF Impls
  <2> HIDE DEF n
  <2>3. /\ a \in Impls /\ a.held = s.held /\ a.open = s.open /\ a.closer = s.closer
        /\ a.cancelled = s.cancelled /\ a.sendBuffer = s.sendBuffer
        /\ a.io = s.io /\ a.connected = s.connected /\ a.send = s.send
        /\ a.receive = end /\ a.got = s.got /\ a.arrived = n
    BY <2>1, <2>2 DEF Impls, Outcomes
  <2>4. s.got = [m \in 1..s.arrived |-> m]
    <3>1. s.got \o <<>> = s.got
      BY <2>1
    <3> QED
      BY <1>4, <3>1 DEF ImplOK
  <2>5. a.got \o (IF a.receive = "done" THEN <<a.arrived>> ELSE <<>>)
          = [m \in 1..a.arrived |-> m]
    <3>1. CASE end = "done"
      <4>1. n = s.arrived + 1
        BY <3>1 DEF n
      <4>2. [m \in 1..s.arrived |-> m] \o <<s.arrived + 1>>
              = [m \in 1..(s.arrived + 1) |-> m]
        BY <2>1, NextMessage
      <4>3. a.got \o <<a.arrived>> = [m \in 1..a.arrived |-> m]
        BY <2>3, <2>4, <4>1, <4>2
      <4> QED
        BY <2>3, <3>1, <4>3
    <3>2. CASE end # "done"
      <4>1. n = s.arrived
        BY <3>2 DEF n
      <4>2. a.got \o <<>> = a.got
        BY <2>1, <2>3
      <4> QED
        BY <2>3, <2>4, <3>2, <4>1, <4>2
    <3> QED
      BY <3>1, <3>2
  <2>6. a.cancelled => ~a.connected
    BY <2>3 DEF ImplOK
  <2>7. "send" \in a.io => a.send = "pending"
    BY <2>3 DEF ImplOK
  <2>8. "receive" \notin a.io
    BY <1>4, <2>3
  <2> QED
    BY <2>3, <2>5, <2>6, <2>7, <2>8 DEF ImplOK
<1> QED
  BY <1>1, <1>2, <1>3, <1>4 DEF Ended, Operations

LEMMA StatusCallbackKeeps ==
  ASSUME Inv, NEW i \in Attempt, NEW operation \in Operations, StatusCallback(i, operation)
  PROVE  Inv' /\ Final /\ Stable
<1> DEFINE s == [impl[i] EXCEPT !.io = @ \ {operation}]
<1>1. /\ impl \in [Attempt -> Impls] /\ impl[i] \in Impls /\ ImplOK(impl[i])
      /\ operation \in impl[i].io /\ UNCHANGED <<current, destroyed, thr, calls>>
  BY ImplFields DEF StatusCallback
<1>2. /\ s \in Impls /\ s.held = impl[i].held /\ s.open = impl[i].open
      /\ s.closer = impl[i].closer /\ s.cancelled = impl[i].cancelled
      /\ s.sendBuffer = impl[i].sendBuffer /\ s.io = impl[i].io \ {operation}
      /\ s.connected = impl[i].connected /\ s.send = impl[i].send
      /\ s.receive = impl[i].receive /\ s.got = impl[i].got
      /\ s.arrived = impl[i].arrived
  BY <1>1 DEF Impls
<1>3. PICK end \in {"done", "failed"} :
        \E a \in {s} \union Ended(s, operation, end) : impl' = [impl EXCEPT ![i] = a]
  BY <1>1 DEF StatusCallback, Ended
<1>4. PICK a \in {s} \union Ended(s, operation, end) : impl' = [impl EXCEPT ![i] = a]
  BY <1>3
<1> HIDE DEF s
<1>5. ImplOK(s)
  BY <1>1, <1>2 DEF ImplOK
<1>6. operation = "receive" => s.receive = "pending"
  BY <1>1, <1>2 DEF ImplOK
<1>7. /\ a \in Impls /\ a.held = s.held /\ a.open = s.open /\ a.closer = s.closer
      /\ a.cancelled = s.cancelled /\ a.sendBuffer = s.sendBuffer
      /\ a.io = s.io /\ ImplOK(a)
  <2>1. CASE a = s
    BY <1>2, <1>5, <2>1
  <2>2. CASE a \in Ended(s, operation, end)
    <3>1. operation \notin s.io
      BY <1>2
    <3> QED
      BY <1>2, <1>5, <1>6, <2>2, <3>1, EndedOK
  <2> QED
    BY <2>1, <2>2
<1> QED
  BY <1>1, <1>2, <1>4, <1>7, CallbackStep

LEMMA HandleClosingKeeps ==
  ASSUME Inv, NEW i \in Attempt, HandleClosing(i)
  PROVE  Inv' /\ Final /\ Stable
<1> DEFINE a == [impl[i] EXCEPT !.closing = FALSE, !.sessionClosed = impl[i].selfKeepAlive,
                                !.selfKeepAlive = FALSE]
<1>1. /\ impl \in [Attempt -> Impls] /\ impl[i] \in Impls /\ ImplOK(impl[i])
      /\ UNCHANGED <<current, destroyed, thr, calls>>
  BY ImplFields DEF HandleClosing
<1>2. impl' = [impl EXCEPT ![i] = a]
  BY <1>1 DEF HandleClosing
<1>3. /\ a \in Impls /\ a.held = impl[i].held /\ a.open = impl[i].open
      /\ a.closer = impl[i].closer /\ a.cancelled = impl[i].cancelled
      /\ a.connected = impl[i].connected /\ a.sendBuffer = impl[i].sendBuffer
      /\ a.io = impl[i].io /\ a.send = impl[i].send /\ a.receive = impl[i].receive
      /\ a.got = impl[i].got /\ a.arrived = impl[i].arrived
  BY <1>1 DEF Impls
<1> HIDE DEF a
<1>4. ImplOK(a)
  BY <1>1, <1>3 DEF ImplOK
<1> QED
  BY <1>1, <1>2, <1>3, <1>4, CallbackStep

---------------------------------------------------------------------------
(***************************************************************************)
(* The theorems.                                                           *)
(***************************************************************************)

LEMMA InitInv == Init => Inv
<1> SUFFICES ASSUME Init
             PROVE  Inv
  OBVIOUS
<1>1. /\ 0 \in Attempt /\ 0 \in Nat /\ {} \in SUBSET Handles /\ {} \in SUBSET Operations
      /\ <<>> \in Seq(Nat)
  BY TransportAssumption DEF Attempt
<1>2. EmptyImpl \in Impls
  BY <1>1 DEF EmptyImpl, Impls, Outcomes
<1>3. <<>> \o <<>> = [n \in 1..0 |-> n]
  <2>1. [n \in 1..0 |-> n] = <<>>
    OBVIOUS
  <2> QED
    BY <2>1
<1>4. ImplOK(EmptyImpl)
  BY <1>3 DEF EmptyImpl, ImplOK
<1>5. /\ \A i \in Attempt : impl[i] = EmptyImpl
      /\ \A t \in Threads : thr[t] = Idle
      /\ EmptyImpl.held = {} /\ EmptyImpl.open = {} /\ EmptyImpl.io = {}
  BY DEF Init, Attempt, EmptyImpl
<1>6. TypeInv
  BY <1>1, <1>2, IdleJob DEF Init, TypeInv, Attempt
<1>7. ThreadInv /\ CloserInv
  BY <1>5, IdleJob DEF ThreadInv, JobOK, CloserInv
<1>8. OwnerInv
  BY <1>5, IdleJob DEF OwnerInv, OneOwner
<1>9. ImplInv /\ SendInv
  BY <1>4, <1>5 DEF ImplInv, SendInv
<1> QED
  BY <1>6, <1>7, <1>8, <1>9 DEF Inv

LEMMA NextInv ==
  ASSUME Inv, [Next]_vars
  PROVE  Inv' /\ Final /\ Stable
<1>1. CASE Connect
  <2>1. {"sendRequest", "sendWait", "receiveResponse", "responseWait", "status"}
          \subseteq Connecting \ {"upgraded"}
    BY DEF Connecting
  <2> QED
    BY <1>1, <2>1, BeginConnectKeeps, OpenHandleKeeps, HandshakeCallKeeps,
       HandshakeWaitedKeeps, CheckStatusKeeps, UpgradeKeeps, CloseRequestKeeps DEF Connect
<1>2. CASE Send
  BY <1>2, BeginSendKeeps, SendWaitedKeeps DEF Send
<1>3. CASE Receive
  BY <1>3, BeginReceiveKeeps, ReceiveWaitedKeeps DEF Receive
<1>4. CASE Abort \/ Close \/ BeginDestroy
  BY <1>4, AbortKeeps
<1>5. CASE Destroy
  BY <1>5, DestroyKeeps
<1>6. CASE \E t \in Threads : Closing(t)
  BY <1>6, TakeHandlesKeeps, CloseHandlesKeeps, CloseWaitedKeeps DEF Closing
<1>7. CASE WinHttp
  <2>1. DOMAIN impl = Attempt
    BY DEF Inv, TypeInv
  <2> QED
    BY <1>7, <2>1, StatusCallbackKeeps, HandleClosingKeeps DEF WinHttp
<1>8. CASE UNCHANGED vars
  <2>1. UNCHANGED <<impl, current, destroyed, thr, calls>>
    BY <1>8 DEF vars
  <2>2. (TypeInv /\ ThreadInv /\ CloserInv)'
    BY <2>1 DEF Inv, TypeInv, ThreadInv, JobOK, CloserInv, Busy, At
  <2>3. OwnerInv'
    BY <2>1 DEF Inv, OwnerInv, OneOwner
  <2>4. (ImplInv /\ SendInv)'
    BY <2>1 DEF Inv, ImplInv, ImplOK, SendInv
  <2> QED
    BY <2>1, <2>2, <2>3, <2>4 DEF Inv, Final, Stable
<1> QED
  BY <1>1, <1>2, <1>3, <1>4, <1>5, <1>6, <1>7, <1>8 DEF Next

\* Inv is an invariant: the types, who holds closeMutex, who owns which handle, and
\* what WinHTTP still has of the operations of each attempt.
THEOREM Invariance == Spec => []Inv
<1>1. Inv /\ [Next]_vars => Inv'
  BY NextInv
<1> QED
  BY InitInv, <1>1, PTL DEF Spec

\* However aborts, closes, timeouts and the stages of Connect() interleave, a handle
\* of WinHTTP is held by the state or about to be closed by exactly one thread.
THEOREM OneOwnerOfHandles == Spec => []HandlesHaveOneOwner
<1>1. Inv => HandlesHaveOneOwner
  BY Owners DEF Inv
<1> QED
  BY <1>1, Invariance, PTL

\* The messages of a connection are handed out complete and in order, those of a
\* receive that timed out by a later call.
THEOREM MessagesComeInOrder == Spec => []MessagesInOrder
<1>1. Inv => MessagesInOrder
  BY DEF Inv, TypeInv, ImplInv, ImplOK, MessagesInOrder
<1> QED
  BY <1>1, Invariance, PTL

\* Once cancelled, an attempt stays so and never counts as connected, however late
\* its handshake completes.
THEOREM AbortLasts == Spec => AbortIsFinal
<1>1. Inv /\ [Next]_vars =>
        [\A i \in DOMAIN impl :
           impl[i].cancelled => impl'[i].cancelled /\ ~impl'[i].connected]_vars
  <2> SUFFICES ASSUME Inv, Next
               PROVE  \A i \in DOMAIN impl :
                        impl[i].cancelled => impl'[i].cancelled /\ ~impl'[i].connected
    OBVIOUS
  <2>1. Inv' /\ Final
    BY NextInv
  <2>2. \A i \in Attempt : impl'[i].cancelled => ~impl'[i].connected
    BY <2>1 DEF Inv, ImplInv, ImplOK
  <2>3. DOMAIN impl = Attempt
    BY DEF Inv, TypeInv
  <2> QED
    BY <2>1, <2>2, <2>3 DEF Final
<1> QED
  BY <1>1, Invariance, PTL DEF Spec, AbortIsFinal

\* No call writes the buffer of a send that WinHTTP has not completed, not even after
\* a timeout or an abort.
THEOREM SendBufferIsLeftAlone == Spec => SendBufferStable
<1>1. Inv /\ [Next]_vars =>
        [\A i \in DOMAIN impl :
           "send" \in impl[i].io => impl'[i].sendBuffer = impl[i].sendBuffer]_vars
  <2> SUFFICES ASSUME Inv, Next
               PROVE  \A i \in DOMAIN impl :
                        "send" \in impl[i].io => impl'[i].sendBuffer = impl[i].sendBuffer
    OBVIOUS
  <2>1. Stable
    BY NextInv
  <2>2. DOMAIN impl = Attempt
    BY DEF Inv, TypeInv
  <2> QED
    BY <2>1, <2>2 DEF Stable
<1> QED
  BY <1>1, Invariance, PTL DEF Spec, SendBufferStable
=============================================================================
