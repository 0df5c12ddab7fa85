--------------------------- MODULE ConnectionPool ---------------------------
(***************************************************************************)
(* The idle connection of Qwen Audio 3: a session whose task ended well    *)
(* hands its client to the ReusableConnectionManager, the next session of  *)
(* the same account takes it out, and a change of the settings, the age of *)
(* the connection or a newer client drives it away.                        *)
(*                                                                         *)
(* Sessions run side by side (an aborted one ends while the next begins),  *)
(* the application aborts them at any step, the peer hangs up unnoticed.   *)
(***************************************************************************)
EXTENDS Naturals, FiniteSets

CONSTANTS
  Sessions,    \* the sessions that may run at a time
  Clients,     \* names for the Client objects alive at a time
  Identities,  \* endpoint, model and API key in the settings
  None,        \* no client
  MaxEpoch     \* bound: changes of the identity

ASSUME PoolAssumption == None \notin Clients /\ MaxEpoch \in Nat

VARIABLES
  saved,    \* the identity in the settings
  epoch,    \* g_reuseEpoch
  idle,     \* idle_ of the manager
  closing,  \* clients taken out of the pool to be closed
  client,   \* the Client objects
  session   \* the sessions' workers

vars == <<saved, epoch, idle, closing, client, session>>

(***************************************************************************)
(* Clients.  link is the transport: a peer that hung up leaves it "dead",  *)
(* which IsConnected() does not see.  running is what the service knows: a *)
(* task was begun on this connection and has not ended.                    *)
(***************************************************************************)

Blank(alive, identity, n) ==
  [alive |-> alive, link |-> "down", identity |-> identity, epoch |-> n,
   connected |-> FALSE, finished |-> FALSE, reusable |-> FALSE,
   allowed |-> alive, cancelled |-> FALSE, running |-> FALSE]

Unused == Blank(FALSE, None, 0)
Fresh(identity) == Blank(TRUE, identity, epoch)

IsConnected(c) == client[c].link \in {"up", "dead"}

AbortedClient(k) ==
  [k EXCEPT !.cancelled = TRUE, !.reusable = FALSE, !.allowed = FALSE,
            !.finished = FALSE, !.connected = FALSE, !.link = "down",
            !.running = FALSE]

\* Mutant: a client made before the settings changed is taken all the same.
MayIdleOutdated(c) ==
  /\ ~client[c].cancelled /\ client[c].connected
  /\ client[c].finished /\ client[c].allowed
  /\ IsConnected(c)

\* PrepareForReuse, all of its conditions.
MayIdle(c) ==
  /\ ~client[c].cancelled /\ client[c].connected
  /\ client[c].finished /\ client[c].allowed
  /\ IsConnected(c)
  /\ client[c].epoch = epoch

\* ReconfigureForReuse, all of its conditions.
MayServe(c, identity) ==
  /\ client[c].reusable /\ IsConnected(c)
  /\ client[c].identity = identity
  /\ client[c].epoch = epoch

(***************************************************************************)
(* The worker of a session.                                                *)
(***************************************************************************)

Quiet ==
  [pc |-> "off", identity |-> None, client |-> None, active |-> None,
   abort |-> "no", success |-> FALSE]

Aborted(s) == session[s].abort # "no"

Leave(s) == session' = [session EXCEPT ![s] = Quiet]

Goto(s, pc) == session' = [session EXCEPT ![s].pc = pc]

\* A session is built with the settings of its moment.
Start(s) ==
  /\ session[s].pc = "off"
  /\ session' = [session EXCEPT ![s] = [@ EXCEPT !.pc = "acquire", !.identity = saved]]
  /\ UNCHANGED <<saved, epoch, idle, closing, client>>

\* Acquire, under the manager's mutex: one that is too old or of another
\* identity is taken out to be closed.
Acquire(s) ==
  /\ session[s].pc = "acquire"
  /\ IF Aborted(s)
     THEN Leave(s) /\ UNCHANGED <<idle, closing>>
     ELSE /\ idle' = None
          /\ \/ /\ idle = None
                /\ Goto(s, "create")
                /\ UNCHANGED closing
             \/ /\ idle # None
                /\ closing' = closing \cup {idle}
                /\ Goto(s, "create")
             \/ /\ idle # None
                /\ client[idle].identity = session[s].identity
                /\ session' = [session EXCEPT ![s] =
                     [@ EXCEPT !.pc = "reconfigure", !.client = idle]]
                /\ UNCHANGED closing
  /\ UNCHANGED <<saved, epoch, client>>

\* ReconfigureForReuse, after the mutex is left: the settings may have changed.
Reconfigure(s) ==
  LET c == session[s].client
  IN  /\ session[s].pc = "reconfigure"
      /\ IF MayServe(c, session[s].identity)
         THEN /\ client' = [client EXCEPT ![c] =
                   [@ EXCEPT !.cancelled = FALSE, !.connected = FALSE,
                             !.finished = TRUE, !.allowed = TRUE]]
              /\ Goto(s, "activate")
              /\ UNCHANGED closing
         ELSE /\ closing' = closing \cup {c}
              /\ session' = [session EXCEPT ![s] = [@ EXCEPT !.pc = "create", !.client = None]]
              /\ UNCHANGED client
      /\ UNCHANGED <<saved, epoch, idle>>

Create(s) ==
  /\ session[s].pc = "create"
  /\ \E c \in Clients :
       /\ ~client[c].alive
       /\ client' = [client EXCEPT ![c] = Fresh(session[s].identity)]
       /\ session' = [session EXCEPT ![s] = [@ EXCEPT !.pc = "activate", !.client = c]]
  /\ UNCHANGED <<saved, epoch, idle, closing>>

SetActiveClient(s) ==
  /\ session[s].pc = "activate"
  /\ session' = [session EXCEPT ![s] =
       [@ EXCEPT !.pc = "connect", !.active = session[s].client]]
  /\ UNCHANGED <<saved, epoch, idle, closing, client>>

\* Connect: the flags of the last task are reset, and the client is claimed.
Claim(s) ==
  LET c == session[s].client
  IN  /\ session[s].pc = "connect"
      /\ client' = [client EXCEPT ![c] =
           [@ EXCEPT !.cancelled = FALSE, !.connected = FALSE, !.finished = FALSE,
                     !.allowed = TRUE, !.reusable = FALSE]]
      /\ Goto(s, IF client[c].reusable /\ IsConnected(c) THEN "runTask" ELSE "handshake")
      /\ UNCHANGED <<saved, epoch, idle, closing>>

Handshake(s) ==
  /\ session[s].pc = "handshake"
  /\ client' = [client EXCEPT ![session[s].client].link = "connecting"]
  /\ Goto(s, "handshaking")
  /\ UNCHANGED <<saved, epoch, idle, closing>>

HandshakeEnds(s) ==
  LET c == session[s].client
  IN  /\ session[s].pc = "handshaking"
      /\ \/ /\ client[c].link = "connecting"
            /\ client' = [client EXCEPT ![c].link = "up"]
            /\ Goto(s, "runTask")
         \/ /\ client' = [client EXCEPT ![c].link = "down"]
            /\ Goto(s, "failed")
      /\ UNCHANGED <<saved, epoch, idle, closing>>

\* The run-task message; only a transport that is up can carry it.
RunTask(s) ==
  LET c == session[s].client
  IN  /\ session[s].pc = "runTask"
      /\ \/ /\ IsConnected(c)
            /\ client' = [client EXCEPT ![c] = [@ EXCEPT !.connected = TRUE, !.running = TRUE]]
            /\ Goto(s, "starting")
         \/ Goto(s, "failed") /\ client' = client
      /\ UNCHANGED <<saved, epoch, idle, closing>>

\* task-started, or a refusal, a silence or the end of the connection.
TaskStarted(s) ==
  /\ session[s].pc = "starting"
  /\ \/ client[session[s].client].link = "up" /\ Goto(s, "task")
     \/ Goto(s, "failed")
  /\ UNCHANGED <<saved, epoch, idle, closing, client>>

\* The attempt failed: its client is closed, and perhaps another one tried.
ConnectFailed(s) ==
  /\ session[s].pc = "failed"
  /\ client' = [client EXCEPT ![session[s].client] = Unused]
  /\ \/ session' = [session EXCEPT ![s] =
          [@ EXCEPT !.pc = "acquire", !.client = None, !.active = None]]
     \/ Leave(s)
  /\ UNCHANGED <<saved, epoch, idle, closing>>

\* Mutant: a task that did not answer in time counts as finished.
TaskEndsAnyway(s) ==
  LET c == session[s].client
  IN  /\ session[s].pc = "task"
      /\ \E running \in BOOLEAN :
           client' = [client EXCEPT ![c].finished = TRUE, ![c].running = running]
      /\ Goto(s, "judge")
      /\ UNCHANGED <<saved, epoch, idle, closing>>

\* task-finished; a failure, which ends the task too; or nothing in time.
TaskEnds(s) ==
  LET c == session[s].client
  IN  /\ session[s].pc = "task"
      /\ \/ /\ client[c].link = "up"
            /\ client' = [client EXCEPT ![c] = [@ EXCEPT !.finished = TRUE, !.running = FALSE]]
         \/ client' = [client EXCEPT ![c] =
              [@ EXCEPT !.finished = FALSE, !.reusable = FALSE, !.allowed = FALSE]]
         \/ client' = client
      /\ Goto(s, "judge")
      /\ UNCHANGED <<saved, epoch, idle, closing>>

\* successfulTask reads the abort flag once, and it is read again below.
Judge(s) ==
  /\ session[s].pc = "judge"
  /\ session' = [session EXCEPT ![s] =
       [@ EXCEPT !.pc = "settle",
                 !.success = ~Aborted(s) /\ client[session[s].client].finished]]
  /\ UNCHANGED <<saved, epoch, idle, closing, client>>

Settle(s) ==
  /\ session[s].pc = "settle"
  /\ client' = IF session[s].success /\ ~Aborted(s) THEN client
               ELSE [client EXCEPT ![session[s].client] = AbortedClient(@)]
  /\ Goto(s, "finish")
  /\ UNCHANGED <<saved, epoch, idle, closing>>

\* FinishClient, from here on under the session's clientMutex_.
FinishClient(s) ==
  /\ session[s].pc = "finish"
  /\ session' = IF session[s].success /\ ~Aborted(s)
                THEN [session EXCEPT ![s] = [@ EXCEPT !.pc = "release", !.active = None]]
                ELSE [session EXCEPT ![s].pc = "close"]
  /\ UNCHANGED <<saved, epoch, idle, closing, client>>

\* Mutant: the client is handed over and still the active one.
ReleaseUncleared(s) ==
  LET c == session[s].client
  IN  /\ session[s].pc = "release"
      /\ idle' = c
      /\ closing' = closing \cup ({idle} \ {None})
      /\ client' = [client EXCEPT ![c] =
           [@ EXCEPT !.connected = FALSE, !.reusable = TRUE]]
      /\ session' = [session EXCEPT ![s] =
           [@ EXCEPT !.pc = "off", !.client = None, !.active = c]]
      /\ UNCHANGED <<saved, epoch>>

\* Release: admission and the epoch are read under the manager's mutex.
Release(s) ==
  LET c == session[s].client
  IN  /\ session[s].pc = "release"
      /\ IF MayIdle(c)
         THEN /\ idle' = c
              /\ closing' = closing \cup ({idle} \ {None})
              /\ client' = [client EXCEPT ![c] =
                   [@ EXCEPT !.connected = FALSE, !.reusable = TRUE]]
         ELSE /\ client' = [client EXCEPT ![c] = Unused]
              /\ UNCHANGED <<idle, closing>>
      /\ Leave(s)
      /\ UNCHANGED <<saved, epoch>>

CloseClient(s) ==
  /\ session[s].pc = "close"
  /\ client' = [client EXCEPT ![session[s].client] = Unused]
  /\ Leave(s)
  /\ UNCHANGED <<saved, epoch, idle, closing>>

Worker(s) ==
  \/ Start(s) \/ Acquire(s) \/ Reconfigure(s) \/ Create(s) \/ SetActiveClient(s)
  \/ Claim(s) \/ Handshake(s) \/ HandshakeEnds(s) \/ RunTask(s) \/ TaskStarted(s)
  \/ ConnectFailed(s) \/ TaskEnds(s) \/ Judge(s) \/ Settle(s)
  \/ FinishClient(s) \/ Release(s) \/ CloseClient(s)

(***************************************************************************)
(* The application, the manager's own thread, and the peer.                *)
(***************************************************************************)

\* Session::Abort: the flag first ...
Abort(s) ==
  /\ session[s].pc # "off"
  /\ session[s].abort = "no"
  /\ session' = [session EXCEPT ![s].abort = "flag"]
  /\ UNCHANGED <<saved, epoch, idle, closing, client>>

Locked(s) == session[s].pc \notin {"release", "close"}

\* ... and then the active client, under clientMutex_.
AbortActiveClient(s) ==
  /\ session[s].abort = "flag"
  /\ Locked(s)
  /\ session' = [session EXCEPT ![s].abort = "done"]
  /\ client' = IF session[s].active = None THEN client
               ELSE [client EXCEPT ![session[s].active] = AbortedClient(@)]
  /\ UNCHANGED <<saved, epoch, idle, closing>>

\* SaveSettingsControls with another identity, and Invalidate.
Invalidate ==
  /\ epoch < MaxEpoch
  /\ epoch' = epoch + 1
  /\ saved' \in Identities \ {saved}
  /\ idle' = None
  /\ closing' = closing \cup ({idle} \ {None})
  /\ UNCHANGED <<client, session>>

\* JanitorLoop finds the connection too old, or the manager is destroyed.
Expire ==
  /\ idle # None
  /\ idle' = None
  /\ closing' = closing \cup {idle}
  /\ UNCHANGED <<saved, epoch, client, session>>

\* Close() and the end of a client that was taken out of the pool.
CloseDiscarded(c) ==
  /\ c \in closing
  /\ closing' = closing \ {c}
  /\ client' = [client EXCEPT ![c] = Unused]
  /\ UNCHANGED <<saved, epoch, idle, session>>

PeerHangsUp(c) ==
  /\ client[c].link = "up"
  /\ client' = [client EXCEPT ![c] = [@ EXCEPT !.link = "dead", !.running = FALSE]]
  /\ UNCHANGED <<saved, epoch, idle, closing, session>>

Init ==
  /\ saved \in Identities
  /\ epoch = 0
  /\ idle = None
  /\ closing = {}
  /\ client = [c \in Clients |-> Unused]
  /\ session = [s \in Sessions |-> Quiet]

Next ==
  \/ \E s \in Sessions : Worker(s) \/ Abort(s) \/ AbortActiveClient(s)
  \/ \E c \in Clients : CloseDiscarded(c) \/ PeerHangsUp(c)
  \/ Invalidate \/ Expire

Spec == Init /\ [][Next]_vars

(***************************************************************************)
(* Properties.                                                             *)
(***************************************************************************)

HoldsClient ==
  {"reconfigure", "activate", "connect", "handshake", "handshaking", "runTask",
   "starting", "failed", "task", "judge", "settle", "finish", "release", "close"}

Steps == HoldsClient \cup {"off", "acquire", "create"}

ClientType ==
  [alive: BOOLEAN, link: {"down", "connecting", "up", "dead"},
   identity: Identities \cup {None}, epoch: 0..MaxEpoch, connected: BOOLEAN,
   finished: BOOLEAN, reusable: BOOLEAN, allowed: BOOLEAN, cancelled: BOOLEAN,
   running: BOOLEAN]

SessionType ==
  [pc: Steps, identity: Identities \cup {None}, client: Clients \cup {None},
   active: Clients \cup {None}, abort: {"no", "flag", "done"}, success: BOOLEAN]

\* The types of the variables.
TypeOK ==
  /\ saved \in Identities
  /\ epoch \in 0..MaxEpoch
  /\ idle \in Clients \cup {None}
  /\ closing \subseteq Clients
  /\ client \in [Clients -> ClientType]
  /\ session \in [Sessions -> SessionType]

\* "Otherwise Session::Abort() could retain a raw pointer while the idle manager
\* acquires (or destroys) the same Client": the abort of a session finds its own
\* client or none.
AbortFindsOwnClient ==
  \A s \in Sessions : session[s].active \in {None, session[s].client}

\* A client belongs to one session, or is the idle one, or is about to be closed,
\* and never to two of them: no connection is used by two sessions, none is closed
\* under the feet of its user or of an abort, and none is forgotten with its
\* socket open.
Owners(c) ==
  {s \in Sessions : session[s].client = c}
    \cup (IF idle = c THEN {"idle"} ELSE {})
    \cup (IF c \in closing THEN {"closing"} ELSE {})

OneOwner ==
  /\ \A c \in Clients :
       /\ client[c].alive => Owners(c) # {}
       /\ ~client[c].alive => Owners(c) = {}
       /\ \A x, y \in Owners(c) : x = y
  /\ AbortFindsOwnClient

\* A connection that waits for its next task was made in the current epoch, and the
\* flags of its last task, which several threads wrote, let it be reused.
IdleIsCurrent ==
  idle # None =>
    /\ client[idle].epoch = epoch
    /\ client[idle].reusable /\ client[idle].allowed /\ ~client[idle].cancelled
    /\ client[idle].link \in {"up", "dead"}

\* No session has a connection of another account than its own, whether it made
\* the connection or took it from the pool.
AccountsMatch ==
  \A s \in Sessions :
    session[s].client # None => client[session[s].client].identity = session[s].identity

\* What is kept may be reused, and only for its own account.  The connection that
\* waits may still be one of the account before the settings changed: a session
\* built before that creates its client after it, with the new epoch
\* (qwen_audio_streaming_session.cpp:425), though the comment on the epoch
\* (qwen_audio_streaming.cpp:38) rules that out.  Nobody of the new account gets it.
IdleIsReusable == IdleIsCurrent /\ AccountsMatch

\* A task is begun only on a connection on which no other task is running.
TasksDoNotOverlap ==
  \A s \in Sessions :
    session[s].pc = "runTask" => ~client[session[s].client].running
=============================================================================
