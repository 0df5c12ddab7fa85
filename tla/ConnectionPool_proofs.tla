----------------------- MODULE ConnectionPool_proofs -----------------------
(***************************************************************************)
(* Theorems about ConnectionPool, for any number of sessions, clients,     *)
(* identities and changes of the settings.                                 *)
(*                                                                         *)
(* A worker's step either keeps its client or leaves it, so most actions   *)
(* are instances of two lemmas: KeepsClient and LeavesClient.              *)
(***************************************************************************)
EXTENDS ConnectionPool, TLAPS

\* A worker has a client exactly at the steps that use one, and shows it to Abort
\* only once it is configured.
HoldsInv ==
  \A s \in Sessions :
    /\ session[s].pc \in HoldsClient <=> session[s].client # None
    /\ session[s].pc = "reconfigure" => session[s].active = None

Held(c) == \E s \in Sessions : session[s].client = c

\* Every client that is alive is in one place.
PlaceInv ==
  /\ \A c \in Clients : client[c].alive <=> Held(c) \/ idle = c \/ c \in closing
  /\ \A s, t \in Sessions :
       session[s].client = session[t].client /\ session[s].client # None => s = t
  /\ \A s \in Sessions :
       session[s].client # None =>
         session[s].client # idle /\ session[s].client \notin closing
  /\ idle \notin closing

\* No task runs before this worker begins one, its task is not finished before
\* it ends, and a finished task does not run.
TaskOK(pc, k) ==
  /\ pc \in {"reconfigure", "activate", "connect", "handshake", "handshaking", "runTask"} =>
       ~k.running
  /\ pc \in {"handshake", "handshaking", "runTask", "starting", "task"} => ~k.finished
  /\ pc \in {"judge", "settle", "finish", "release"} => ~(k.finished /\ k.running)

TaskInv ==
  /\ \A s \in Sessions :
       session[s].client # None => TaskOK(session[s].pc, client[session[s].client])
  /\ idle # None => ~client[idle].running

Inv ==
  TypeOK /\ HoldsInv /\ PlaceInv /\ AbortFindsOwnClient /\ IdleIsCurrent /\ TaskInv

\* The other sessions stay as they are, and so do the other clients.
OthersStay(s) ==
  /\ session' \in [Sessions -> SessionType]
  /\ \A t \in Sessions \ {s} : session'[t] = session[t]
  /\ client' \in [Clients -> ClientType]
  /\ \A c \in Clients : c # session[s].client => client'[c] = client[c]

\* A step that keeps the session's client, or has none and takes none.
LEMMA KeepsClient ==
  ASSUME NEW s \in Sessions, Inv, OthersStay(s),
         UNCHANGED <<saved, epoch, idle, closing>>,
         session'[s].client = session[s].client,
         session'[s].pc \in HoldsClient <=> session'[s].client # None,
         session'[s].active \in {None, session[s].client},
         session'[s].pc = "reconfigure" => session'[s].active = None,
         session[s].client # None =>
           /\ client'[session[s].client].alive = client[session[s].client].alive
           /\ TaskOK(session'[s].pc, client'[session[s].client])
  PROVE  Inv'
<1> USE PoolAssumption
<1>1. TypeOK'
  BY DEF Inv, TypeOK, OthersStay
<1>2. HoldsInv'
  BY DEF Inv, HoldsInv, OthersStay
<1>3. PlaceInv'
  <2>1. \A t \in Sessions : session'[t].client = session[t].client
    BY DEF OthersStay
  <2>2. \A c \in Clients : client'[c].alive = client[c].alive
    BY DEF OthersStay
  <2> QED
    BY <2>1, <2>2 DEF Inv, PlaceInv, Held
<1>4. AbortFindsOwnClient'
  BY DEF Inv, AbortFindsOwnClient, OthersStay
<1>5. idle # None => idle \in Clients /\ client'[idle] = client[idle]
  BY DEF Inv, TypeOK, PlaceInv, OthersStay
<1>6. IdleIsCurrent'
  BY <1>5 DEF Inv, IdleIsCurrent
<1>7. TaskInv'
  <2>1. ASSUME NEW t \in Sessions, session'[t].client # None
        PROVE  TaskOK(session'[t].pc, client'[session'[t].client])
    <3>1. CASE t = s
      BY <2>1, <3>1
    <3>2. CASE t # s
      <4>1. session'[t] = session[t]
        BY <3>2 DEF OthersStay
      <4>2. client'[session[t].client] = client[session[t].client]
        BY <2>1, <3>2, <4>1 DEF Inv, TypeOK, SessionType, PlaceInv, OthersStay
      <4> QED
        BY <2>1, <4>1, <4>2 DEF Inv, TaskInv
    <3> QED
      BY <3>1, <3>2
  <2> QED
    BY <2>1, <1>5 DEF Inv, TaskInv
<1> QED
  BY <1>1, <1>2, <1>3, <1>4, <1>6, <1>7 DEF Inv

\* A step at which the client of the session ceases to exist.
LEMMA LeavesClient ==
  ASSUME NEW s \in Sessions, Inv, OthersStay(s),
         UNCHANGED <<saved, epoch, idle, closing>>,
         session[s].client \in Clients,
         client'[session[s].client].alive = FALSE,
         session'[s].client = None, session'[s].active = None,
         session'[s].pc \notin HoldsClient
  PROVE  Inv'
<1> USE PoolAssumption
<1>1. TypeOK'
  BY DEF Inv, TypeOK, OthersStay
<1>2. HoldsInv'
  BY DEF Inv, HoldsInv, HoldsClient, OthersStay
<1>3. PlaceInv'
  BY DEF Inv, TypeOK, PlaceInv, Held, OthersStay
<1>4. AbortFindsOwnClient'
  BY DEF Inv, AbortFindsOwnClient, OthersStay
<1>5. idle # None => idle \in Clients /\ client'[idle] = client[idle]
  BY DEF Inv, TypeOK, PlaceInv, OthersStay
<1>6. IdleIsCurrent'
  BY <1>5 DEF Inv, IdleIsCurrent
<1>7. TaskInv'
  <2>1. ASSUME NEW t \in Sessions, session'[t].client # None
        PROVE  TaskOK(session'[t].pc, client'[session'[t].client])
    <3>1. t # s /\ session'[t] = session[t]
      BY <2>1 DEF OthersStay
    <3>2. client'[session[t].client] = client[session[t].client]
      BY <2>1, <3>1 DEF Inv, TypeOK, SessionType, PlaceInv, OthersStay
    <3> QED
      BY <2>1, <3>1, <3>2 DEF Inv, TaskInv
  <2> QED
    BY <2>1, <1>5 DEF Inv, TaskInv
<1> QED
  BY <1>1, <1>2, <1>3, <1>4, <1>6, <1>7 DEF Inv

\* What the steps write into a client keeps its type.
LEMMA ClientRecords ==
  ASSUME NEW k \in ClientType
  PROVE  /\ AbortedClient(k) \in ClientType
         /\ [k EXCEPT !.cancelled = FALSE, !.connected = FALSE, !.finished = FALSE,
                      !.allowed = TRUE, !.reusable = FALSE] \in ClientType
         /\ [k EXCEPT !.cancelled = FALSE, !.connected = FALSE,
                      !.finished = TRUE, !.allowed = TRUE] \in ClientType
         /\ [k EXCEPT !.connected = TRUE, !.running = TRUE] \in ClientType
         /\ [k EXCEPT !.connected = FALSE, !.reusable = TRUE] \in ClientType
         /\ [k EXCEPT !.finished = TRUE, !.running = FALSE] \in ClientType
         /\ [k EXCEPT !.finished = FALSE, !.reusable = FALSE, !.allowed = FALSE] \in ClientType
         /\ [k EXCEPT !.link = "dead", !.running = FALSE] \in ClientType
         /\ [k EXCEPT !.link = "up"] \in ClientType
         /\ [k EXCEPT !.link = "down"] \in ClientType
         /\ [k EXCEPT !.link = "connecting"] \in ClientType
<1>1. AbortedClient(k) \in ClientType
  BY DEF ClientType, AbortedClient
<1>2. [k EXCEPT !.cancelled = FALSE, !.connected = FALSE, !.finished = FALSE,
                  !.allowed = TRUE, !.reusable = FALSE] \in ClientType
  BY DEF ClientType
<1>3. [k EXCEPT !.cancelled = FALSE, !.connected = FALSE,
                  !.finished = TRUE, !.allowed = TRUE] \in ClientType
  BY DEF ClientType
<1>4. [k EXCEPT !.connected = TRUE, !.running = TRUE] \in ClientType
  BY DEF ClientType
<1>5. [k EXCEPT !.connected = FALSE, !.reusable = TRUE] \in ClientType
  BY DEF ClientType
<1>6. [k EXCEPT !.finished = TRUE, !.running = FALSE] \in ClientType
  BY DEF ClientType
<1>7. [k EXCEPT !.finished = FALSE, !.reusable = FALSE, !.allowed = FALSE] \in ClientType
  BY DEF ClientType
<1>8. [k EXCEPT !.link = "dead", !.running = FALSE] \in ClientType
  BY DEF ClientType
<1>9. [k EXCEPT !.link = "up"] \in ClientType
  BY DEF ClientType
<1>10. [k EXCEPT !.link = "down"] \in ClientType
  BY DEF ClientType
<1>11. [k EXCEPT !.link = "connecting"] \in ClientType
  BY DEF ClientType
<1> QED
  BY <1>1, <1>2, <1>3, <1>4, <1>5, <1>6, <1>7, <1>8, <1>9, <1>10, <1>11

-----------------------------------------------------------------------------
\* The worker's steps.

LEMMA Start_Inv ==
  ASSUME NEW s \in Sessions, Inv, Start(s)
  PROVE  Inv'
<1>0. session \in [Sessions -> SessionType] /\ client \in [Clients -> ClientType]
      /\ saved \in Identities
  BY DEF Inv, TypeOK
<1>2. {"acquire"} \subseteq Steps
  BY DEF Steps, HoldsClient
<1>3. session' \in [Sessions -> SessionType]
  <2>1. [session[s] EXCEPT !.pc = "acquire", !.identity = saved] \in SessionType
    BY <1>0, <1>2 DEF SessionType
  <2> QED
    BY <1>0, <2>1 DEF Start
<1>4. client' = client
  BY DEF Start
<1>5. OthersStay(s)
  BY <1>0, <1>3, <1>4 DEF OthersStay, Start
<1>6. /\ session'[s].client = session[s].client
      /\ session'[s].pc \in HoldsClient <=> session'[s].client # None
      /\ session'[s].active \in {None, session[s].client}
      /\ session'[s].pc = "reconfigure" => session'[s].active = None
  BY <1>0, PoolAssumption
  DEF Inv, HoldsInv, HoldsClient, AbortFindsOwnClient, SessionType, Start
<1>7. session[s].client # None =>
        /\ client'[session[s].client].alive = client[session[s].client].alive
        /\ TaskOK(session'[s].pc, client'[session[s].client])
  BY <1>0 DEF Inv, HoldsInv, HoldsClient, TaskInv, TaskOK, ClientType, SessionType, Start
<1> QED
  BY <1>5, <1>6, <1>7, KeepsClient DEF Start

LEMMA SetActiveClient_Inv ==
  ASSUME NEW s \in Sessions, Inv, SetActiveClient(s)
  PROVE  Inv'
<1>0. session \in [Sessions -> SessionType] /\ client \in [Clients -> ClientType]
      /\ saved \in Identities
  BY DEF Inv, TypeOK
<1>1. session[s].client \in Clients
  BY <1>0 DEF Inv, HoldsInv, HoldsClient, SessionType, SetActiveClient
<1>2. {"connect"} \subseteq Steps
  BY DEF Steps, HoldsClient
<1>3. session' \in [Sessions -> SessionType]
  <2>1. [session[s] EXCEPT !.pc = "connect", !.active = session[s].client] \in SessionType
    BY <1>0, <1>2 DEF SessionType
  <2> QED
    BY <1>0, <2>1 DEF SetActiveClient
<1>4. client' = client
  BY DEF SetActiveClient
<1>5. OthersStay(s)
  BY <1>0, <1>3, <1>4 DEF OthersStay, SetActiveClient
<1>6. /\ session'[s].client = session[s].client
      /\ session'[s].pc \in HoldsClient <=> session'[s].client # None
      /\ session'[s].active \in {None, session[s].client}
      /\ session'[s].pc = "reconfigure" => session'[s].active = None
  BY <1>0, <1>1, PoolAssumption
  DEF Inv, HoldsInv, HoldsClient, AbortFindsOwnClient, SessionType, SetActiveClient
<1>7. session[s].client # None =>
        /\ client'[session[s].client].alive = client[session[s].client].alive
        /\ TaskOK(session'[s].pc, client'[session[s].client])
  BY <1>0, <1>1
  DEF Inv, HoldsInv, HoldsClient, TaskInv, TaskOK, ClientType, SessionType, SetActiveClient
<1> QED
  BY <1>1, <1>5, <1>6, <1>7, KeepsClient DEF SetActiveClient

LEMMA Claim_Inv ==
  ASSUME NEW s \in Sessions, Inv, Claim(s)
  PROVE  Inv'
<1>0. session \in [Sessions -> SessionType] /\ client \in [Clients -> ClientType]
      /\ saved \in Identities
  BY DEF Inv, TypeOK
<1>1. session[s].client \in Clients
  BY <1>0 DEF Inv, HoldsInv, HoldsClient, SessionType, Claim
<1>2. {"runTask", "handshake"} \subseteq Steps
  BY DEF Steps, HoldsClient
<1>3. session' \in [Sessions -> SessionType]
  BY <1>0, <1>2 DEF SessionType, Claim, Goto
<1>4. /\ client' \in [Clients -> ClientType]
      /\ \A c \in Clients : c # session[s].client => client'[c] = client[c]
  <2>1. [client[session[s].client] EXCEPT
       !.cancelled = FALSE, !.connected = FALSE, !.finished = FALSE,
       !.allowed = TRUE, !.reusable = FALSE] \in ClientType
    BY <1>0, <1>1, ClientRecords
  <2> QED
    BY <1>0, <1>1, <2>1 DEF Claim
<1>5. OthersStay(s)
  BY <1>0, <1>3, <1>4 DEF OthersStay, Claim, Goto
<1>6. /\ session'[s].client = session[s].client
      /\ session'[s].pc \in HoldsClient <=> session'[s].client # None
      /\ session'[s].active \in {None, session[s].client}
      /\ session'[s].pc = "reconfigure" => session'[s].active = None
  BY <1>0, <1>1, PoolAssumption
  DEF Inv, HoldsInv, HoldsClient, AbortFindsOwnClient, SessionType, Claim, Goto
<1>7. session[s].client # None =>
        /\ client'[session[s].client].alive = client[session[s].client].alive
        /\ TaskOK(session'[s].pc, client'[session[s].client])
  BY <1>0, <1>1
  DEF Inv, HoldsInv, HoldsClient, TaskInv, TaskOK, ClientType, SessionType, Claim, Goto
<1> QED
  BY <1>1, <1>5, <1>6, <1>7, KeepsClient DEF Claim

LEMMA Handshake_Inv ==
  ASSUME NEW s \in Sessions, Inv, Handshake(s)
  PROVE  Inv'
<1>0. session \in [Sessions -> SessionType] /\ client \in [Clients -> ClientType]
      /\ saved \in Identities
  BY DEF Inv, TypeOK
<1>1. session[s].client \in Clients
  BY <1>0 DEF Inv, HoldsInv, HoldsClient, SessionType, Handshake
<1>2. {"handshaking"} \subseteq Steps
  BY DEF Steps, HoldsClient
<1>3. session' \in [Sessions -> SessionType]
  BY <1>0, <1>2 DEF SessionType, Handshake, Goto
<1>4. /\ client' \in [Clients -> ClientType]
      /\ \A c \in Clients : c # session[s].client => client'[c] = client[c]
  <2>1. [client[session[s].client] EXCEPT !.link = "connecting"] \in ClientType
    BY <1>0, <1>1, ClientRecords
  <2> QED
    BY <1>0, <1>1, <2>1 DEF Handshake
<1>5. OthersStay(s)
  BY <1>0, <1>3, <1>4 DEF OthersStay, Handshake, Goto
<1>6. /\ session'[s].client = session[s].client
      /\ session'[s].pc \in HoldsClient <=> session'[s].client # None
      /\ session'[s].active \in {None, session[s].client}
      /\ session'[s].pc = "reconfigure" => session'[s].active = None
  BY <1>0, <1>1, PoolAssumption
  DEF Inv, HoldsInv, HoldsClient, AbortFindsOwnClient, SessionType, Handshake, Goto
<1>7. session[s].client # None =>
        /\ client'[session[s].client].alive = client[session[s].client].alive
        /\ TaskOK(session'[s].pc, client'[session[s].client])
  BY <1>0, <1>1
  DEF Inv, HoldsInv, HoldsClient, TaskInv, TaskOK, ClientType, SessionType, Handshake, Goto
<1> QED
  BY <1>1, <1>5, <1>6, <1>7, KeepsClient DEF Handshake

LEMMA HandshakeEnds_Inv ==
  ASSUME NEW s \in Sessions, Inv, HandshakeEnds(s)
  PROVE  Inv'
<1>0. session \in [Sessions -> SessionType] /\ client \in [Clients -> ClientType]
      /\ saved \in Identities
  BY DEF Inv, TypeOK
<1>1. session[s].client \in Clients
  BY <1>0 DEF Inv, HoldsInv, HoldsClient, SessionType, HandshakeEnds
<1>2. {"runTask", "failed"} \subseteq Steps
  BY DEF Steps, HoldsClient
<1>3. session' \in [Sessions -> SessionType]
  BY <1>0, <1>2 DEF SessionType, HandshakeEnds, Goto
<1>4. /\ client' \in [Clients -> ClientType]
      /\ \A c \in Clients : c # session[s].client => client'[c] = client[c]
  <2>1. [client[session[s].client] EXCEPT !.link = "up"] \in ClientType
    BY <1>0, <1>1, ClientRecords
  <2>2. [client[session[s].client] EXCEPT !.link = "down"] \in ClientType
    BY <1>0, <1>1, ClientRecords
  <2> QED
    BY <1>0, <1>1, <2>1, <2>2 DEF HandshakeEnds
<1>5. OthersStay(s)
  BY <1>0, <1>3, <1>4 DEF OthersStay, HandshakeEnds, Goto
<1>6. /\ session'[s].client = session[s].client
      /\ session'[s].pc \in HoldsClient <=> session'[s].client # None
      /\ session'[s].active \in {None, session[s].client}
      /\ session'[s].pc = "reconfigure" => session'[s].active = None
  BY <1>0, <1>1, PoolAssumption
  DEF Inv, HoldsInv, HoldsClient, AbortFindsOwnClient, SessionType, HandshakeEnds, Goto
<1>7. session[s].client # None =>
        /\ client'[session[s].client].alive = client[session[s].client].alive
        /\ TaskOK(session'[s].pc, client'[session[s].client])
  BY <1>0, <1>1
  DEF Inv, HoldsInv, HoldsClient, TaskInv, TaskOK, ClientType, SessionType,
      HandshakeEnds, Goto
<1> QED
  BY <1>1, <1>5, <1>6, <1>7, KeepsClient DEF HandshakeEnds

LEMMA RunTask_Inv ==
  ASSUME NEW s \in Sessions, Inv, RunTask(s)
  PROVE  Inv'
<1>0. session \in [Sessions -> SessionType] /\ client \in [Clients -> ClientType]
      /\ saved \in Identities
  BY DEF Inv, TypeOK
<1>1. session[s].client \in Clients
  BY <1>0 DEF Inv, HoldsInv, HoldsClient, SessionType, RunTask
<1>2. {"starting", "failed"} \subseteq Steps
  BY DEF Steps, HoldsClient
<1>3. session' \in [Sessions -> SessionType]
  BY <1>0, <1>2 DEF SessionType, RunTask, Goto
<1>4. /\ client' \in [Clients -> ClientType]
      /\ \A c \in Clients : c # session[s].client => client'[c] = client[c]
  <2>1. [client[session[s].client] EXCEPT !.connected = TRUE, !.running = TRUE] \in ClientType
    BY <1>0, <1>1, ClientRecords
  <2> QED
    BY <1>0, <1>1, <2>1 DEF RunTask
<1>5. OthersStay(s)
  BY <1>0, <1>3, <1>4 DEF OthersStay, RunTask, Goto
<1>6. /\ session'[s].client = session[s].client
      /\ session'[s].pc \in HoldsClient <=> session'[s].client # None
      /\ session'[s].active \in {None, session[s].client}
      /\ session'[s].pc = "reconfigure" => session'[s].active = None
  BY <1>0, <1>1, PoolAssumption
  DEF Inv, HoldsInv, HoldsClient, AbortFindsOwnClient, SessionType, RunTask, Goto
<1>7. /\ client'[session[s].client].alive = client[session[s].client].alive
      /\ TaskOK(session'[s].pc, client'[session[s].client])
  <2>1. TaskOK("runTask", client[session[s].client])
    BY <1>1, PoolAssumption DEF Inv, TaskInv, RunTask
  <2>2. session'[s].pc \in {"starting", "failed"}
    BY <1>0 DEF SessionType, RunTask, Goto
  <2>3. client[session[s].client] \in ClientType
    BY <1>0, <1>1
  <2>4. \/ client'[session[s].client] = client[session[s].client]
        \/ client'[session[s].client] =
             [client[session[s].client] EXCEPT !.connected = TRUE, !.running = TRUE]
    BY <1>0, <1>1 DEF RunTask
  <2>5. /\ client'[session[s].client].alive = client[session[s].client].alive
        /\ client'[session[s].client].finished = client[session[s].client].finished
    BY <2>3, <2>4 DEF ClientType
  <2> QED
    BY <2>1, <2>2, <2>5 DEF TaskOK
<1> QED
  BY <1>1, <1>5, <1>6, <1>7, KeepsClient DEF RunTask

LEMMA TaskStarted_Inv ==
  ASSUME NEW s \in Sessions, Inv, TaskStarted(s)
  PROVE  Inv'
<1>0. session \in [Sessions -> SessionType] /\ client \in [Clients -> ClientType]
      /\ saved \in Identities
  BY DEF Inv, TypeOK
<1>1. session[s].client \in Clients
  BY <1>0 DEF Inv, HoldsInv, HoldsClient, SessionType, TaskStarted
<1>2. {"task", "failed"} \subseteq Steps
  BY DEF Steps, HoldsClient
<1>3. session' \in [Sessions -> SessionType]
  BY <1>0, <1>2 DEF SessionType, TaskStarted, Goto
<1>4. client' = client
  BY DEF TaskStarted
<1>5. OthersStay(s)
  BY <1>0, <1>3, <1>4 DEF OthersStay, TaskStarted, Goto
<1>6. /\ session'[s].client = session[s].client
      /\ session'[s].pc \in HoldsClient <=> session'[s].client # None
      /\ session'[s].active \in {None, session[s].client}
      /\ session'[s].pc = "reconfigure" => session'[s].active = None
  BY <1>0, <1>1, PoolAssumption
  DEF Inv, HoldsInv, HoldsClient, AbortFindsOwnClient, SessionType, TaskStarted, Goto
<1>7. session[s].client # None =>
        /\ client'[session[s].client].alive = client[session[s].client].alive
        /\ TaskOK(session'[s].pc, client'[session[s].client])
  BY <1>0, <1>1
  DEF Inv, HoldsInv, HoldsClient, TaskInv, TaskOK, ClientType, SessionType, TaskStarted,
      Goto
<1> QED
  BY <1>1, <1>5, <1>6, <1>7, KeepsClient DEF TaskStarted

LEMMA TaskEnds_Inv ==
  ASSUME NEW s \in Sessions, Inv, TaskEnds(s)
  PROVE  Inv'
<1>0. session \in [Sessions -> SessionType] /\ client \in [Clients -> ClientType]
      /\ saved \in Identities
  BY DEF Inv, TypeOK
<1>1. session[s].client \in Clients
  BY <1>0 DEF Inv, HoldsInv, HoldsClient, SessionType, TaskEnds
<1>2. {"judge"} \subseteq Steps
  BY DEF Steps, HoldsClient
<1>3. session' \in [Sessions -> SessionType]
  BY <1>0, <1>2 DEF SessionType, TaskEnds, Goto
<1>4. /\ client' \in [Clients -> ClientType]
      /\ \A c \in Clients : c # session[s].client => client'[c] = client[c]
  <2>1. [client[session[s].client] EXCEPT !.finished = TRUE, !.running = FALSE] \in ClientType
    BY <1>0, <1>1, ClientRecords
  <2>2. [client[session[s].client] EXCEPT
       !.finished = FALSE, !.reusable = FALSE, !.allowed = FALSE] \in ClientType
    BY <1>0, <1>1, ClientRecords
  <2> QED
    BY <1>0, <1>1, <2>1, <2>2 DEF TaskEnds
<1>5. OthersStay(s)
  BY <1>0, <1>3, <1>4 DEF OthersStay, TaskEnds, Goto
<1>6. /\ session'[s].client = session[s].client
      /\ session'[s].pc \in HoldsClient <=> session'[s].client # None
      /\ session'[s].active \in {None, session[s].client}
      /\ session'[s].pc = "reconfigure" => session'[s].active = None
  BY <1>0, <1>1, PoolAssumption
  DEF Inv, HoldsInv, HoldsClient, AbortFindsOwnClient, SessionType, TaskEnds, Goto
<1>7. /\ client'[session[s].client].alive = client[session[s].client].alive
      /\ TaskOK(session'[s].pc, client'[session[s].client])
  <2>1. TaskOK("task", client[session[s].client])
    BY <1>1, PoolAssumption DEF Inv, TaskInv, TaskEnds
  <2>2. session'[s].pc = "judge"
    BY <1>0 DEF SessionType, TaskEnds, Goto
  <2>3. client[session[s].client] \in ClientType
    BY <1>0, <1>1
  <2>4. \/ client'[session[s].client] = client[session[s].client]
        \/ client'[session[s].client] =
             [client[session[s].client] EXCEPT !.finished = TRUE, !.running = FALSE]
        \/ client'[session[s].client] =
             [client[session[s].client] EXCEPT
                !.finished = FALSE, !.reusable = FALSE, !.allowed = FALSE]
    BY <1>0, <1>1 DEF TaskEnds
  <2>5. /\ client'[session[s].client].alive = client[session[s].client].alive
        /\ ~(client'[session[s].client].finished /\ client'[session[s].client].running)
    BY <2>1, <2>3, <2>4 DEF ClientType, TaskOK
  <2> QED
    BY <2>2, <2>5 DEF TaskOK
<1> QED
  BY <1>1, <1>5, <1>6, <1>7, KeepsClient DEF TaskEnds

LEMMA Judge_Inv ==
  ASSUME NEW s \in Sessions, Inv, Judge(s)
  PROVE  Inv'
<1>0. session \in [Sessions -> SessionType] /\ client \in [Clients -> ClientType]
      /\ saved \in Identities
  BY DEF Inv, TypeOK
<1>1. session[s].client \in Clients
  BY <1>0 DEF Inv, HoldsInv, HoldsClient, SessionType, Judge
<1>2. {"settle"} \subseteq Steps
  BY DEF Steps, HoldsClient
<1>3. session' \in [Sessions -> SessionType]
  <2>1. PICK b \in BOOLEAN :
          session' = [session EXCEPT ![s] = [@ EXCEPT !.pc = "settle", !.success = b]]
    <3> DEFINE b == ~Aborted(s) /\ client[session[s].client].finished
    <3>1. b \in BOOLEAN
      OBVIOUS
    <3> HIDE DEF b
    <3>2. session' = [session EXCEPT ![s] = [@ EXCEPT !.pc = "settle", !.success = b]]
      BY DEF Judge, b
    <3> QED
      BY <3>1, <3>2
  <2>2. \A x \in BOOLEAN :
          [session[s] EXCEPT !.pc = "settle", !.success = x] \in SessionType
    BY <1>0, <1>2 DEF SessionType
  <2> QED
    BY <1>0, <2>1, <2>2
<1>4. client' = client
  BY DEF Judge
<1>5. OthersStay(s)
  BY <1>0, <1>3, <1>4 DEF OthersStay, Judge, Aborted
<1>6. /\ session'[s].client = session[s].client
      /\ session'[s].pc \in HoldsClient <=> session'[s].client # None
      /\ session'[s].active \in {None, session[s].client}
      /\ session'[s].pc = "reconfigure" => session'[s].active = None
  BY <1>0, <1>1, PoolAssumption
  DEF Inv, HoldsInv, HoldsClient, AbortFindsOwnClient, SessionType, Judge, Aborted
<1>7. session[s].client # None =>
        /\ client'[session[s].client].alive = client[session[s].client].alive
        /\ TaskOK(session'[s].pc, client'[session[s].client])
  BY <1>0, <1>1
  DEF Inv, HoldsInv, HoldsClient, TaskInv, TaskOK, ClientType, SessionType, Judge, Aborted
<1> QED
  BY <1>1, <1>5, <1>6, <1>7, KeepsClient DEF Judge

LEMMA Settle_Inv ==
  ASSUME NEW s \in Sessions, Inv, Settle(s)
  PROVE  Inv'
<1>0. session \in [Sessions -> SessionType] /\ client \in [Clients -> ClientType]
      /\ saved \in Identities
  BY DEF Inv, TypeOK
<1>1. session[s].client \in Clients
  BY <1>0 DEF Inv, HoldsInv, HoldsClient, SessionType, Settle
<1>2. {"finish"} \subseteq Steps
  BY DEF Steps, HoldsClient
<1>3. session' \in [Sessions -> SessionType]
  BY <1>0, <1>2 DEF SessionType, Settle, Goto
<1>4. /\ client' \in [Clients -> ClientType]
      /\ \A c \in Clients : c # session[s].client => client'[c] = client[c]
  <2>1. AbortedClient(client[session[s].client]) \in ClientType
    BY <1>0, <1>1, ClientRecords
  <2> QED
    BY <1>0, <1>1, <2>1 DEF Settle
<1>5. OthersStay(s)
  BY <1>0, <1>3, <1>4 DEF OthersStay, Settle, Goto, Aborted
<1>6. /\ session'[s].client = session[s].client
      /\ session'[s].pc \in HoldsClient <=> session'[s].client # None
      /\ session'[s].active \in {None, session[s].client}
      /\ session'[s].pc = "reconfigure" => session'[s].active = None
  BY <1>0, <1>1, PoolAssumption
  DEF Inv, HoldsInv, HoldsClient, AbortFindsOwnClient, SessionType, Settle, Goto, Aborted
<1>7. session[s].client # None =>
        /\ client'[session[s].client].alive = client[session[s].client].alive
        /\ TaskOK(session'[s].pc, client'[session[s].client])
  BY <1>0, <1>1
  DEF Inv, HoldsInv, HoldsClient, TaskInv, TaskOK, ClientType, SessionType, Settle, Goto,
      Aborted, AbortedClient, AbortFindsOwnClient
<1> QED
  BY <1>1, <1>5, <1>6, <1>7, KeepsClient DEF Settle

LEMMA FinishClient_Inv ==
  ASSUME NEW s \in Sessions, Inv, FinishClient(s)
  PROVE  Inv'
<1>0. session \in [Sessions -> SessionType] /\ client \in [Clients -> ClientType]
      /\ saved \in Identities
  BY DEF Inv, TypeOK
<1>1. session[s].client \in Clients
  BY <1>0 DEF Inv, HoldsInv, HoldsClient, SessionType, FinishClient
<1>2. {"release", "close"} \subseteq Steps
  BY DEF Steps, HoldsClient
<1>3. session' \in [Sessions -> SessionType]
  <2>1. /\ [session[s] EXCEPT !.pc = "release", !.active = None] \in SessionType
        /\ [session[s] EXCEPT !.pc = "close"] \in SessionType
    BY <1>0, <1>2 DEF SessionType
  <2>2. CASE session' = [session EXCEPT ![s] = [@ EXCEPT !.pc = "release", !.active = None]]
    BY <1>0, <2>1, <2>2
  <2>3. CASE session' = [session EXCEPT ![s].pc = "close"]
    BY <1>0, <2>1, <2>3
  <2> QED
    BY <2>2, <2>3 DEF FinishClient
<1>4. client' = client
  BY DEF FinishClient
<1>5. OthersStay(s)
  BY <1>0, <1>3, <1>4 DEF OthersStay, FinishClient, Aborted
<1>6. /\ session'[s].client = session[s].client
      /\ session'[s].pc \in HoldsClient <=> session'[s].client # None
      /\ session'[s].active \in {None, session[s].client}
      /\ session'[s].pc = "reconfigure" => session'[s].active = None
  BY <1>0, <1>1, PoolAssumption
  DEF Inv, HoldsInv, HoldsClient, AbortFindsOwnClient, SessionType, FinishClient, Aborted
<1>7. session[s].client # None =>
        /\ client'[session[s].client].alive = client[session[s].client].alive
        /\ TaskOK(session'[s].pc, client'[session[s].client])
  BY <1>0, <1>1
  DEF Inv, HoldsInv, HoldsClient, TaskInv, TaskOK, ClientType, SessionType, FinishClient,
      Aborted
<1> QED
  BY <1>1, <1>5, <1>6, <1>7, KeepsClient DEF FinishClient

LEMMA Abort_Inv ==
  ASSUME NEW s \in Sessions, Inv, Abort(s)
  PROVE  Inv'
<1>0. session \in [Sessions -> SessionType] /\ client \in [Clients -> ClientType]
      /\ saved \in Identities
  BY DEF Inv, TypeOK
<1>3. session' \in [Sessions -> SessionType]
  BY <1>0 DEF SessionType, Abort
<1>4. client' = client
  BY DEF Abort
<1>5. OthersStay(s)
  BY <1>0, <1>3, <1>4 DEF OthersStay, Abort
<1>6. /\ session'[s].client = session[s].client
      /\ session'[s].pc \in HoldsClient <=> session'[s].client # None
      /\ session'[s].active \in {None, session[s].client}
      /\ session'[s].pc = "reconfigure" => session'[s].active = None
  BY <1>0, PoolAssumption
  DEF Inv, HoldsInv, HoldsClient, AbortFindsOwnClient, SessionType, Abort
<1>7. session[s].client # None =>
        /\ client'[session[s].client].alive = client[session[s].client].alive
        /\ TaskOK(session'[s].pc, client'[session[s].client])
  BY <1>0 DEF Inv, HoldsInv, HoldsClient, TaskInv, TaskOK, ClientType, SessionType, Abort
<1> QED
  BY <1>5, <1>6, <1>7, KeepsClient DEF Abort

LEMMA AbortActiveClient_Inv ==
  ASSUME NEW s \in Sessions, Inv, AbortActiveClient(s)
  PROVE  Inv'
<1>0. session \in [Sessions -> SessionType] /\ client \in [Clients -> ClientType]
      /\ saved \in Identities
  BY DEF Inv, TypeOK
<1>3. session' \in [Sessions -> SessionType]
  BY <1>0 DEF SessionType, AbortActiveClient
<1>4. /\ client' \in [Clients -> ClientType]
      /\ \A c \in Clients : c # session[s].client => client'[c] = client[c]
  <2>1. ASSUME session[s].active # None
        PROVE  session[s].active = session[s].client /\ session[s].client \in Clients
    BY <2>1, <1>0 DEF Inv, AbortFindsOwnClient, SessionType
  <2>2. ASSUME session[s].active # None
        PROVE  AbortedClient(client[session[s].active]) \in ClientType
    BY <1>0, <2>1, <2>2, ClientRecords
  <2> QED
    BY <1>0, <2>1, <2>2 DEF AbortActiveClient
<1>5. OthersStay(s)
  BY <1>0, <1>3, <1>4 DEF OthersStay, AbortActiveClient
<1>6. /\ session'[s].client = session[s].client
      /\ session'[s].pc \in HoldsClient <=> session'[s].client # None
      /\ session'[s].active \in {None, session[s].client}
      /\ session'[s].pc = "reconfigure" => session'[s].active = None
  BY <1>0, PoolAssumption
  DEF Inv, HoldsInv, HoldsClient, AbortFindsOwnClient, SessionType, AbortActiveClient
<1>7. session[s].client # None =>
        /\ client'[session[s].client].alive = client[session[s].client].alive
        /\ TaskOK(session'[s].pc, client'[session[s].client])
  BY <1>0
  DEF Inv, HoldsInv, HoldsClient, TaskInv, TaskOK, ClientType, SessionType,
      AbortActiveClient, AbortedClient, AbortFindsOwnClient
<1> QED
  BY <1>5, <1>6, <1>7, KeepsClient DEF AbortActiveClient

LEMMA ConnectFailed_Inv ==
  ASSUME NEW s \in Sessions, Inv, ConnectFailed(s)
  PROVE  Inv'
<1>0. session \in [Sessions -> SessionType] /\ client \in [Clients -> ClientType]
  BY DEF Inv, TypeOK
<1>1. session[s].client \in Clients
  BY <1>0 DEF Inv, HoldsInv, HoldsClient, SessionType, ConnectFailed
<1>2. {"off", "acquire"} \subseteq Steps \ HoldsClient
  BY DEF Steps, HoldsClient
<1>a. Quiet \in SessionType
  BY <1>2 DEF SessionType, Quiet
<1>3. /\ session' \in [Sessions -> SessionType]
      /\ session'[s].client = None /\ session'[s].active = None
      /\ session'[s].pc \notin HoldsClient
  <2> DEFINE r == [session[s] EXCEPT !.pc = "acquire", !.client = None, !.active = None]
  <2>1. r \in SessionType /\ r.pc = "acquire" /\ r.client = None /\ r.active = None
    BY <1>0, <1>2 DEF SessionType
  <2>2. CASE session' = [session EXCEPT ![s] = r]
    <3> HIDE DEF r
    <3> QED
      BY <1>0, <1>2, <2>1, <2>2
  <2>3. CASE Leave(s)
    BY <1>0, <1>2, <1>a, <2>3 DEF Leave, Quiet
  <2> QED
    BY <2>2, <2>3 DEF ConnectFailed
<1>4. /\ client' \in [Clients -> ClientType]
      /\ \A c \in Clients : c # session[s].client => client'[c] = client[c]
      /\ client'[session[s].client].alive = FALSE
  BY <1>0, <1>1, PoolAssumption DEF ClientType, Unused, Blank, ConnectFailed
<1>5. OthersStay(s)
  BY <1>0, <1>3, <1>4 DEF OthersStay, Leave, ConnectFailed
<1>7. UNCHANGED <<saved, epoch, idle, closing>>
  BY DEF ConnectFailed
<1> QED
  BY <1>1, <1>3, <1>4, <1>5, <1>7, LeavesClient

LEMMA CloseClient_Inv ==
  ASSUME NEW s \in Sessions, Inv, CloseClient(s)
  PROVE  Inv'
<1>0. session \in [Sessions -> SessionType] /\ client \in [Clients -> ClientType]
  BY DEF Inv, TypeOK
<1>1. session[s].client \in Clients
  BY <1>0 DEF Inv, HoldsInv, HoldsClient, SessionType, CloseClient
<1>2. {"off", "acquire"} \subseteq Steps \ HoldsClient
  BY DEF Steps, HoldsClient
<1>a. Quiet \in SessionType
  BY <1>2 DEF SessionType, Quiet
<1>3. session' \in [Sessions -> SessionType]
  BY <1>0, <1>2, <1>a DEF SessionType, Leave, CloseClient
<1>4. /\ client' \in [Clients -> ClientType]
      /\ \A c \in Clients : c # session[s].client => client'[c] = client[c]
      /\ client'[session[s].client].alive = FALSE
  BY <1>0, <1>1, PoolAssumption DEF ClientType, Unused, Blank, CloseClient
<1>5. OthersStay(s)
  BY <1>0, <1>3, <1>4 DEF OthersStay, Leave, CloseClient
<1>6. session'[s].client = None /\ session'[s].active = None /\ session'[s].pc \notin HoldsClient
  BY <1>0, <1>2 DEF SessionType, Leave, Quiet, CloseClient
<1>7. UNCHANGED <<saved, epoch, idle, closing>>
  BY DEF CloseClient
<1> QED
  BY <1>1, <1>4, <1>5, <1>6, <1>7, LeavesClient

\* A step that takes the idle client out of the pool to close it, if there is one;
\* a session that has a client stays as it is.
LEMMA DiscardsIdle ==
  ASSUME Inv, idle' = None, closing' = closing \cup ({idle} \ {None}),
         client' = client, saved' \in Identities, epoch' \in 0..MaxEpoch,
         session' \in [Sessions -> SessionType],
         \A s \in Sessions :
           /\ session'[s].client = session[s].client
           /\ session'[s].pc \in HoldsClient <=> session[s].client # None
           /\ session'[s].pc = "reconfigure" => session'[s].active = None
           /\ session'[s].active \in {None, session[s].client}
           /\ session[s].client # None => session'[s] = session[s]
  PROVE  Inv'
<1> USE PoolAssumption
<1>1. TypeOK'
  BY DEF Inv, TypeOK
<1>2. HoldsInv'
  BY DEF HoldsInv
<1>3. PlaceInv'
  BY DEF Inv, TypeOK, SessionType, PlaceInv, Held
<1>4. AbortFindsOwnClient'
  BY DEF AbortFindsOwnClient
<1>5. IdleIsCurrent'
  BY DEF IdleIsCurrent
<1>6. TaskInv'
  BY DEF Inv, TaskInv
<1> QED
  BY <1>1, <1>2, <1>3, <1>4, <1>5, <1>6 DEF Inv

LEMMA Acquire_Inv ==
  ASSUME NEW s \in Sessions, Inv, Acquire(s)
  PROVE  Inv'
<1>0. /\ session \in [Sessions -> SessionType] /\ client \in [Clients -> ClientType]
      /\ saved \in Identities /\ epoch \in 0..MaxEpoch /\ idle \in Clients \cup {None}
  BY DEF Inv, TypeOK
<1>1. session[s].client = None /\ session[s].active = None
  BY <1>0 DEF Inv, HoldsInv, HoldsClient, AbortFindsOwnClient, SessionType, Acquire
<1>2. {"off", "create", "reconfigure"} \subseteq Steps /\ {"off", "create"} \cap HoldsClient = {}
      /\ "reconfigure" \in HoldsClient
  BY DEF Steps, HoldsClient
<1>3. CASE Leave(s) /\ UNCHANGED <<idle, closing>>
  <2>1. Quiet \in SessionType
    BY <1>2 DEF SessionType, Quiet
  <2>2. OthersStay(s)
    BY <1>0, <1>3, <2>1 DEF OthersStay, Acquire, Leave
  <2>3. session'[s] = Quiet
    BY <1>0, <1>3 DEF Leave
  <2> QED
    BY <1>1, <1>2, <1>3, <2>2, <2>3, KeepsClient DEF Acquire, Quiet
<1>4. CASE idle' = None /\ idle = None /\ Goto(s, "create") /\ UNCHANGED closing
  <2>1. session' \in [Sessions -> SessionType]
    BY <1>0, <1>2, <1>4 DEF SessionType, Goto
  <2>2. OthersStay(s)
    BY <1>0, <1>4, <2>1 DEF OthersStay, Acquire, Goto
  <2>3. session'[s].pc = "create" /\ session'[s].client = None /\ session'[s].active = None
    BY <1>0, <1>1, <1>4 DEF SessionType, Goto
  <2> QED
    BY <1>1, <1>2, <1>4, <2>2, <2>3, KeepsClient DEF Acquire
<1>5. CASE /\ idle' = None /\ idle # None /\ closing' = closing \cup {idle}
           /\ Goto(s, "create")
  <2>1. session' \in [Sessions -> SessionType]
    BY <1>0, <1>2, <1>5 DEF SessionType, Goto
  <2>2. session'[s].pc = "create" /\ session'[s].client = None /\ session'[s].active = None
    BY <1>0, <1>1, <1>5 DEF SessionType, Goto
  <2>3. ASSUME NEW t \in Sessions
        PROVE  /\ session'[t].client = session[t].client
               /\ session'[t].pc \in HoldsClient <=> session[t].client # None
               /\ session'[t].pc = "reconfigure" => session'[t].active = None
               /\ session'[t].active \in {None, session[t].client}
               /\ session[t].client # None => session'[t] = session[t]
    <3>1. CASE t = s
      BY <1>1, <1>2, <2>2, <3>1
    <3>2. CASE t # s
      BY <1>0, <1>5, <3>2 DEF Inv, HoldsInv, AbortFindsOwnClient, Goto
    <3> QED
      BY <3>1, <3>2
  <2>4. /\ client' = client /\ saved' \in Identities /\ epoch' \in 0..MaxEpoch
        /\ closing' = closing \cup ({idle} \ {None})
    BY <1>0, <1>5 DEF Acquire
  <2> QED
    BY <1>5, <2>1, <2>3, <2>4, DiscardsIdle
<1>6. CASE /\ idle' = None /\ idle # None /\ closing' = closing
           /\ session' = [session EXCEPT ![s] = [@ EXCEPT !.pc = "reconfigure", !.client = idle]]
  <2>1. UNCHANGED <<saved, epoch, client>>
    BY DEF Acquire
  <2>2. session' \in [Sessions -> SessionType]
    <3>1. [session[s] EXCEPT !.pc = "reconfigure", !.client = idle] \in SessionType
      BY <1>0, <1>2, <1>6 DEF SessionType
    <3> QED
      BY <1>0, <1>6, <3>1
  <2>3. /\ session'[s].pc = "reconfigure" /\ session'[s].client = idle
        /\ session'[s].active = None
        /\ \A t \in Sessions \ {s} : session'[t] = session[t]
    BY <1>0, <1>1, <1>6 DEF SessionType
  <2>4. TypeOK'
    BY <1>6, <2>1, <2>2 DEF Inv, TypeOK
  <2>5. HoldsInv'
    BY <1>2, <1>6, <2>3 DEF Inv, HoldsInv
  <2>6. PlaceInv'
    <3>1. idle \in Clients /\ idle \notin closing
          /\ \A t \in Sessions : session[t].client # idle
      BY <1>0, <1>6 DEF Inv, PlaceInv
    <3>2. \A c \in Clients : Held(c)' <=> Held(c) \/ c = idle
      BY <1>0, <1>1, <1>6, <2>3, PoolAssumption DEF Held
    <3>3. \A t \in Sessions : session'[t].client # None => session'[t].client \notin closing
      BY <2>3, <3>1 DEF Inv, PlaceInv
    <3>4. ASSUME NEW t \in Sessions, NEW u \in Sessions,
                 session'[t].client = session'[u].client, session'[t].client # None
          PROVE  t = u
      BY <1>1, <2>3, <3>1, <3>4 DEF Inv, PlaceInv
    <3>5. None \notin closing
      BY PoolAssumption DEF Inv, TypeOK
    <3> QED
      BY <1>6, <2>1, <3>2, <3>3, <3>4, <3>5, PoolAssumption DEF Inv, PlaceInv
  <2>7. AbortFindsOwnClient'
    BY <2>3 DEF Inv, AbortFindsOwnClient
  <2>8. IdleIsCurrent'
    BY <1>6 DEF IdleIsCurrent
  <2>9. TaskInv'
    <3>1. TaskOK("reconfigure", client[idle])
      BY <1>6 DEF Inv, TaskInv, TaskOK
    <3> QED
      BY <1>6, <2>1, <2>3, <3>1 DEF Inv, TaskInv
  <2> QED
    BY <2>4, <2>5, <2>6, <2>7, <2>8, <2>9 DEF Inv
<1> QED
  BY <1>3, <1>4, <1>5, <1>6 DEF Acquire

LEMMA Reconfigure_Inv ==
  ASSUME NEW s \in Sessions, Inv, Reconfigure(s)
  PROVE  Inv'
<1> DEFINE c == session[s].client
<1>0. session \in [Sessions -> SessionType] /\ client \in [Clients -> ClientType]
  BY DEF Inv, TypeOK
<1>1. c \in Clients /\ session[s].pc = "reconfigure"
  BY <1>0 DEF Inv, HoldsInv, HoldsClient, SessionType, Reconfigure
<1>2. {"activate", "create"} \subseteq Steps /\ "create" \notin HoldsClient /\ "activate" \in HoldsClient
  BY DEF Steps, HoldsClient
<1>3. CASE MayServe(c, session[s].identity)
  <2>1. client' = [client EXCEPT ![c] = [@ EXCEPT !.cancelled = FALSE, !.connected = FALSE,
                                                  !.finished = TRUE, !.allowed = TRUE]]
        /\ Goto(s, "activate") /\ UNCHANGED <<saved, epoch, idle, closing>>
    BY <1>3 DEF Reconfigure
  <2>2. session' \in [Sessions -> SessionType]
    BY <1>0, <1>2, <2>1 DEF SessionType, Goto
  <2>3. [client[c] EXCEPT !.cancelled = FALSE, !.connected = FALSE,
                          !.finished = TRUE, !.allowed = TRUE] \in ClientType
    BY <1>0, <1>1, ClientRecords
  <2>4. OthersStay(s)
    BY <1>0, <1>1, <2>1, <2>2, <2>3 DEF OthersStay, Goto
  <2>5. /\ session'[s].client = session[s].client
        /\ session'[s].pc = "activate"
        /\ session'[s].active \in {None, session[s].client}
    BY <1>0, <2>1 DEF Inv, AbortFindsOwnClient, SessionType, Goto
  <2>6. TaskOK("reconfigure", client[c]) /\ client[c] \in ClientType
    BY <1>0, <1>1, PoolAssumption DEF Inv, TaskInv
  <2>7. /\ client'[c].alive = client[c].alive
        /\ client'[c].running = client[c].running
    BY <1>0, <1>1, <2>1, <2>6 DEF ClientType
  <2> QED
    BY <1>1, <1>2, <2>1, <2>4, <2>5, <2>6, <2>7, KeepsClient, PoolAssumption DEF TaskOK
<1>4. CASE ~MayServe(c, session[s].identity)
  <2> USE PoolAssumption
  <2>1. /\ closing' = closing \cup {c} /\ client' = client
        /\ session' = [session EXCEPT ![s] = [@ EXCEPT !.pc = "create", !.client = None]]
        /\ UNCHANGED <<saved, epoch, idle>>
    BY <1>4 DEF Reconfigure
  <2>2. session' \in [Sessions -> SessionType]
    <3>1. [session[s] EXCEPT !.pc = "create", !.client = None] \in SessionType
      BY <1>0, <1>2 DEF SessionType
    <3> QED
      BY <1>0, <2>1, <3>1
  <2>3. /\ session'[s].pc = "create" /\ session'[s].client = None
        /\ session'[s].active = None
        /\ \A t \in Sessions \ {s} : session'[t] = session[t]
    BY <1>0, <1>1, <2>1 DEF Inv, HoldsInv, SessionType
  <2>4. TypeOK'
    BY <1>1, <2>1, <2>2 DEF Inv, TypeOK
  <2>5. HoldsInv'
    BY <1>2, <2>3 DEF Inv, HoldsInv
  <2>6. PlaceInv'
    BY <1>0, <1>1, <2>1, <2>3 DEF Inv, PlaceInv, Held
  <2>7. AbortFindsOwnClient'
    BY <2>3 DEF Inv, AbortFindsOwnClient
  <2>8. IdleIsCurrent'
    BY <2>1 DEF Inv, IdleIsCurrent
  <2>9. TaskInv'
    BY <2>1, <2>3 DEF Inv, TaskInv
  <2> QED
    BY <2>4, <2>5, <2>6, <2>7, <2>8, <2>9 DEF Inv
<1> QED
  BY <1>3, <1>4

LEMMA Create_Inv ==
  ASSUME NEW s \in Sessions, Inv, Create(s)
  PROVE  Inv'
<1> USE PoolAssumption
<1>0. session \in [Sessions -> SessionType] /\ client \in [Clients -> ClientType]
  BY DEF Inv, TypeOK
<1>1. session[s].client = None /\ session[s].active = None
  BY <1>0 DEF Inv, HoldsInv, HoldsClient, AbortFindsOwnClient, SessionType, Create
<1>2. "activate" \in Steps /\ "activate" \in HoldsClient
  BY DEF Steps, HoldsClient
<1>3. PICK c \in Clients :
        /\ ~client[c].alive
        /\ client' = [client EXCEPT ![c] = Fresh(session[s].identity)]
        /\ session' = [session EXCEPT ![s] = [@ EXCEPT !.pc = "activate", !.client = c]]
  BY DEF Create
<1>4. UNCHANGED <<saved, epoch, idle, closing>>
  BY DEF Create
<1>5. Fresh(session[s].identity) \in ClientType
  BY <1>0 DEF Inv, TypeOK, SessionType, ClientType, Fresh, Blank
<1>6. /\ session' \in [Sessions -> SessionType] /\ client' \in [Clients -> ClientType]
      /\ \A d \in Clients \ {c} : client'[d] = client[d]
  <2>1. [session[s] EXCEPT !.pc = "activate", !.client = c] \in SessionType
    BY <1>0, <1>2 DEF SessionType
  <2> QED
    BY <1>0, <1>3, <1>5, <2>1
<1>7. /\ session'[s].pc = "activate" /\ session'[s].client = c /\ session'[s].active = None
      /\ \A t \in Sessions \ {s} : session'[t] = session[t]
  BY <1>0, <1>1, <1>3 DEF SessionType
<1>8. client'[c].alive = TRUE /\ client'[c].running = FALSE
  BY <1>0, <1>3 DEF Fresh, Blank
<1>9. /\ c # idle /\ c \notin closing
      /\ \A t \in Sessions : session[t].client # c
  BY <1>3 DEF Inv, PlaceInv, Held
<1>10. TypeOK'
  BY <1>4, <1>6 DEF Inv, TypeOK
<1>11. HoldsInv'
  BY <1>2, <1>7 DEF Inv, HoldsInv
<1>12. PlaceInv'
  BY <1>0, <1>1, <1>4, <1>6, <1>7, <1>8, <1>9 DEF Inv, PlaceInv, Held
<1>13. AbortFindsOwnClient'
  BY <1>7 DEF Inv, AbortFindsOwnClient
<1>14. idle # None => client'[idle] = client[idle]
  BY <1>6, <1>9 DEF Inv, TypeOK
<1>15. IdleIsCurrent'
  BY <1>4, <1>14 DEF Inv, IdleIsCurrent
<1>16. TaskInv'
  <2>1. ASSUME NEW t \in Sessions, session'[t].client # None
        PROVE  TaskOK(session'[t].pc, client'[session'[t].client])
    <3>1. CASE t = s
      BY <1>7, <1>8, <3>1 DEF TaskOK
    <3>2. CASE t # s
      <4>1. session'[t] = session[t] /\ client'[session[t].client] = client[session[t].client]
        BY <1>0, <1>6, <1>7, <1>9, <2>1, <3>2 DEF SessionType
      <4> QED
        BY <2>1, <4>1 DEF Inv, TaskInv
    <3> QED
      BY <3>1, <3>2
  <2> QED
    BY <2>1, <1>4, <1>14 DEF Inv, TaskInv
<1> QED
  BY <1>10, <1>11, <1>12, <1>13, <1>15, <1>16 DEF Inv

LEMMA Release_Inv ==
  ASSUME NEW s \in Sessions, Inv, Release(s)
  PROVE  Inv'
<1> DEFINE c == session[s].client
<1> USE PoolAssumption
<1>0. session \in [Sessions -> SessionType] /\ client \in [Clients -> ClientType]
  BY DEF Inv, TypeOK
<1>1. c \in Clients /\ session[s].pc = "release"
  BY <1>0 DEF Inv, HoldsInv, HoldsClient, SessionType, Release
<1>2. Quiet \in SessionType /\ Quiet.pc \notin HoldsClient
  BY DEF SessionType, Quiet, Steps, HoldsClient
<1>3. session' \in [Sessions -> SessionType] /\ session'[s] = Quiet
      /\ \A t \in Sessions \ {s} : session'[t] = session[t]
  BY <1>0, <1>2 DEF Release, Leave
<1>4. UNCHANGED <<saved, epoch>>
  BY DEF Release
<1>5. CASE ~MayIdle(c)
  <2>1. client' = [client EXCEPT ![c] = Unused] /\ UNCHANGED <<idle, closing>>
    BY <1>5 DEF Release
  <2>2. OthersStay(s) /\ client'[c].alive = FALSE
    BY <1>0, <1>1, <1>3, <2>1 DEF OthersStay, ClientType, Unused, Blank
  <2>3. session'[s].client = None /\ session'[s].active = None /\ session'[s].pc \notin HoldsClient
    BY <1>2, <1>3 DEF Quiet
  <2> QED
    BY <1>1, <1>4, <2>1, <2>2, <2>3, LeavesClient
<1>6. CASE MayIdle(c)
  <2>1. /\ idle' = c /\ closing' = closing \cup ({idle} \ {None})
        /\ client' = [client EXCEPT ![c] = [@ EXCEPT !.connected = FALSE, !.reusable = TRUE]]
    BY <1>6 DEF Release
  <2>2. session'[s].client = None /\ session'[s].active = None
    BY <1>3 DEF Quiet
  <2>3. /\ client' \in [Clients -> ClientType]
        /\ \A d \in Clients \ {c} : client'[d] = client[d]
    <3>1. [client[c] EXCEPT !.connected = FALSE, !.reusable = TRUE] \in ClientType
      BY <1>0, <1>1, ClientRecords
    <3> QED
      BY <1>0, <1>1, <2>1, <3>1
  <2>4. /\ client'[c].alive = client[c].alive /\ client'[c].epoch = client[c].epoch
        /\ client'[c].reusable = TRUE /\ client'[c].allowed = client[c].allowed
        /\ client'[c].cancelled = client[c].cancelled /\ client'[c].link = client[c].link
        /\ client'[c].running = client[c].running
    BY <1>0, <1>1, <2>1 DEF ClientType
  <2>5. TypeOK'
    BY <1>1, <1>3, <1>4, <2>1, <2>3 DEF Inv, TypeOK
  <2>6. HoldsInv'
    BY <1>2, <1>3 DEF Inv, HoldsInv, Quiet
  <2>7. PlaceInv'
    <3>1. c # idle /\ c \notin closing /\ client[c].alive
          /\ \A t \in Sessions \ {s} : session[t].client # c
      BY <1>1 DEF Inv, PlaceInv, Held
    <3>2. \A d \in Clients : Held(d)' <=> Held(d) /\ d # c
      BY <1>1, <1>3, <2>2, <3>1 DEF Held
    <3>3. \A d \in Clients : client'[d].alive = client[d].alive
      BY <2>3, <2>4
    <3>4. \A d \in Clients : client'[d].alive <=> Held(d)' \/ idle' = d \/ d \in closing'
      BY <1>1, <2>1, <3>1, <3>2, <3>3 DEF Inv, PlaceInv
    <3>5. ASSUME NEW t \in Sessions, session'[t].client # None
          PROVE  /\ t # s /\ session'[t] = session[t]
                 /\ session'[t].client # idle' /\ session'[t].client \notin closing'
      BY <1>3, <2>1, <2>2, <3>1, <3>5 DEF Inv, PlaceInv
    <3>6. idle' \notin closing'
      BY <2>1, <3>1
    <3> QED
      BY <3>4, <3>5, <3>6 DEF Inv, PlaceInv
  <2>8. AbortFindsOwnClient'
    BY <1>3, <2>2 DEF Inv, AbortFindsOwnClient
  <2>9. IdleIsCurrent'
    BY <1>4, <1>6, <2>1, <2>4 DEF IdleIsCurrent, MayIdle, IsConnected
  <2>10. TaskInv'
    <3>1. ~client'[c].running
      BY <1>1, <1>6, <2>4 DEF Inv, TaskInv, TaskOK, MayIdle
    <3>2. ASSUME NEW t \in Sessions, session'[t].client # None
          PROVE  TaskOK(session'[t].pc, client'[session'[t].client])
      <4>1. t # s /\ session'[t] = session[t]
        BY <1>3, <2>2, <3>2
      <4>2. client'[session[t].client] = client[session[t].client]
        BY <1>0, <1>1, <2>3, <3>2, <4>1 DEF Inv, PlaceInv, SessionType
      <4> QED
        BY <3>2, <4>1, <4>2 DEF Inv, TaskInv
    <3> QED
      BY <2>1, <3>1, <3>2 DEF TaskInv
  <2> QED
    BY <2>5, <2>6, <2>7, <2>8, <2>9, <2>10 DEF Inv
<1> QED
  BY <1>5, <1>6

LEMMA Worker_Inv ==
  ASSUME NEW s \in Sessions, Inv, Worker(s)
  PROVE  Inv'
BY Start_Inv, Acquire_Inv, Reconfigure_Inv, Create_Inv, SetActiveClient_Inv, Claim_Inv,
   Handshake_Inv, HandshakeEnds_Inv, RunTask_Inv, TaskStarted_Inv, ConnectFailed_Inv,
   TaskEnds_Inv, Judge_Inv, Settle_Inv, FinishClient_Inv, Release_Inv, CloseClient_Inv
DEF Worker

-----------------------------------------------------------------------------
\* The steps of the manager, the peer and the settings.

LEMMA CloseDiscarded_Inv ==
  ASSUME NEW c \in Clients, Inv, CloseDiscarded(c)
  PROVE  Inv'
<1> USE PoolAssumption
<1>0. session \in [Sessions -> SessionType] /\ client \in [Clients -> ClientType]
  BY DEF Inv, TypeOK
<1>1. /\ c \in closing /\ closing' = closing \ {c}
      /\ client' = [client EXCEPT ![c] = Unused]
      /\ UNCHANGED <<saved, epoch, idle, session>>
  BY DEF CloseDiscarded
<1>2. Unused \in ClientType /\ Unused.alive = FALSE
  BY DEF Unused, Blank, ClientType
<1>3. /\ client' \in [Clients -> ClientType] /\ client'[c].alive = FALSE
      /\ \A d \in Clients \ {c} : client'[d] = client[d]
  BY <1>0, <1>1, <1>2
<1>4. c # idle /\ \A s \in Sessions : session[s].client # c
  BY <1>1 DEF Inv, PlaceInv
<1>5. TypeOK'
  BY <1>1, <1>3 DEF Inv, TypeOK
<1>6. HoldsInv' /\ AbortFindsOwnClient'
  BY <1>1 DEF Inv, HoldsInv, AbortFindsOwnClient
<1>7. PlaceInv'
  BY <1>1, <1>3, <1>4 DEF Inv, PlaceInv, Held
<1>8. idle # None => client'[idle] = client[idle]
  BY <1>3, <1>4 DEF Inv, TypeOK
<1>9. \A s \in Sessions : session[s].client # None =>
        client'[session[s].client] = client[session[s].client]
  BY <1>0, <1>3, <1>4 DEF SessionType
<1>10. IdleIsCurrent' /\ TaskInv'
  BY <1>1, <1>8, <1>9 DEF Inv, IdleIsCurrent, TaskInv
<1> QED
  BY <1>5, <1>6, <1>7, <1>10 DEF Inv

LEMMA PeerHangsUp_Inv ==
  ASSUME NEW c \in Clients, Inv, PeerHangsUp(c)
  PROVE  Inv'
<1> USE PoolAssumption
<1>0. session \in [Sessions -> SessionType] /\ client \in [Clients -> ClientType]
  BY DEF Inv, TypeOK
<1>1. /\ client[c].link = "up"
      /\ client' = [client EXCEPT ![c] = [@ EXCEPT !.link = "dead", !.running = FALSE]]
      /\ UNCHANGED <<saved, epoch, idle, closing, session>>
  BY DEF PeerHangsUp
<1>2. [client[c] EXCEPT !.link = "dead", !.running = FALSE] \in ClientType
  BY <1>0, ClientRecords
<1>3. /\ client' \in [Clients -> ClientType]
      /\ \A d \in Clients \ {c} : client'[d] = client[d]
  BY <1>0, <1>1, <1>2
<1>4. /\ client'[c].alive = client[c].alive /\ client'[c].epoch = client[c].epoch
      /\ client'[c].reusable = client[c].reusable /\ client'[c].allowed = client[c].allowed
      /\ client'[c].cancelled = client[c].cancelled /\ client'[c].finished = client[c].finished
      /\ client'[c].link = "dead" /\ ~client'[c].running
  BY <1>0, <1>1 DEF ClientType
<1>5. TypeOK'
  BY <1>1, <1>3 DEF Inv, TypeOK
<1>6. HoldsInv' /\ AbortFindsOwnClient'
  BY <1>1 DEF Inv, HoldsInv, AbortFindsOwnClient
<1>7. PlaceInv'
  <2>1. \A d \in Clients : client'[d].alive = client[d].alive
    BY <1>3, <1>4
  <2> QED
    BY <1>1, <2>1 DEF Inv, PlaceInv, Held
<1>8. IdleIsCurrent'
  <2>1. CASE idle = c
    BY <1>1, <1>4, <2>1 DEF Inv, IdleIsCurrent
  <2>2. CASE idle # c
    BY <1>1, <1>3, <2>2 DEF Inv, TypeOK, IdleIsCurrent
  <2> QED
    BY <2>1, <2>2
<1>9. TaskInv'
  <2>1. \A pc : TaskOK(pc, client[c]) => TaskOK(pc, client'[c])
    BY <1>4 DEF TaskOK
  <2>2. ASSUME NEW s \in Sessions, session[s].client # None
        PROVE  TaskOK(session[s].pc, client'[session[s].client])
    <3>1. TaskOK(session[s].pc, client[session[s].client]) /\ session[s].client \in Clients
      BY <1>0, <2>2 DEF Inv, TaskInv, SessionType
    <3>2. CASE session[s].client = c
      BY <2>1, <3>1, <3>2
    <3>3. CASE session[s].client # c
      BY <1>3, <3>1, <3>3
    <3> QED
      BY <3>2, <3>3
  <2>3. idle # None => ~client'[idle].running
    BY <1>3, <1>4 DEF Inv, TypeOK, TaskInv
  <2> QED
    BY <1>1, <2>2, <2>3 DEF TaskInv
<1> QED
  BY <1>5, <1>6, <1>7, <1>8, <1>9 DEF Inv

LEMMA Invalidate_Inv ==
  ASSUME Inv, Invalidate
  PROVE  Inv'
<1>1. /\ idle' = None /\ closing' = closing \cup ({idle} \ {None})
      /\ client' = client /\ session' = session
      /\ saved' \in Identities /\ epoch' \in 0..MaxEpoch
  BY PoolAssumption DEF Inv, TypeOK, Invalidate
<1>2. \A s \in Sessions :
        /\ session[s].pc \in HoldsClient <=> session[s].client # None
        /\ session[s].pc = "reconfigure" => session[s].active = None
        /\ session[s].active \in {None, session[s].client}
  BY DEF Inv, HoldsInv, AbortFindsOwnClient
<1>3. session \in [Sessions -> SessionType]
  BY DEF Inv, TypeOK
<1> QED
  BY <1>1, <1>2, <1>3, DiscardsIdle

LEMMA Expire_Inv ==
  ASSUME Inv, Expire
  PROVE  Inv'
<1>1. /\ idle' = None /\ closing' = closing \cup ({idle} \ {None})
      /\ client' = client /\ session' = session
      /\ saved' \in Identities /\ epoch' \in 0..MaxEpoch
  BY DEF Inv, TypeOK, Expire
<1>2. \A s \in Sessions :
        /\ session[s].pc \in HoldsClient <=> session[s].client # None
        /\ session[s].pc = "reconfigure" => session[s].active = None
        /\ session[s].active \in {None, session[s].client}
  BY DEF Inv, HoldsInv, AbortFindsOwnClient
<1>3. session \in [Sessions -> SessionType]
  BY DEF Inv, TypeOK
<1> QED
  BY <1>1, <1>2, <1>3, DiscardsIdle

\* Inv holds in every reachable state.
LEMMA Always_Inv == Spec => []Inv
<1>1. Init => Inv
  <2> SUFFICES ASSUME Init PROVE Inv
    OBVIOUS
  <2> USE PoolAssumption
  <2>1. Unused \in ClientType /\ Unused.alive = FALSE
    BY DEF Unused, Blank, ClientType
  <2>2. Quiet \in SessionType /\ Quiet.pc \notin HoldsClient /\ Quiet.pc = "off"
        /\ Quiet.client = None /\ Quiet.active = None
    BY DEF Quiet, SessionType, Steps, HoldsClient
  <2>3. TypeOK
    BY <2>1, <2>2 DEF Init, TypeOK
  <2>4. HoldsInv /\ PlaceInv /\ AbortFindsOwnClient /\ IdleIsCurrent /\ TaskInv
    BY <2>1, <2>2
    DEF Init, HoldsInv, PlaceInv, Held, AbortFindsOwnClient, IdleIsCurrent, TaskInv
  <2> QED
    BY <2>3, <2>4 DEF Inv
<1>2. Inv /\ [Next]_vars => Inv'
  <2> SUFFICES ASSUME Inv, [Next]_vars PROVE Inv'
    OBVIOUS
  <2>1. CASE UNCHANGED vars
    BY <2>1 DEF vars, Inv, TypeOK, HoldsInv, PlaceInv, Held, AbortFindsOwnClient,
                IdleIsCurrent, TaskInv, IsConnected
  <2>2. CASE Next
    BY <2>2, Worker_Inv, Abort_Inv, AbortActiveClient_Inv, CloseDiscarded_Inv,
       PeerHangsUp_Inv, Invalidate_Inv, Expire_Inv
    DEF Next
  <2> QED
    BY <2>1, <2>2
<1> QED
  BY <1>1, <1>2, PTL DEF Spec

-----------------------------------------------------------------------------
\* No connection is used by two sessions, closed under the feet of its user or of
\* an abort, or forgotten with its socket open.
THEOREM ClientHasOneOwner == Spec => []OneOwner
<1>1. Inv => OneOwner
  <2> SUFFICES ASSUME Inv PROVE OneOwner
    OBVIOUS
  <2>1. AbortFindsOwnClient
    BY DEF Inv
  <2>2. ASSUME NEW c \in Clients
        PROVE  client[c].alive <=> Owners(c) # {}
    BY DEF Inv, PlaceInv, Held, Owners
  <2>3. ASSUME NEW c \in Clients, NEW x \in Owners(c), NEW y \in Owners(c)
        PROVE  x = y
    BY PoolAssumption, <2>3 DEF Inv, PlaceInv, Owners
  <2> QED
    BY <2>1, <2>2, <2>3 DEF OneOwner
<1> QED
  BY <1>1, Always_Inv, PTL

\* A client keeps its identity while it lives.
LEMMA IdentityStays ==
  ASSUME Inv, [Next]_vars, NEW c \in Clients, client[c].alive, client'[c].alive
  PROVE  client'[c].identity = client[c].identity
<1>0. session \in [Sessions -> SessionType] /\ client \in [Clients -> ClientType]
  BY DEF Inv, TypeOK
<1>1. client[c] \in ClientType
  BY <1>0
<1>2. Unused.alive = FALSE
  BY DEF Unused, Blank
<1>3. /\ AbortedClient(client[c]).identity = client[c].identity
      /\ [client[c] EXCEPT !.cancelled = FALSE, !.connected = FALSE,
                           !.finished = TRUE, !.allowed = TRUE].identity = client[c].identity
      /\ [client[c] EXCEPT !.connected = TRUE, !.running = TRUE].identity
           = client[c].identity
      /\ [client[c] EXCEPT !.finished = TRUE, !.running = FALSE].identity
           = client[c].identity
      /\ [client[c] EXCEPT !.finished = FALSE, !.reusable = FALSE,
                           !.allowed = FALSE].identity = client[c].identity
  BY <1>1 DEF AbortedClient, ClientType
<1>4. CASE UNCHANGED vars
  BY <1>4 DEF vars
<1>5. ASSUME NEW s \in Sessions, Worker(s)
      PROVE  client'[c].identity = client[c].identity
  <2>1. CASE Start(s) \/ Acquire(s) \/ SetActiveClient(s) \/ TaskStarted(s)
             \/ Judge(s) \/ FinishClient(s)
    BY <2>1 DEF Start, Acquire, SetActiveClient, TaskStarted, Judge, FinishClient
  <2>2. CASE Reconfigure(s)
    BY <1>0, <1>3, <2>2 DEF Reconfigure
  <2>3. CASE Create(s)
    BY <1>0, <1>1, <2>3 DEF Create
  <2>4. CASE Claim(s)
    BY <1>0, <1>1, <2>4 DEF Claim, ClientType
  <2>5. CASE Handshake(s)
    BY <1>0, <1>1, <2>5 DEF Handshake, ClientType
  <2>6. CASE HandshakeEnds(s)
    BY <1>0, <1>1, <2>6 DEF HandshakeEnds, ClientType
  <2>7. CASE RunTask(s)
    BY <1>0, <1>3, <2>7 DEF RunTask
  <2>8. CASE ConnectFailed(s)
    BY <1>0, <1>1, <1>2, <2>8 DEF ConnectFailed
  <2>9. CASE TaskEnds(s)
    BY <1>0, <1>3, <2>9 DEF TaskEnds
  <2>10. CASE Settle(s)
    BY <1>0, <1>1, <1>3, <2>10 DEF Settle
  <2>11. CASE Release(s)
    <3>1. [client[c] EXCEPT !.connected = FALSE, !.reusable = TRUE].identity
            = client[c].identity
      BY <1>1 DEF ClientType
    <3> QED
      BY <1>0, <1>1, <1>2, <2>11, <3>1 DEF Release
  <2>12. CASE CloseClient(s)
    BY <1>0, <1>1, <1>2, <2>12 DEF CloseClient
  <2> QED
    BY <1>5, <2>1, <2>2, <2>3, <2>4, <2>5, <2>6, <2>7, <2>8, <2>9, <2>10, <2>11, <2>12
    DEF Worker
<1>6. ASSUME NEW s \in Sessions, Abort(s) \/ AbortActiveClient(s)
      PROVE  client'[c].identity = client[c].identity
  BY <1>0, <1>1, <1>3, <1>6 DEF Abort, AbortActiveClient
<1>7. ASSUME NEW d \in Clients, CloseDiscarded(d) \/ PeerHangsUp(d)
      PROVE  client'[c].identity = client[c].identity
  <2>1. [client[c] EXCEPT !.link = "dead", !.running = FALSE].identity = client[c].identity
    BY <1>1 DEF ClientType
  <2> QED
    BY <1>0, <1>1, <1>2, <1>7, <2>1 DEF CloseDiscarded, PeerHangsUp
<1>8. CASE Invalidate \/ Expire
  BY <1>8 DEF Invalidate, Expire
<1> QED
  BY <1>4, <1>5, <1>6, <1>7, <1>8 DEF Next

\* A session keeps client and account, lets its client go, takes one of its account
\* from the pool, or makes one.
LEMMA SessionKeepsAccount ==
  ASSUME Inv, [Next]_vars, NEW t \in Sessions, session'[t].client # None
  PROVE  \/ /\ session'[t].client = session[t].client
            /\ session'[t].identity = session[t].identity
         \/ client'[session'[t].client].identity = session'[t].identity
<1> DEFINE Kept == /\ session'[t].client = session[t].client
                   /\ session'[t].identity = session[t].identity
           Own  == client'[session'[t].client].identity = session'[t].identity
<1>0. session \in [Sessions -> SessionType] /\ client \in [Clients -> ClientType]
      /\ idle \in Clients \cup {None}
  BY DEF Inv, TypeOK
<1>1. session[t] \in SessionType
  BY <1>0
<1>2. Quiet.client = None
  BY DEF Quiet
<1>3. CASE UNCHANGED vars
  BY <1>3 DEF vars
<1>4. ASSUME NEW s \in Sessions, Worker(s)
      PROVE  Kept \/ Own
  <2>1. CASE Start(s)
    <3>1. s = t => session[t].client = None
      BY <2>1 DEF Inv, HoldsInv, HoldsClient, Start
    <3>2. [session[s] EXCEPT !.pc = "acquire", !.identity = saved].client = session[s].client
      BY <1>0 DEF SessionType
    <3> QED
      BY <1>0, <2>1, <3>1, <3>2 DEF Start
  <2>2. CASE Acquire(s)
    <3>1. session'[t] = session[t] \/ session'[t] = Quiet
          \/ session'[t] = [session[t] EXCEPT !.pc = "create"]
          \/ /\ session'[t] = [session[t] EXCEPT !.pc = "reconfigure", !.client = idle]
             /\ client[idle].identity = session[t].identity
      BY <1>0, <2>2 DEF Acquire, Leave, Goto
    <3>2. client' = client
      BY <2>2 DEF Acquire
    <3> QED
      BY <1>1, <1>2, <3>1, <3>2 DEF SessionType
  <2>3. CASE Reconfigure(s)
    <3>1. session'[t] = session[t] \/ session'[t] = [session[t] EXCEPT !.pc = "activate"]
          \/ session'[t] = [session[t] EXCEPT !.pc = "create", !.client = None]
      BY <1>0, <2>3 DEF Reconfigure, Goto
    <3> QED
      BY <1>1, <3>1 DEF SessionType
  <2>4. CASE Create(s)
    <3>1. PICK c \in Clients :
            /\ client' = [client EXCEPT ![c] = Fresh(session[s].identity)]
            /\ session' = [session EXCEPT ![s] = [@ EXCEPT !.pc = "activate", !.client = c]]
      BY <2>4 DEF Create
    <3>2. CASE s = t
      <4>1. session'[t].client = c /\ session'[t].identity = session[t].identity
        BY <1>0, <1>1, <3>1, <3>2 DEF SessionType
      <4>2. client'[c].identity = session[t].identity
        BY <1>0, <3>1, <3>2 DEF Fresh, Blank
      <4> QED
        BY <4>1, <4>2
    <3>3. CASE s # t
      BY <1>0, <3>1, <3>3
    <3> QED
      BY <3>2, <3>3
  <2>5. CASE SetActiveClient(s) \/ Judge(s)
    <3>1. PICK active, success :
            \/ session' = [session EXCEPT ![s] = [@ EXCEPT !.pc = "connect", !.active = active]]
            \/ session' = [session EXCEPT ![s] =
                             [@ EXCEPT !.pc = "settle", !.success = success]]
      BY <2>5 DEF SetActiveClient, Judge
    <3>2. \/ session'[t] = session[t]
          \/ session'[t] = [session[t] EXCEPT !.pc = "connect", !.active = active]
          \/ session'[t] = [session[t] EXCEPT !.pc = "settle", !.success = success]
      BY <1>0, <3>1
    <3>3. Kept
      BY <1>1, <3>2 DEF SessionType
    <3> QED
      BY <3>3
  <2>6. CASE Claim(s) \/ Handshake(s) \/ HandshakeEnds(s) \/ RunTask(s) \/ TaskStarted(s)
             \/ TaskEnds(s) \/ Settle(s)
    <3>1. PICK pc : session' = [session EXCEPT ![s].pc = pc]
      BY <2>6
      DEF Claim, Handshake, HandshakeEnds, RunTask, TaskStarted, TaskEnds, Settle, Goto
    <3>2. session'[t] = session[t] \/ session'[t] = [session[t] EXCEPT !.pc = pc]
      BY <1>0, <3>1
    <3>3. Kept
      BY <1>1, <3>2 DEF SessionType
    <3> QED
      BY <3>3
  <2>7. CASE ConnectFailed(s)
    <3>1. session'[t] = session[t] \/ session'[t].client = None
      BY <1>0, <1>1, <1>2, <2>7 DEF ConnectFailed, Leave, SessionType
    <3> QED
      BY <3>1
  <2>8. CASE FinishClient(s)
    <3>1. \/ session' = [session EXCEPT ![s] = [@ EXCEPT !.pc = "release", !.active = None]]
          \/ session' = [session EXCEPT ![s].pc = "close"]
      BY <2>8 DEF FinishClient
    <3>2. \/ session'[t] = session[t]
          \/ session'[t] = [session[t] EXCEPT !.pc = "release", !.active = None]
          \/ session'[t] = [session[t] EXCEPT !.pc = "close"]
      BY <1>0, <3>1
    <3>3. Kept
      BY <1>1, <3>2 DEF SessionType
    <3> QED
      BY <3>3
  <2>9. CASE Release(s) \/ CloseClient(s)
    <3>1. session' = [session EXCEPT ![s] = Quiet]
      BY <2>9 DEF Release, CloseClient, Leave
    <3>2. session'[t] = session[t]
      BY <1>0, <1>2, <3>1
    <3> QED
      BY <3>2
  <2> QED
    BY <1>4, <2>1, <2>2, <2>3, <2>4, <2>5, <2>6, <2>7, <2>8, <2>9 DEF Worker
<1>5. ASSUME NEW s \in Sessions, Abort(s) \/ AbortActiveClient(s)
      PROVE  Kept
  BY <1>0, <1>1, <1>5 DEF Abort, AbortActiveClient, SessionType
<1>6. ASSUME NEW d \in Clients, CloseDiscarded(d) \/ PeerHangsUp(d)
      PROVE  Kept
  BY <1>6 DEF CloseDiscarded, PeerHangsUp
<1>7. CASE Invalidate \/ Expire
  BY <1>7 DEF Invalidate, Expire
<1> QED
  BY <1>3, <1>4, <1>5, <1>6, <1>7 DEF Next

\* The connection in the pool was made in the current epoch, that is after the last
\* Invalidate(), and has flags that let it be reused; and no session has one of
\* another account than its own.  The first part is one of Inv; the second rests on
\* Acquire, which takes none of another identity out of the pool.
THEOREM IdleStaysReusable == Spec => []IdleIsReusable
<1>1. Inv => IdleIsCurrent
  BY DEF Inv
<1>2. Init => AccountsMatch
  BY DEF Init, AccountsMatch, Quiet
<1>3. Inv /\ Inv' /\ AccountsMatch /\ [Next]_vars => AccountsMatch'
  <2> SUFFICES ASSUME Inv, Inv', AccountsMatch, [Next]_vars,
                      NEW t \in Sessions, session'[t].client # None
               PROVE  client'[session'[t].client].identity = session'[t].identity
    BY DEF AccountsMatch
  <2>1. CASE /\ session'[t].client = session[t].client
             /\ session'[t].identity = session[t].identity
    <3> DEFINE c == session[t].client
    <3>1. c \in Clients
      BY <2>1 DEF Inv, TypeOK, SessionType
    <3>2. client[c].alive /\ client'[c].alive
      BY <2>1, <3>1 DEF Inv, PlaceInv, Held
    <3>3. client'[c].identity = client[c].identity
      BY <3>1, <3>2, IdentityStays
    <3> QED
      BY <2>1, <3>3 DEF AccountsMatch
  <2> QED
    BY <2>1, SessionKeepsAccount
<1> QED
  BY <1>1, <1>2, <1>3, Always_Inv, PTL DEF Spec, IdleIsReusable

\* No task is begun on a connection on which another one runs.
THEOREM TasksNeverOverlap == Spec => []TasksDoNotOverlap
<1>1. Inv => TasksDoNotOverlap
  <2> SUFFICES ASSUME Inv, NEW s \in Sessions, session[s].pc = "runTask"
               PROVE  ~client[session[s].client].running
    BY DEF TasksDoNotOverlap
  <2>1. session[s].client # None
    BY DEF Inv, HoldsInv, HoldsClient
  <2> QED
    BY <2>1 DEF Inv, TaskInv, TaskOK
<1> QED
  BY <1>1, Always_Inv, PTL
=============================================================================
