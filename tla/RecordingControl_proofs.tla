---------------------- MODULE RecordingControl_proofs ----------------------
(***************************************************************************)
(* Theorems about RecordingControl, for both hotkeys and every bound of    *)
(* the queue, with their proofs.                                           *)
(***************************************************************************)
EXTENDS RecordingControl, SequenceTheorems, TLAPS

---------------------------------------------------------------------------
\* The order of the queue.

\* Every message of A is followed by one of B.
Followed(q, A, B) ==
  \A i \in 1..Len(q) : q[i] \in A => \E k \in 1..Len(q) : i < k /\ q[k] \in B

Begins == {"captureBegin"}
Starts == {"recordingStart"}
Presses == Begins \union Starts
CapsStops == {"capsLockRecordingStop"}
Ends == Stops \union {"captureDiscard"}
Errors == {"captureError", "staleError"}

LEMMA QueuedAppend ==
  ASSUME NEW q \in Seq(Commands), NEW m \in Commands, NEW A
  PROVE  Queued(Append(q, m), A) <=> (m \in A \/ Queued(q, A))
<1>1. /\ Len(Append(q, m)) = Len(q) + 1 /\ Len(q) \in Nat
      /\ Append(q, m)[Len(q) + 1] = m
      /\ \A i \in 1..Len(q) : Append(q, m)[i] = q[i]
  BY AppendProperties, LenProperties
<1> DEFINE p == Append(q, m)
<1> HIDE DEF p
<1> QED
  BY <1>1 DEF Queued, p

\* The last message is followed by none, and follows all others.
LEMMA FollowedAppend ==
  ASSUME NEW q \in Seq(Commands), NEW m \in Commands, NEW A, NEW B
  PROVE  Followed(Append(q, m), A, B) <=> (m \notin A /\ (m \in B \/ Followed(q, A, B)))
<1> DEFINE p == Append(q, m)
<1>1. /\ Len(p) = Len(q) + 1 /\ Len(q) \in Nat
      /\ p[Len(q) + 1] = m
      /\ \A i \in 1..Len(q) : p[i] = q[i]
  BY AppendProperties, LenProperties
<1> HIDE DEF p
<1>2. ASSUME Followed(p, A, B) PROVE m \notin A /\ (m \in B \/ Followed(q, A, B))
  BY <1>1, <1>2 DEF Followed
<1>3. ASSUME m \notin A, m \in B PROVE Followed(p, A, B)
  BY <1>1, <1>3 DEF Followed
<1>4. ASSUME m \notin A, Followed(q, A, B) PROVE Followed(p, A, B)
  BY <1>1, <1>4 DEF Followed
<1> QED
  BY <1>2, <1>3, <1>4 DEF p

LEMMA TailProperties ==
  ASSUME NEW q \in Seq(Commands), q # <<>>
  PROVE  /\ Tail(q) \in Seq(Commands)
         /\ Head(q) = q[1] /\ Head(q) \in Commands
         /\ Len(q) \in Nat /\ Len(q) > 0 /\ Len(Tail(q)) = Len(q) - 1
         /\ \A i \in 1..Len(Tail(q)) : Tail(q)[i] = q[i + 1]
  BY HeadTailProperties, LenProperties

LEMMA QueuedTail ==
  ASSUME NEW q \in Seq(Commands), q # <<>>, NEW A
  PROVE  Queued(q, A) <=> (Head(q) \in A \/ Queued(Tail(q), A))
<1> DEFINE p == Tail(q)
<1>1. /\ Head(q) = q[1]
      /\ Len(q) \in Nat /\ Len(q) > 0 /\ Len(p) = Len(q) - 1
      /\ \A i \in 1..Len(p) : p[i] = q[i + 1]
  BY TailProperties
<1> HIDE DEF p
<1>2. \A i \in 1..Len(q) : i = 1 \/ (i - 1 \in 1..Len(p) /\ q[i] = p[i - 1])
  BY <1>1
<1>3. \A i \in 1..Len(p) : i + 1 \in 1..Len(q) /\ q[i + 1] = p[i]
  BY <1>1
<1>4. 1 \in 1..Len(q)
  BY <1>1
<1> QED
  BY <1>1, <1>2, <1>3, <1>4 DEF Queued, p

\* What the head needs is in the rest.
LEMMA FollowedTail ==
  ASSUME NEW q \in Seq(Commands), q # <<>>, NEW A, NEW B, Followed(q, A, B)
  PROVE  /\ Followed(Tail(q), A, B)
         /\ Head(q) \in A => Queued(Tail(q), B)
<1> DEFINE p == Tail(q)
<1>1. /\ Head(q) = q[1]
      /\ Len(q) \in Nat /\ Len(q) > 0 /\ Len(p) = Len(q) - 1
      /\ \A i \in 1..Len(p) : p[i] = q[i + 1]
  BY TailProperties
<1> HIDE DEF p
<1>2. \A i \in 1..Len(q) : i = 1 \/ (i - 1 \in 1..Len(p) /\ q[i] = p[i - 1])
  BY <1>1
<1>3. ASSUME Head(q) \in A PROVE Queued(p, B)
  <2>1. PICK k \in 1..Len(q) : 1 < k /\ q[k] \in B
    BY <1>1, <1>3 DEF Followed
  <2> QED
    BY <1>2, <2>1 DEF Queued
<1>4. ASSUME NEW i \in 1..Len(p), p[i] \in A
      PROVE  \E k \in 1..Len(p) : i < k /\ p[k] \in B
  <2>1. i + 1 \in 1..Len(q) /\ q[i + 1] \in A
    BY <1>1, <1>4
  <2>2. PICK k \in 1..Len(q) : i + 1 < k /\ q[k] \in B
    BY <2>1 DEF Followed
  <2>3. k - 1 \in 1..Len(p) /\ i < k - 1
    BY <1>1, <2>2
  <2>4. p[k - 1] \in B
    BY <1>2, <2>2
  <2> QED
    BY <2>3, <2>4
<1> QED
  BY <1>3, <1>4 DEF Followed, p

LEMMA EmptyQueue ==
  ASSUME NEW A, NEW B
  PROVE  /\ ~Queued(<<>>, A)
         /\ Followed(<<>>, A, B)
  BY DEF Queued, Followed

LEMMA FollowedSubset ==
  ASSUME NEW q, NEW A, NEW B, NEW C, A \subseteq C, Followed(q, C, B)
  PROVE  Followed(q, A, B)
  BY DEF Followed

LEMMA QueuedFollowed ==
  ASSUME NEW q, NEW A, NEW B, Queued(q, A), Followed(q, A, B)
  PROVE  Queued(q, B)
  BY DEF Followed, Queued

\* Failures of a closed device change no other message of the queue.
LEMMA ExpiredProperties ==
  ASSUME NEW q \in Seq(Commands)
  PROVE  /\ Expired(q) \in Seq(Commands)
         /\ Len(Expired(q)) = Len(q)
         /\ \A i \in 1..Len(q) :
              Expired(q)[i] = q[i] \/ (Expired(q)[i] \in Errors /\ q[i] \in Errors)
<1>1. DOMAIN q = 1..Len(q) /\ Len(q) \in Nat /\ \A i \in 1..Len(q) : q[i] \in Commands
  BY LenProperties, ElementOfSeq
<1>2. Expired(q) = [i \in 1..Len(q) |->
                      IF q[i] = "captureError" THEN "staleError" ELSE q[i]]
  BY <1>1 DEF Expired
<1>3. \A i \in 1..Len(q) :
        (IF q[i] = "captureError" THEN "staleError" ELSE q[i]) \in Commands
  BY <1>1 DEF Commands
<1>4. Expired(q) \in Seq(Commands) /\ Len(Expired(q)) = Len(q)
  BY <1>1, <1>2, <1>3, IsASeq
<1> QED
  BY <1>2, <1>4 DEF Errors

\* What a handler leaves of the queue: the rest, in which failures may have
\* become stale.
Left(q) == {q, Expired(q)}

LEMMA QueuedLeft ==
  ASSUME NEW q \in Seq(Commands), NEW p \in Left(q), NEW A, A \intersect Errors = {}
  PROVE  Queued(p, A) <=> Queued(q, A)
<1>1. Len(p) = Len(q) /\ \A i \in 1..Len(q) : p[i] \in A <=> q[i] \in A
  BY ExpiredProperties DEF Left
<1> QED
  BY <1>1 DEF Queued

LEMMA FollowedLeft ==
  ASSUME NEW q \in Seq(Commands), NEW p \in Left(q), NEW A, NEW B,
         A \intersect Errors = {}, B \intersect Errors = {}
  PROVE  Followed(p, A, B) <=> Followed(q, A, B)
<1>1. /\ Len(p) = Len(q)
      /\ \A i \in 1..Len(q) : p[i] \in A <=> q[i] \in A
      /\ \A i \in 1..Len(q) : p[i] \in B <=> q[i] \in B
  BY ExpiredProperties DEF Left
<1> QED
  BY <1>1 DEF Followed

\* The sets of messages the invariant speaks of hold no failure.
LEMMA NoErrors ==
  /\ Begins \intersect Errors = {} /\ Starts \intersect Errors = {}
  /\ Presses \intersect Errors = {} /\ CapsStops \intersect Errors = {}
  /\ Stops \intersect Errors = {} /\ Ends \intersect Errors = {}
  /\ Decisions \intersect Errors = {}
  /\ (Ends \union Starts) \intersect Errors = {}
  BY DEF Begins, Starts, Presses, CapsStops, Stops, Ends, Decisions, Errors

---------------------------------------------------------------------------
\* The invariant.

\* A press of Caps Lock is pending or long; while it is, Caps Lock is what it
\* was at its beginning.
KeyInv ==
  /\ capsPending \/ longPress => activeKey /\ hotkey = "capsLock"
  /\ activeKey /\ hotkey = "capsLock" => capsPending \/ longPress
  /\ ~(capsPending /\ longPress)
  /\ activeKey => hooked
  /\ capsPending \/ longPress => caps = wasOn
  /\ capsPending => Len(queue) <= MaxQueue

\* What a message in the queue will need is behind it, or still to be posted
\* by the press that is open.
QueueInv(q) ==
  /\ capsPending \/ Followed(q, Begins, Decisions)
  /\ cut \/ (activeKey /\ ~capsPending) \/ Followed(q, Starts, Stops)
  /\ activeKey => Followed(q, Ends, Presses)
  /\ capsPending => Followed(q, Ends \union Starts, Begins)
  /\ caps = wasOn \/ Followed(q, CapsStops, Begins)

\* A device that is older than the settings is marked, and in use.
MicInv ==
  /\ MicrophoneIsOwned
  /\ outdated => stale
  /\ stale => recording \/ pendingOnly
  /\ ~(recording /\ pendingOnly)

\* A press that would be cut by the stop that is due is in the queue, and so
\* is one that Caps Lock would be restored in.
StopInv ==
  /\ PendingIsDecided
  /\ StopIsOnItsWay
  /\ restoreCaps => stopDelay
  /\ recording /\ stopDelay /\ activeKey => Queued(queue, Presses)
  /\ recording /\ restoreCaps => caps = wasOn \/ Queued(queue, Begins)

Inv == KeyInv /\ QueueInv(queue) /\ MicInv /\ StopInv

IInv ==
  /\ TypeOK
  /\ alive => Inv
  /\ ~alive => ~pendingOnly

---------------------------------------------------------------------------
\* How the queue moves.

\* Two queues of which the invariant says the same.
SameOrder(p, q) ==
  /\ Queued(p, Decisions) <=> Queued(q, Decisions)
  /\ Queued(p, Stops) <=> Queued(q, Stops)
  /\ Queued(p, Presses) <=> Queued(q, Presses)
  /\ Queued(p, Begins) <=> Queued(q, Begins)
  /\ Followed(p, Begins, Decisions) <=> Followed(q, Begins, Decisions)
  /\ Followed(p, Starts, Stops) <=> Followed(q, Starts, Stops)
  /\ Followed(p, Ends, Presses) <=> Followed(q, Ends, Presses)
  /\ Followed(p, Ends \union Starts, Begins) <=> Followed(q, Ends \union Starts, Begins)
  /\ Followed(p, CapsStops, Begins) <=> Followed(q, CapsStops, Begins)

LEMMA LeftOrder ==
  ASSUME NEW q \in Seq(Commands), NEW p \in Left(q)
  PROVE  SameOrder(p, q)
  BY NoErrors, QueuedLeft, FollowedLeft DEF SameOrder

LEMMA LeftType ==
  ASSUME NEW q \in Seq(Commands), NEW p \in Left(q)
  PROVE  p \in Seq(Commands) /\ Len(p) = Len(q) /\ Len(q) \in Nat
  BY ExpiredProperties, LenProperties DEF Left

LEMMA AppendType ==
  ASSUME NEW q \in Seq(Commands), NEW m \in Commands
  PROVE  /\ Append(q, m) \in Seq(Commands)
         /\ Len(q) \in Nat /\ Len(Append(q, m)) = Len(q) + 1
  BY AppendProperties, LenProperties

\* A message that is neither a press nor the end of one changes nothing,
LEMMA PostOther ==
  ASSUME NEW q \in Seq(Commands), NEW m \in {"reload", "captureError"}
  PROVE  SameOrder(Append(q, m), q)
<1>1. m \in Commands
  BY DEF Commands
<1>2. /\ m \notin Begins /\ m \notin Starts /\ m \notin Presses /\ m \notin CapsStops
      /\ m \notin Stops /\ m \notin Ends /\ m \notin Decisions
      /\ m \notin Ends \union Starts
  BY DEF Begins, Starts, Presses, CapsStops, Stops, Ends, Decisions
<1> QED
  BY <1>1, <1>2, QueuedAppend, FollowedAppend DEF SameOrder

\* the beginning of a press follows all that came before,
LEMMA PostBegin ==
  ASSUME NEW q \in Seq(Commands), NEW p, p = Append(q, "captureBegin")
  PROVE  /\ Queued(p, Decisions) <=> Queued(q, Decisions)
         /\ Queued(p, Stops) <=> Queued(q, Stops)
         /\ Queued(p, Presses) /\ Queued(p, Begins)
         /\ Followed(p, Starts, Stops) <=> Followed(q, Starts, Stops)
         /\ Followed(p, Ends, Presses)
         /\ Followed(p, Ends \union Starts, Begins)
         /\ Followed(p, CapsStops, Begins)
<1> DEFINE m == "captureBegin"
<1>1. m \in Commands
  BY DEF Commands
<1>2. /\ m \in Begins /\ m \notin Starts /\ m \in Presses /\ m \notin CapsStops
      /\ m \notin Stops /\ m \notin Ends /\ m \notin Decisions
      /\ m \notin Ends \union Starts
  BY DEF Begins, Starts, Presses, CapsStops, Stops, Ends, Decisions
<1> HIDE DEF m
<1> QED
  BY <1>1, <1>2, QueuedAppend, FollowedAppend DEF m

\* and so does a start, which is a decision as well;
LEMMA PostStart ==
  ASSUME NEW q \in Seq(Commands), NEW p, p = Append(q, "recordingStart")
  PROVE  /\ Queued(p, Decisions) /\ Queued(p, Presses)
         /\ Queued(p, Stops) <=> Queued(q, Stops)
         /\ Queued(p, Begins) <=> Queued(q, Begins)
         /\ Followed(p, Begins, Decisions)
         /\ Followed(p, Ends, Presses)
         /\ Followed(p, CapsStops, Begins) <=> Followed(q, CapsStops, Begins)
<1> DEFINE m == "recordingStart"
<1>1. m \in Commands
  BY DEF Commands
<1>2. /\ m \notin Begins /\ m \in Presses /\ m \notin CapsStops
      /\ m \notin Stops /\ m \notin Ends /\ m \in Decisions
  BY DEF Begins, Starts, Presses, CapsStops, Stops, Ends, Decisions
<1> HIDE DEF m
<1> QED
  BY <1>1, <1>2, QueuedAppend, FollowedAppend DEF m

\* a discard is the other decision;
LEMMA PostDiscard ==
  ASSUME NEW q \in Seq(Commands), NEW p, p = Append(q, "captureDiscard")
  PROVE  /\ Queued(p, Decisions)
         /\ Queued(p, Stops) <=> Queued(q, Stops)
         /\ Queued(p, Begins) <=> Queued(q, Begins)
         /\ Followed(p, Begins, Decisions)
         /\ Followed(p, Starts, Stops) <=> Followed(q, Starts, Stops)
         /\ Followed(p, CapsStops, Begins) <=> Followed(q, CapsStops, Begins)
<1> DEFINE m == "captureDiscard"
<1>1. m \in Commands
  BY DEF Commands
<1>2. /\ m \notin Begins /\ m \notin Starts /\ m \notin CapsStops
      /\ m \notin Stops /\ m \in Decisions
  BY DEF Begins, Starts, Presses, CapsStops, Stops, Ends, Decisions
<1> HIDE DEF m
<1> QED
  BY <1>1, <1>2, QueuedAppend, FollowedAppend DEF m

\* and a stop follows every start.
LEMMA PostStop ==
  ASSUME NEW q \in Seq(Commands), NEW m \in Stops, NEW p, p = Append(q, m)
  PROVE  /\ Queued(p, Decisions) <=> Queued(q, Decisions)
         /\ Queued(p, Stops)
         /\ Queued(p, Begins) <=> Queued(q, Begins)
         /\ Followed(p, Begins, Decisions) <=> Followed(q, Begins, Decisions)
         /\ Followed(p, Starts, Stops)
         /\ m = "recordingStop" =>
              (Followed(p, CapsStops, Begins) <=> Followed(q, CapsStops, Begins))
<1>1. m \in Commands
  BY DEF Stops, Commands
<1>2. /\ m \notin Begins /\ m \notin Starts /\ m \notin Decisions
      /\ m = "recordingStop" => m \notin CapsStops
  BY DEF Begins, Starts, CapsStops, Stops, Decisions
<1> QED
  BY <1>1, <1>2, QueuedAppend, FollowedAppend

\* What the rest of the queue keeps when its head is taken.
LEMMA TailOrder ==
  ASSUME NEW q \in Seq(Commands), q # <<>>, QueueInv(q)
  PROVE  QueueInv(Tail(q))
  BY FollowedTail DEF QueueInv

---------------------------------------------------------------------------
\* The keys.

LEMMA PressSafe ==
  ASSUME TypeOK, Inv, StartCapsLockHotkeyPress
  PROVE  TypeOK' /\ Inv' /\ alive'
<1> USE DEF StartCapsLockHotkeyPress, MayPost
<1>1. queue \in Seq(Commands) /\ "captureBegin" \in Commands /\ MaxQueue \in Nat
  BY QueueAssumption DEF TypeOK, Commands
<1>2. queue' \in Seq(Commands) /\ Len(queue') <= MaxQueue
  BY <1>1, AppendType
<1>3. TypeOK'
  <2>1. HookTypes'
    BY DEF TypeOK, HookTypes
  <2>2. RecordingTypes'
    BY DEF TypeOK, RecordingTypes, stopVars
  <2>3. DeviceTypes'
    BY DEF TypeOK, DeviceTypes, micVars
  <2> QED
    BY <1>1, <1>2, <2>1, <2>2, <2>3 DEF TypeOK
<1>4. KeyInv'
  BY <1>2 DEF Inv, KeyInv
<1>5. QueueInv(queue)'
  BY <1>1, PostBegin DEF Inv, KeyInv, QueueInv
<1>6. MicInv'
  BY DEF Inv, MicInv, MicrophoneIsOwned, micVars
<1>7. StopInv'
  BY <1>1, PostBegin DEF Inv, KeyInv, StopInv, PendingIsDecided, StopIsOnItsWay,
     stopVars
<1> QED
  BY <1>3, <1>4, <1>5, <1>6, <1>7 DEF Inv

LEMMA PressOtherSafe ==
  ASSUME TypeOK, Inv, PressOtherKey
  PROVE  TypeOK' /\ Inv' /\ alive'
<1> USE DEF PressOtherKey, MayPost
<1>1. queue \in Seq(Commands) /\ "recordingStart" \in Commands /\ MaxQueue \in Nat
  BY QueueAssumption DEF TypeOK, Commands
<1>2. queue' \in Seq(Commands) /\ Len(queue') <= MaxQueue
  BY <1>1, AppendType
<1>3. TypeOK'
  <2>1. HookTypes'
    BY DEF TypeOK, HookTypes
  <2>2. RecordingTypes'
    BY DEF TypeOK, RecordingTypes, stopVars
  <2>3. DeviceTypes'
    BY DEF TypeOK, DeviceTypes, micVars
  <2> QED
    BY <1>1, <1>2, <2>1, <2>2, <2>3 DEF TypeOK
<1>4. KeyInv'
  BY <1>2 DEF Inv, KeyInv
<1>5. QueueInv(queue)'
  BY <1>1, PostStart DEF Inv, KeyInv, QueueInv
<1>6. MicInv'
  BY DEF Inv, MicInv, MicrophoneIsOwned, micVars
<1>7. StopInv'
  BY <1>1, PostStart DEF Inv, KeyInv, StopInv, PendingIsDecided, StopIsOnItsWay,
     stopVars
<1> QED
  BY <1>3, <1>4, <1>5, <1>6, <1>7 DEF Inv

LEMMA LongPressSafe ==
  ASSUME TypeOK, Inv, ActivateCapsLockLongPress
  PROVE  TypeOK' /\ Inv' /\ alive'
<1> USE DEF ActivateCapsLockLongPress
<1>1. queue \in Seq(Commands) /\ "recordingStart" \in Commands /\ MaxQueue \in Nat
  BY QueueAssumption DEF TypeOK, Commands
<1>2. queue' = Append(queue, "recordingStart")
  BY EmptySeq
<1>3. queue' \in Seq(Commands) /\ Len(queue') <= MaxQueue + 1
  BY <1>1, <1>2, AppendType
<1>4. TypeOK'
  <2>1. HookTypes'
    BY DEF TypeOK, HookTypes
  <2>2. RecordingTypes'
    BY DEF TypeOK, RecordingTypes, stopVars
  <2>3. DeviceTypes'
    BY DEF TypeOK, DeviceTypes, micVars
  <2> QED
    BY <1>1, <1>3, <2>1, <2>2, <2>3 DEF TypeOK
<1>5. KeyInv'
  BY DEF Inv, KeyInv
<1>6. QueueInv(queue)'
  BY <1>1, <1>2, PostStart, EmptyQueue DEF Inv, KeyInv, QueueInv
<1>7. MicInv'
  BY DEF Inv, MicInv, MicrophoneIsOwned, micVars
<1>8. StopInv'
  BY <1>1, <1>2, PostStart DEF Inv, KeyInv, StopInv, PendingIsDecided,
     StopIsOnItsWay, stopVars
<1> QED
  BY <1>4, <1>5, <1>6, <1>7, <1>8 DEF Inv

\* The toggle of a tap: a recording that Caps Lock would be restored in has
\* this very press behind its stop.
LEMMA TapSafe ==
  ASSUME TypeOK, Inv, FinishCapsLockTap
  PROVE  TypeOK' /\ Inv' /\ alive'
<1> USE DEF FinishCapsLockTap, MayPost
<1> DEFINE q == Append(queue, "captureDiscard")
<1>1. queue \in Seq(Commands) /\ "captureDiscard" \in Commands /\ MaxQueue \in Nat
  BY QueueAssumption DEF TypeOK, Commands
<1>2. q \in Seq(Commands) /\ Len(q) = Len(queue) + 1 /\ Len(queue) \in Nat
  BY <1>1, AppendType
<1>3. queue' = Append(q, "captureDiscard")
  BY <1>1, AppendIsConcat DEF ResetCapsLockHotkeyState, TapCommands
<1>4. queue' \in Seq(Commands) /\ Len(queue') <= MaxQueue + 1
  BY <1>1, <1>2, <1>3, AppendType
<1>5. ~activeKey' /\ ~capsPending' /\ ~longPress'
  BY DEF ResetCapsLockHotkeyState
<1>6. TypeOK'
  <2>1. HookTypes'
    BY DEF TypeOK, HookTypes, ResetCapsLockHotkeyState
  <2>2. RecordingTypes'
    BY DEF TypeOK, RecordingTypes, stopVars
  <2>3. DeviceTypes'
    BY DEF TypeOK, DeviceTypes, micVars
  <2> QED
    BY <1>1, <1>4, <2>1, <2>2, <2>3 DEF TypeOK
<1>7. KeyInv'
  BY <1>5 DEF KeyInv
<1>8. Followed(queue, Starts, Begins) /\ Followed(queue, CapsStops, Begins)
  <2>1. Starts \subseteq Ends \union Starts /\ CapsStops \subseteq Ends \union Starts
    BY DEF Ends, Stops, CapsStops
  <2> QED
    BY <2>1, FollowedSubset DEF Inv, QueueInv
<1>9. /\ Queued(queue', Decisions)
      /\ Queued(queue', Stops) <=> Queued(queue, Stops)
      /\ Queued(queue', Begins) <=> Queued(queue, Begins)
      /\ Followed(queue', Begins, Decisions)
      /\ Followed(queue', Starts, Stops) <=> Followed(queue, Starts, Stops)
      /\ Followed(queue', CapsStops, Begins) <=> Followed(queue, CapsStops, Begins)
  <2> HIDE DEF q
  <2>1. /\ Queued(queue', Decisions)
        /\ Queued(queue', Stops) <=> Queued(q, Stops)
        /\ Queued(queue', Begins) <=> Queued(q, Begins)
        /\ Followed(queue', Begins, Decisions)
        /\ Followed(queue', Starts, Stops) <=> Followed(q, Starts, Stops)
        /\ Followed(queue', CapsStops, Begins) <=> Followed(q, CapsStops, Begins)
    BY <1>2, <1>3, PostDiscard
  <2>2. /\ Queued(q, Stops) <=> Queued(queue, Stops)
        /\ Queued(q, Begins) <=> Queued(queue, Begins)
        /\ Followed(q, Starts, Stops) <=> Followed(queue, Starts, Stops)
        /\ Followed(q, CapsStops, Begins) <=> Followed(queue, CapsStops, Begins)
    BY <1>1, PostDiscard DEF q
  <2> QED
    BY <2>1, <2>2
<1>10. QueueInv(queue)'
  BY <1>5, <1>8, <1>9 DEF Inv, QueueInv
<1>11. MicInv'
  BY DEF Inv, MicInv, MicrophoneIsOwned, micVars
<1>12. recording /\ restoreCaps => Queued(queue, Begins)
  <2>1. ASSUME recording, restoreCaps PROVE Queued(queue, Presses)
    BY <2>1 DEF Inv, StopInv
  <2>2. Queued(queue, Presses) => Queued(queue, Begins) \/ Queued(queue, Starts)
    BY DEF Queued, Presses
  <2> QED
    BY <1>8, <2>1, <2>2, QueuedFollowed
<1>13. StopInv'
  BY <1>5, <1>9, <1>12 DEF Inv, KeyInv, StopInv, PendingIsDecided, StopIsOnItsWay,
     stopVars
<1> QED
  BY <1>6, <1>7, <1>10, <1>11, <1>13 DEF Inv

LEMMA LongPressEndSafe ==
  ASSUME TypeOK, Inv, FinishCapsLockLongPress
  PROVE  TypeOK' /\ Inv' /\ alive'
<1> USE DEF FinishCapsLockLongPress, MayPost
<1>1. /\ queue \in Seq(Commands) /\ MaxQueue \in Nat
      /\ "capsLockRecordingStop" \in Commands /\ "capsLockRecordingStop" \in Stops
  BY QueueAssumption DEF TypeOK, Commands, Stops
<1>2. /\ queue' = Append(queue, "capsLockRecordingStop")
      /\ ~activeKey' /\ ~capsPending' /\ ~longPress'
  BY DEF ResetCapsLockHotkeyState, Inv, KeyInv
<1>3. queue' \in Seq(Commands) /\ Len(queue') <= MaxQueue
  BY <1>1, <1>2, AppendType
<1>4. TypeOK'
  <2>1. HookTypes'
    BY DEF TypeOK, HookTypes, ResetCapsLockHotkeyState
  <2>2. RecordingTypes'
    BY DEF TypeOK, RecordingTypes, stopVars
  <2>3. DeviceTypes'
    BY DEF TypeOK, DeviceTypes, micVars
  <2> QED
    BY <1>1, <1>2, <1>3, <2>1, <2>2, <2>3 DEF TypeOK
<1>5. KeyInv'
  BY <1>2 DEF KeyInv
<1>6. caps = wasOn /\ ~capsPending
  BY DEF Inv, KeyInv
<1>7. QueueInv(queue)'
  BY <1>1, <1>2, <1>6, PostStop DEF Inv, QueueInv
<1>8. MicInv'
  BY DEF Inv, MicInv, MicrophoneIsOwned, micVars
<1>9. StopInv'
  BY <1>1, <1>2, <1>6, PostStop DEF Inv, StopInv, PendingIsDecided, StopIsOnItsWay,
     stopVars
<1> QED
  BY <1>4, <1>5, <1>7, <1>8, <1>9 DEF Inv

LEMMA ReleaseSafe ==
  ASSUME TypeOK, Inv, ReleaseOtherKey
  PROVE  TypeOK' /\ Inv' /\ alive'
<1> USE DEF ReleaseOtherKey, MayPost
<1>1. /\ queue \in Seq(Commands) /\ MaxQueue \in Nat
      /\ "recordingStop" \in Commands /\ "recordingStop" \in Stops
  BY QueueAssumption DEF TypeOK, Commands, Stops
<1>2. queue' \in Seq(Commands) /\ Len(queue') <= MaxQueue
  BY <1>1, AppendType
<1>3. TypeOK'
  <2>1. HookTypes'
    BY DEF TypeOK, HookTypes
  <2>2. RecordingTypes'
    BY DEF TypeOK, RecordingTypes, stopVars
  <2>3. DeviceTypes'
    BY DEF TypeOK, DeviceTypes, micVars
  <2> QED
    BY <1>1, <1>2, <2>1, <2>2, <2>3 DEF TypeOK
<1>4. ~capsPending /\ ~longPress
  BY DEF Inv, KeyInv
<1>5. KeyInv'
  BY <1>4 DEF KeyInv
<1>6. QueueInv(queue)'
  BY <1>1, <1>4, PostStop DEF Inv, QueueInv
<1>7. MicInv'
  BY DEF Inv, MicInv, MicrophoneIsOwned, micVars
<1>8. StopInv'
  BY <1>1, <1>4, PostStop DEF Inv, StopInv, PendingIsDecided, StopIsOnItsWay,
     stopVars
<1> QED
  BY <1>3, <1>5, <1>6, <1>7, <1>8 DEF Inv

---------------------------------------------------------------------------
\* Settings, and what else posts no press.

\* A step that changes neither hook nor recording nor device and leaves the
\* queue alone, but for a reload or a failure.
LEMMA QuietSafe ==
  ASSUME TypeOK, Inv, alive, hotkey' \in Hotkeys, down' \in BOOLEAN, hooked' \in BOOLEAN,
         hooked => hooked' /\ hotkey' = hotkey,
         \/ queue' = queue
         \/ Len(queue) < MaxQueue /\ queue' = Append(queue, "reload"),
         UNCHANGED <<activeKey, capsPending, longPress, wasOn, cut, caps, recording,
                     pendingOnly, stopVars, micVars, alive>>
  PROVE  TypeOK' /\ Inv' /\ alive'
<1>1. queue \in Seq(Commands) /\ Len(queue) \in Nat /\ "reload" \in Commands
  BY LenProperties DEF TypeOK, Commands
<1>2. /\ queue' \in Seq(Commands) /\ Len(queue') <= MaxQueue + 1
      /\ Len(queue) <= MaxQueue => Len(queue') <= MaxQueue
      /\ SameOrder(queue', queue)
  <2>1. SameOrder(queue, queue)
    BY DEF SameOrder
  <2>2. CASE queue' = queue
    BY <1>1, <2>1, <2>2 DEF TypeOK
  <2>3. CASE Len(queue) < MaxQueue /\ queue' = Append(queue, "reload")
    BY <1>1, <2>3, PostOther, AppendType, QueueAssumption
  <2> QED
    BY <2>2, <2>3
<1>3. TypeOK'
  <2>1. HookTypes'
    BY DEF TypeOK, HookTypes
  <2>2. RecordingTypes'
    BY DEF TypeOK, RecordingTypes, stopVars
  <2>3. DeviceTypes'
    BY DEF TypeOK, DeviceTypes, micVars
  <2> QED
    BY <1>2, <2>1, <2>2, <2>3 DEF TypeOK
<1>4. KeyInv'
  BY <1>2 DEF Inv, KeyInv
<1>5. QueueInv(queue)'
  BY <1>2 DEF Inv, QueueInv, SameOrder
<1>6. MicInv'
  BY DEF Inv, MicInv, MicrophoneIsOwned, micVars
<1>7. StopInv'
  BY <1>2 DEF Inv, StopInv, PendingIsDecided, StopIsOnItsWay, SameOrder, stopVars
<1> QED
  BY <1>3, <1>4, <1>5, <1>6, <1>7 DEF Inv

LEMMA QuietSteps ==
  ASSUME TypeOK, Inv, UnseenKey \/ CloseSettings \/ SaveSettings \/ TrayReload
  PROVE  TypeOK' /\ Inv' /\ alive'
<1>1. /\ alive /\ hotkey' \in Hotkeys
      /\ hooked => hooked' /\ hotkey' = hotkey
      /\ \/ queue' = queue
         \/ Len(queue) < MaxQueue /\ queue' = Append(queue, "reload")
  BY DEF UnseenKey, CloseSettings, SaveSettings, TrayReload, MayPost, hookVars, TypeOK,
     HookTypes
<1>2. down' \in BOOLEAN /\ hooked' \in BOOLEAN
  BY DEF UnseenKey, CloseSettings, SaveSettings, TrayReload, hookVars, TypeOK, HookTypes
<1>3. UNCHANGED <<activeKey, capsPending, longPress, wasOn, cut, caps, recording,
                  pendingOnly, stopVars, micVars, alive>>
  BY DEF UnseenKey, CloseSettings, SaveSettings, TrayReload, hookVars
<1> QED
  BY <1>1, <1>2, <1>3, QuietSafe

LEMMA OpenSettingsSafe ==
  ASSUME TypeOK, Inv, OpenSettings
  PROVE  TypeOK' /\ Inv' /\ alive'
<1> USE DEF OpenSettings, MayPost
<1>1. queue \in Seq(Commands) /\ "captureDiscard" \in Commands /\ MaxQueue \in Nat
  BY QueueAssumption DEF TypeOK, Commands
<1>2. ~activeKey' /\ ~capsPending' /\ ~longPress'
  BY DEF ResetCapsLockHotkeyState
<1>3. capsPending => queue' = Append(queue, "captureDiscard")
  BY DEF ResetCapsLockHotkeyState
<1>4. ~capsPending => queue' = queue
  BY DEF ResetCapsLockHotkeyState
<1>5. queue' \in Seq(Commands) /\ Len(queue') <= MaxQueue + 1
  BY <1>1, <1>3, <1>4, AppendType, LenProperties
<1>6. TypeOK'
  <2>1. HookTypes'
    BY DEF TypeOK, HookTypes, ResetCapsLockHotkeyState
  <2>2. RecordingTypes'
    BY DEF TypeOK, RecordingTypes, stopVars
  <2>3. DeviceTypes'
    BY DEF TypeOK, DeviceTypes, micVars
  <2> QED
    BY <1>5, <2>1, <2>2, <2>3 DEF TypeOK
<1>7. KeyInv'
  BY <1>2 DEF KeyInv
<1>8. MicInv'
  BY DEF Inv, MicInv, MicrophoneIsOwned, micVars
<1>9. QueueInv(queue)' /\ StopInv'
  <2>1. CASE capsPending
    <3>1. /\ Queued(queue', Decisions)
          /\ Queued(queue', Stops) <=> Queued(queue, Stops)
          /\ Queued(queue', Begins) <=> Queued(queue, Begins)
          /\ Followed(queue', Begins, Decisions)
          /\ Followed(queue', Starts, Stops) <=> Followed(queue, Starts, Stops)
          /\ Followed(queue', CapsStops, Begins) <=> Followed(queue, CapsStops, Begins)
      BY <1>1, <1>3, <2>1, PostDiscard
    <3>2. QueueInv(queue)'
      BY <1>2, <2>1, <3>1 DEF Inv, QueueInv
    <3>3. StopInv'
      BY <1>2, <2>1, <3>1 DEF Inv, StopInv, PendingIsDecided, StopIsOnItsWay, stopVars
    <3> QED
      BY <3>2, <3>3
  <2>2. CASE ~capsPending
    <3>1. queue' = queue
      BY <1>4, <2>2
    <3>2. QueueInv(queue)'
      BY <1>2, <2>2, <3>1 DEF Inv, QueueInv
    <3>3. StopInv'
      BY <1>2, <2>2, <3>1 DEF Inv, StopInv, PendingIsDecided, StopIsOnItsWay, stopVars
    <3> QED
      BY <3>2, <3>3
  <2> QED
    BY <2>1, <2>2
<1> QED
  BY <1>6, <1>7, <1>8, <1>9 DEF Inv

LEMMA DeviceFailsSafe ==
  ASSUME TypeOK, Inv, DeviceFails
  PROVE  TypeOK' /\ Inv' /\ alive'
<1> USE DEF DeviceFails, MayPost
<1>1. queue \in Seq(Commands) /\ "captureError" \in Commands /\ MaxQueue \in Nat
  BY QueueAssumption DEF TypeOK, Commands
<1>2. queue' \in Seq(Commands) /\ Len(queue') <= MaxQueue
  BY <1>1, AppendType
<1>3. SameOrder(queue', queue)
  BY <1>1, PostOther
<1>4. TypeOK'
  <2>1. HookTypes'
    BY DEF TypeOK, HookTypes, hookVars
  <2>2. RecordingTypes'
    BY DEF TypeOK, RecordingTypes, stopVars
  <2>3. DeviceTypes'
    BY DEF TypeOK, DeviceTypes
  <2> QED
    BY <1>1, <1>2, <2>1, <2>2, <2>3 DEF TypeOK
<1>5. KeyInv'
  BY <1>2 DEF Inv, KeyInv, hookVars
<1>6. QueueInv(queue)'
  BY <1>3 DEF Inv, QueueInv, SameOrder, hookVars
<1>7. MicInv'
  BY DEF Inv, MicInv, MicrophoneIsOwned
<1>8. StopInv'
  BY <1>3 DEF Inv, StopInv, PendingIsDecided, StopIsOnItsWay, SameOrder, stopVars,
     hookVars
<1> QED
  BY <1>4, <1>5, <1>6, <1>7, <1>8 DEF Inv

---------------------------------------------------------------------------
\* The handlers keep what is said of the device, and leave the queue behind
\* the message they handle.

LEMMA BeginMic ==
  ASSUME TypeOK, MicInv, NEW q, BeginCaptureOnly(q), alive, UNCHANGED alive
  PROVE  queue' \in Left(q) /\ RecordingTypes' /\ DeviceTypes' /\ MicInv'
<1> USE DEF BeginCaptureOnly, StartAudioCapture, ResumeCapture, OpenCapture,
    OpeningFails, CloseAudioCapture
<1>1. queue' \in Left(q)
  BY DEF Left
<1>2. RecordingTypes'
  BY DEF TypeOK, RecordingTypes, HoldStop, stopVars
<1>3. DeviceTypes'
  BY DEF TypeOK, DeviceTypes, micVars
<1>4. MicInv'
  BY DEF MicInv, MicrophoneIsOwned, micVars, TypeOK, DeviceTypes
<1> QED
  BY <1>1, <1>2, <1>3, <1>4

LEMMA DiscardMic ==
  ASSUME TypeOK, MicInv, NEW q, DiscardPendingCapture(q), alive, UNCHANGED alive
  PROVE  queue' \in Left(q) /\ RecordingTypes' /\ DeviceTypes' /\ MicInv'
<1> USE DEF DiscardPendingCapture, PauseOrClose, CloseAudioCapture, StopAudioCapture
<1>1. queue' \in Left(q)
  BY DEF Left
<1>2. RecordingTypes'
  BY DEF TypeOK, RecordingTypes, ResumeHeldStop, stopVars
<1>3. DeviceTypes'
  BY DEF TypeOK, DeviceTypes, micVars
<1>4. MicInv'
  <2>1. CASE ~pendingOnly
    BY <2>1 DEF MicInv, MicrophoneIsOwned, micVars, TypeOK, DeviceTypes
  <2>2. CASE pendingOnly /\ stale
    BY <2>2 DEF MicInv, MicrophoneIsOwned, micVars, TypeOK, DeviceTypes
  <2>3. CASE pendingOnly /\ ~stale
    <3>1. mic = "capturing"
      BY <2>3 DEF MicInv, MicrophoneIsOwned
    <3>2. mic' = "suppressed" /\ keepAlive' = TRUE
      BY <2>3, <3>1
    <3>3. ~recording' /\ ~pendingOnly' /\ ~stale'
      BY <2>3 DEF MicInv
    <3>4. ~outdated'
      BY <2>3 DEF MicInv
    <3> QED
      BY <3>2, <3>3, <3>4 DEF MicInv, MicrophoneIsOwned
  <2> QED
    BY <2>1, <2>2, <2>3
<1> QED
  BY <1>1, <1>2, <1>3, <1>4

LEMMA StartMic ==
  ASSUME TypeOK, MicInv, NEW q, StartRecordingSession(q), alive, UNCHANGED alive
  PROVE  queue' \in Left(q) /\ RecordingTypes' /\ DeviceTypes' /\ MicInv'
<1> USE DEF StartRecordingSession, StartAudioCapture, ResumeCapture, OpenCapture,
    OpeningFails, CloseAudioCapture
<1>1. queue' \in Left(q)
  BY DEF Left
<1>2. RecordingTypes'
  BY DEF TypeOK, RecordingTypes
<1>3. DeviceTypes'
  BY DEF TypeOK, DeviceTypes, micVars
<1>4. MicInv'
  <2>1. CASE recording \/ pendingOnly
    <3>1. UNCHANGED micVars
      BY <2>1
    <3>2. recording' /\ ~pendingOnly'
      BY <2>1 DEF MicInv
    <3> QED
      BY <2>1, <3>1, <3>2 DEF MicInv, MicrophoneIsOwned, micVars
  <2>2. CASE ~recording /\ ~pendingOnly /\ ResumeCapture(q)
    BY <2>2 DEF MicInv, MicrophoneIsOwned, micVars, TypeOK, DeviceTypes
  <2>3. CASE ~recording /\ ~pendingOnly /\ OpenCapture(q)
    BY <2>3 DEF MicInv, MicrophoneIsOwned, micVars, TypeOK, DeviceTypes
  <2>4. CASE ~recording /\ ~pendingOnly /\ OpeningFails(q)
    BY <2>4 DEF MicInv, MicrophoneIsOwned, micVars, TypeOK, DeviceTypes
  <2> QED
    BY <2>1, <2>2, <2>3, <2>4
<1> QED
  BY <1>1, <1>2, <1>3, <1>4

LEMMA DelayStopMic ==
  ASSUME TypeOK, MicInv, NEW q, NEW m, DelayStop(m, q), alive, UNCHANGED alive
  PROVE  queue' \in Left(q) /\ RecordingTypes' /\ DeviceTypes' /\ MicInv'
<1> USE DEF DelayStop, micVars
<1>1. queue' \in Left(q)
  BY DEF Left
<1>2. RecordingTypes'
  BY DEF TypeOK, RecordingTypes
<1>3. DeviceTypes'
  BY DEF TypeOK, DeviceTypes
<1>4. MicInv'
  BY DEF MicInv, MicrophoneIsOwned
<1> QED
  BY <1>1, <1>2, <1>3, <1>4

LEMMA ReloadMic ==
  ASSUME TypeOK, MicInv, NEW q, Reload(q), alive, UNCHANGED alive
  PROVE  queue' \in Left(q) /\ RecordingTypes' /\ DeviceTypes' /\ MicInv'
<1> USE DEF Reload, CloseAudioCapture
<1>1. queue' \in Left(q)
  BY DEF Left
<1>2. RecordingTypes'
  BY DEF TypeOK, RecordingTypes, stopVars
<1>3. DeviceTypes'
  BY DEF TypeOK, DeviceTypes
<1>4. MicInv'
  BY DEF MicInv, MicrophoneIsOwned
<1> QED
  BY <1>1, <1>2, <1>3, <1>4

LEMMA FailureMic ==
  ASSUME TypeOK, MicInv, NEW q, HandleAudioCaptureFailure(q), alive, UNCHANGED alive
  PROVE  queue' \in Left(q) /\ RecordingTypes' /\ DeviceTypes' /\ MicInv'
<1> USE DEF HandleAudioCaptureFailure, EndFailedRecording, CloseAudioCapture
<1>1. queue' \in Left(q)
  BY DEF Left
<1>2. RecordingTypes'
  BY DEF TypeOK, RecordingTypes, stopVars
<1>3. DeviceTypes'
  BY DEF TypeOK, DeviceTypes, micVars
<1>4. MicInv'
  BY DEF MicInv, MicrophoneIsOwned, micVars, TypeOK, DeviceTypes
<1> QED
  BY <1>1, <1>2, <1>3, <1>4

LEMMA StopMic ==
  ASSUME TypeOK, MicInv, NEW q, StopRecordingSession(q), alive, UNCHANGED alive
  PROVE  /\ queue' \in Left(q)
         /\ ~recording' /\ recording' \in BOOLEAN /\ pendingOnly' = pendingOnly
         /\ DeviceTypes' /\ MicInv'
<1> USE DEF StopRecordingSession, EndFailedRecording, PauseOrClose, CloseAudioCapture,
    StopAudioCapture
<1>1. queue' \in Left(q)
  BY DEF Left
<1>2. ~recording' /\ recording' \in BOOLEAN /\ pendingOnly' = pendingOnly
  <2>1. CASE ~recording
    BY <2>1 DEF TypeOK, RecordingTypes
  <2>2. CASE recording
    BY <2>2
  <2> QED
    BY <2>1, <2>2
<1>3. DeviceTypes'
  BY DEF TypeOK, DeviceTypes, micVars
<1>4. MicInv'
  <2>1. CASE ~recording
    BY <2>1 DEF MicInv, MicrophoneIsOwned, micVars, TypeOK, DeviceTypes
  <2>2. CASE recording /\ fault
    BY <2>2 DEF MicInv, MicrophoneIsOwned, micVars, TypeOK, DeviceTypes
  <2>3. CASE recording /\ ~fault /\ stale
    BY <2>3 DEF MicInv, MicrophoneIsOwned, micVars, TypeOK, DeviceTypes
  <2>4. CASE recording /\ ~fault /\ ~stale
    <3>1. mic = "capturing"
      BY <2>4 DEF MicInv, MicrophoneIsOwned
    <3>2. mic' = "suppressed" /\ keepAlive' = TRUE
      BY <2>4, <3>1
    <3>3. ~recording' /\ ~pendingOnly' /\ ~stale'
      BY <2>4 DEF MicInv
    <3>4. ~outdated'
      BY <2>4 DEF MicInv
    <3> QED
      BY <3>2, <3>3, <3>4 DEF MicInv, MicrophoneIsOwned
  <2> QED
    BY <2>1, <2>2, <2>3, <2>4
<1> QED
  BY <1>1, <1>2, <1>3, <1>4

\* What a handler leaves alone.
LEMMA HandlerKeeps ==
  ASSUME TypeOK, Inv, alive,
         NEW q, q = queue \/ (queue # <<>> /\ q = Tail(queue)), queue' \in Left(q),
         UNCHANGED <<hookVars, caps, alive>>
  PROVE  /\ HookTypes' /\ alive' \in BOOLEAN
         /\ queue' \in Seq(Commands) /\ Len(queue') <= MaxQueue + 1
         /\ q \in Seq(Commands) /\ SameOrder(queue', q)
         /\ KeyInv' /\ QueueInv(queue)'
<1>1. queue \in Seq(Commands) /\ MaxQueue \in Nat
  BY QueueAssumption DEF TypeOK
<1>2. q \in Seq(Commands) /\ Len(q) \in Nat /\ Len(q) <= Len(queue)
  BY <1>1, TailProperties, LenProperties
<1>3. queue' \in Seq(Commands) /\ Len(queue') = Len(q)
  BY <1>2, LeftType
<1>4. Len(queue') <= MaxQueue + 1 /\ (Len(queue) <= MaxQueue => Len(queue') <= MaxQueue)
  BY <1>1, <1>2, <1>3, LenProperties DEF TypeOK
<1>5. SameOrder(queue', q)
  BY <1>2, LeftOrder
<1>6. HookTypes' /\ alive' \in BOOLEAN
  BY DEF TypeOK, HookTypes, hookVars
<1>7. KeyInv'
  BY <1>4 DEF Inv, KeyInv, hookVars
<1>8. QueueInv(q)
  BY <1>1, TailOrder DEF Inv
<1>9. QueueInv(queue)'
  BY <1>5, <1>8 DEF QueueInv, SameOrder, hookVars
<1> QED
  BY <1>2, <1>3, <1>4, <1>5, <1>6, <1>7, <1>9

\* What the rest of the queue holds for the message at its head.
LEMMA HeadNeeds ==
  ASSUME TypeOK, Inv, queue # <<>>, NEW m, m = Head(queue), NEW q, q = Tail(queue)
  PROVE  /\ m = "captureBegin" => capsPending \/ Queued(q, Decisions)
         /\ m = "recordingStart" => cut \/ (activeKey /\ ~capsPending) \/ Queued(q, Stops)
         /\ m \in Ends => ~activeKey \/ Queued(q, Presses)
         /\ m = "capsLockRecordingStop" => caps = wasOn \/ Queued(q, Begins)
         /\ Queued(queue, Decisions) => m \in Decisions \/ Queued(q, Decisions)
         /\ Queued(queue, Stops) => m \in Stops \/ Queued(q, Stops)
         /\ Queued(queue, Presses) => m \in Presses \/ Queued(q, Presses)
         /\ Queued(queue, Begins) => m \in Begins \/ Queued(q, Begins)
<1>1. queue \in Seq(Commands)
  BY DEF TypeOK
<1>2. \A A : Queued(queue, A) <=> (m \in A \/ Queued(q, A))
  BY <1>1, QueuedTail
<1>3. \A A, B : Followed(queue, A, B) /\ m \in A => Queued(q, B)
  BY <1>1, FollowedTail
<1>4. /\ "captureBegin" \in Begins /\ "recordingStart" \in Starts
      /\ "capsLockRecordingStop" \in CapsStops
  BY DEF Begins, Starts, CapsStops
<1> QED
  BY <1>2, <1>3, <1>4 DEF Inv, QueueInv

---------------------------------------------------------------------------
\* The messages.

LEMMA DispatchSafe ==
  ASSUME TypeOK, Inv, DispatchMessage
  PROVE  TypeOK' /\ Inv' /\ alive'
<1> DEFINE m == Head(queue)
           q == Tail(queue)
<1>1. /\ alive /\ queue # <<>>
      /\ UNCHANGED <<hookVars, caps, alive>>
  BY DEF DispatchMessage
<1>2. \/ m = "captureBegin" /\ BeginCaptureOnly(q)
      \/ m = "captureDiscard" /\ DiscardPendingCapture(q)
      \/ m = "recordingStart" /\ StartRecordingSession(q)
      \/ m \in Stops /\ DelayStop(m, q)
      \/ m = "reload" /\ Reload(q)
      \/ m = "captureError" /\ HandleAudioCaptureFailure(q)
      \/ /\ m = "staleError"
         /\ queue' = q
         /\ UNCHANGED <<recording, pendingOnly, stopVars, micVars>>
  BY DEF DispatchMessage
<1>3. MicInv
  BY DEF Inv
<1>4. queue' \in Left(q) /\ RecordingTypes' /\ DeviceTypes' /\ MicInv'
  <2>1. ASSUME queue' = q, UNCHANGED <<recording, pendingOnly, stopVars, micVars>>
        PROVE  queue' \in Left(q) /\ RecordingTypes' /\ DeviceTypes' /\ MicInv'
    BY <1>1, <1>3, <2>1 DEF Left, TypeOK, RecordingTypes, DeviceTypes, stopVars, micVars,
       MicInv, MicrophoneIsOwned
  <2> HIDE DEF m, q
  <2> QED
    BY <1>1, <1>2, <1>3, <2>1, BeginMic, DiscardMic, StartMic, DelayStopMic, ReloadMic,
       FailureMic
<1>5. /\ HookTypes' /\ alive' \in BOOLEAN
      /\ queue' \in Seq(Commands) /\ Len(queue') <= MaxQueue + 1
      /\ SameOrder(queue', q)
      /\ KeyInv' /\ QueueInv(queue)'
  BY <1>1, <1>4, HandlerKeeps
<1>6. TypeOK'
  BY <1>4, <1>5 DEF TypeOK
<1>7. /\ m = "captureBegin" => capsPending \/ Queued(q, Decisions)
      /\ m = "recordingStart" => cut \/ (activeKey /\ ~capsPending) \/ Queued(q, Stops)
      /\ m \in Ends => ~activeKey \/ Queued(q, Presses)
      /\ m = "capsLockRecordingStop" => caps = wasOn \/ Queued(q, Begins)
      /\ Queued(queue, Decisions) => m \in Decisions \/ Queued(q, Decisions)
      /\ Queued(queue, Stops) => m \in Stops \/ Queued(q, Stops)
      /\ Queued(queue, Presses) => m \in Presses \/ Queued(q, Presses)
      /\ Queued(queue, Begins) => m \in Begins \/ Queued(q, Begins)
  BY <1>1, HeadNeeds
<1>8. /\ Queued(queue', Decisions) <=> Queued(q, Decisions)
      /\ Queued(queue', Stops) <=> Queued(q, Stops)
      /\ Queued(queue', Presses) <=> Queued(q, Presses)
      /\ Queued(queue', Begins) <=> Queued(q, Begins)
  BY <1>5 DEF SameOrder
<1>9. /\ UNCHANGED <<activeKey, capsPending, cut, caps, wasOn>>
      /\ alive'
  BY <1>1 DEF hookVars
<1>10. StopInv'
  <2> HIDE DEF m, q
  <2> USE <1>7, <1>8, <1>9 DEF Inv, StopInv, PendingIsDecided, StopIsOnItsWay
  <2>1. CASE m = "captureBegin" /\ BeginCaptureOnly(q)
    <3>1. m \notin Decisions /\ m \notin Stops
      BY <2>1 DEF Decisions, Stops
    <3>2. CASE recording
      <4>1. recording' = TRUE /\ pendingOnly' = pendingOnly /\ HoldStop
        BY <2>1, <3>2 DEF BeginCaptureOnly, TypeOK, RecordingTypes
      <4> QED
        BY <1>1, <2>1, <3>1, <3>2, <4>1 DEF HoldStop
    <3>3. CASE ~recording
      <4>1. ~recording' /\ UNCHANGED stopVars
        BY <2>1, <3>3 DEF BeginCaptureOnly
      <4> QED
        BY <2>1, <4>1 DEF stopVars
    <3> QED
      BY <3>2, <3>3
  <2>2. CASE m = "captureDiscard" /\ DiscardPendingCapture(q)
    <3>1. m \in Ends /\ m \notin Stops /\ m \notin Begins
      BY <2>2 DEF Ends, Stops, Begins
    <3>2. CASE pendingOnly
      <4>1. ~recording' /\ ~pendingOnly' /\ UNCHANGED stopVars
        BY <1>3, <2>2, <3>2 DEF DiscardPendingCapture, MicInv
      <4> QED
        BY <4>1 DEF stopVars
    <3>3. CASE ~pendingOnly
      <4>1. recording' = recording /\ ~pendingOnly' /\ ResumeHeldStop
        BY <2>2, <3>3 DEF DiscardPendingCapture
      <4> QED
        BY <1>1, <3>1, <4>1 DEF ResumeHeldStop
    <3> QED
      BY <3>2, <3>3
  <2>3. CASE m = "recordingStart" /\ StartRecordingSession(q)
    <3>1. stopDelay' = FALSE /\ restoreCaps' = FALSE /\ ~pendingOnly'
      BY <1>3, <2>3 DEF StartRecordingSession, MicInv
    <3> QED
      BY <2>3, <3>1
  <2>4. CASE m \in Stops /\ DelayStop(m, q)
    <3>1. m \in Ends /\ m \notin Decisions /\ m \notin Begins
      BY <2>4 DEF Ends, Stops, Decisions, Begins
    <3> QED
      BY <1>1, <2>4, <3>1 DEF DelayStop
  <2>5. ASSUME m \in Errors \union {"reload"}, UNCHANGED stopVars,
               recording' => recording, pendingOnly' => pendingOnly
        PROVE  StopInv'
    <3>1. m \notin Decisions /\ m \notin Stops /\ m \notin Presses /\ m \notin Begins
      BY <2>5 DEF Errors, Decisions, Stops, Presses, Begins, Starts
    <3> QED
      BY <1>1, <2>5, <3>1 DEF stopVars
  <2>6. CASE m = "reload" /\ Reload(q)
    BY <2>5, <2>6 DEF Reload
  <2>7. CASE m = "captureError" /\ HandleAudioCaptureFailure(q)
    <3>1. /\ UNCHANGED stopVars
          /\ recording' => recording
          /\ pendingOnly' => pendingOnly
      BY <2>7 DEF HandleAudioCaptureFailure, EndFailedRecording
    <3> QED
      BY <2>5, <2>7, <3>1 DEF Errors
  <2>8. CASE /\ m = "staleError"
             /\ queue' = q
             /\ UNCHANGED <<recording, pendingOnly, stopVars, micVars>>
    BY <2>5, <2>8 DEF Errors
  <2> QED
    BY <1>2, <2>1, <2>2, <2>3, <2>4, <2>6, <2>7, <2>8
<1> QED
  BY <1>4, <1>5, <1>6, <1>9, <1>10 DEF Inv

---------------------------------------------------------------------------
\* The timers.

LEMMA LimitSafe ==
  ASSUME TypeOK, Inv, RecordingLimitReached
  PROVE  TypeOK' /\ Inv' /\ alive'
<1>1. /\ alive /\ StopRecordingSession(queue)
      /\ UNCHANGED <<hookVars, caps, stopVars, alive>>
  BY DEF RecordingLimitReached
<1>2. /\ queue' \in Left(queue)
      /\ ~recording' /\ recording' \in BOOLEAN /\ pendingOnly' = pendingOnly
      /\ DeviceTypes' /\ MicInv'
  BY <1>1, StopMic DEF Inv
<1>3. /\ HookTypes' /\ alive' \in BOOLEAN
      /\ queue' \in Seq(Commands) /\ Len(queue') <= MaxQueue + 1
      /\ SameOrder(queue', queue)
      /\ KeyInv' /\ QueueInv(queue)'
  BY <1>1, <1>2, HandlerKeeps
<1>4. RecordingTypes'
  BY <1>1, <1>2 DEF TypeOK, RecordingTypes, stopVars
<1>5. StopInv'
  BY <1>1, <1>2, <1>3 DEF Inv, StopInv, PendingIsDecided, StopIsOnItsWay, SameOrder,
     stopVars, hookVars
<1> QED
  BY <1>1, <1>2, <1>3, <1>4, <1>5 DEF Inv, TypeOK

LEMMA KeepAliveSafe ==
  ASSUME TypeOK, Inv, KeepAliveExpires
  PROVE  TypeOK' /\ Inv' /\ alive'
<1> USE DEF KeepAliveExpires, CloseAudioCapture
<1>1. /\ alive /\ queue' \in Left(queue)
      /\ UNCHANGED <<hookVars, caps, recording, pendingOnly, stopVars, fault, stale, alive>>
  BY DEF Left
<1>2. /\ HookTypes' /\ alive' \in BOOLEAN
      /\ queue' \in Seq(Commands) /\ Len(queue') <= MaxQueue + 1
      /\ SameOrder(queue', queue)
      /\ KeyInv' /\ QueueInv(queue)'
  BY <1>1, HandlerKeeps
<1>3. RecordingTypes'
  BY <1>1 DEF TypeOK, RecordingTypes, stopVars
<1>4. DeviceTypes'
  BY DEF TypeOK, DeviceTypes
<1>5. MicInv'
  BY DEF Inv, MicInv, MicrophoneIsOwned
<1>6. StopInv'
  BY <1>1, <1>2 DEF Inv, StopInv, PendingIsDecided, StopIsOnItsWay, SameOrder,
     stopVars, hookVars
<1> QED
  BY <1>1, <1>2, <1>3, <1>4, <1>5, <1>6 DEF Inv, TypeOK

\* Caps Lock is restored before the next press begins, or is right already.
LEMMA StopDelaySafe ==
  ASSUME TypeOK, Inv, StopDelayFires
  PROVE  TypeOK' /\ Inv' /\ alive'
<1>1. /\ alive /\ queue = <<>> /\ StopRecordingSession(queue)
      /\ stopDelay' = FALSE /\ restoreCaps' = FALSE
      /\ caps' = IF restoreCaps THEN wasOn ELSE caps
      /\ UNCHANGED <<hookVars, held, alive>>
  BY DEF StopDelayFires
<1>2. /\ queue' \in Left(queue)
      /\ ~recording' /\ recording' \in BOOLEAN /\ pendingOnly' = pendingOnly
      /\ DeviceTypes' /\ MicInv'
  BY <1>1, StopMic DEF Inv
<1>3. /\ queue' \in Seq(Commands) /\ Len(queue') = Len(queue)
      /\ SameOrder(queue', queue)
  BY <1>2, LeftType, LeftOrder DEF TypeOK
<1>4. TypeOK'
  <2>1. HookTypes'
    BY <1>1 DEF TypeOK, HookTypes, hookVars
  <2>2. RecordingTypes'
    BY <1>1, <1>2 DEF TypeOK, RecordingTypes
  <2> QED
    BY <1>1, <1>2, <1>3, <2>1, <2>2 DEF TypeOK
<1>5. caps = wasOn => caps' = wasOn
  BY <1>1
<1>6. KeyInv'
  BY <1>1, <1>3, <1>5 DEF Inv, KeyInv, hookVars
<1>7. QueueInv(queue)'
  BY <1>1, <1>3, <1>5, EmptyQueue DEF Inv, QueueInv, SameOrder, hookVars
<1>8. StopInv'
  BY <1>1, <1>2, <1>3 DEF Inv, StopInv, PendingIsDecided, StopIsOnItsWay, SameOrder,
     hookVars
<1> QED
  BY <1>1, <1>2, <1>4, <1>6, <1>7, <1>8 DEF Inv

LEMMA QuitSafe ==
  ASSUME TypeOK, Inv, Quit
  PROVE  TypeOK' /\ ~alive' /\ ~pendingOnly'
<1> USE DEF Quit, ResetCapsLockHotkeyState
<1>1. /\ queue \in Seq(Commands) /\ Len(queue) <= MaxQueue + 1 /\ MaxQueue \in Nat
      /\ "captureDiscard" \in Commands
      /\ capsPending => Len(queue) <= MaxQueue
  BY QueueAssumption DEF TypeOK, Commands, Inv, KeyInv
<1>2. Expired(queue) \in Seq(Commands) /\ Len(Expired(queue)) = Len(queue)
  BY <1>1, ExpiredProperties
<1>3. queue' \in Seq(Commands) /\ Len(queue') <= MaxQueue + 1
  <2>1. CASE capsPending
    BY <1>1, <1>2, <2>1, AppendType
  <2>2. CASE ~capsPending
    BY <1>1, <1>2, <2>2
  <2> QED
    BY <2>1, <2>2
<1>4. HookTypes'
  BY DEF TypeOK, HookTypes
<1>5. RecordingTypes'
  BY DEF TypeOK, RecordingTypes
<1>6. DeviceTypes'
  BY DEF TypeOK, DeviceTypes
<1> QED
  BY <1>3, <1>4, <1>5, <1>6 DEF TypeOK

---------------------------------------------------------------------------
\* The invariant holds in every state.

LEMMA IInvInit == Init => IInv
<1> SUFFICES ASSUME Init PROVE IInv
  OBVIOUS
<1> USE DEF Init
<1>1. TypeOK
  <2>1. queue \in Seq(Commands) /\ Len(queue) <= MaxQueue + 1
    BY EmptySeq, QueueAssumption
  <2>2. HookTypes
    BY DEF HookTypes
  <2>3. RecordingTypes /\ DeviceTypes
    BY DEF RecordingTypes, DeviceTypes
  <2> QED
    BY <2>1, <2>2, <2>3 DEF TypeOK
<1>2. KeyInv /\ QueueInv(queue)
  BY EmptyQueue DEF KeyInv, QueueInv
<1>3. MicInv /\ StopInv
  BY DEF MicInv, StopInv, MicrophoneIsOwned, PendingIsDecided, StopIsOnItsWay
<1> QED
  BY <1>1, <1>2, <1>3 DEF IInv, Inv

LEMMA IInvNext == IInv /\ [Next]_vars => IInv'
<1> SUFFICES ASSUME IInv, [Next]_vars PROVE IInv'
  OBVIOUS
<1>1. ASSUME Next PROVE TypeOK /\ Inv
  BY <1>1 DEF Next, HookStep, SettingsStep, TimerStep, IInv, MayPost,
     StartCapsLockHotkeyPress, PressOtherKey, FinishCapsLockTap,
     FinishCapsLockLongPress, ReleaseOtherKey, UnseenKey, OpenSettings,
     CloseSettings, SaveSettings, TrayReload, ActivateCapsLockLongPress,
     StopDelayFires, RecordingLimitReached, KeepAliveExpires, DeviceFails,
     DispatchMessage, Quit
<1>2. CASE HookStep
  <2>1. CASE UnseenKey
    BY <1>1, <1>2, <2>1, QuietSteps DEF Next, IInv
  <2>2. CASE HookStep /\ ~UnseenKey
    BY <1>1, <2>2, PressSafe, PressOtherSafe, TapSafe, LongPressEndSafe, ReleaseSafe
       DEF HookStep, Next, IInv
  <2> QED
    BY <1>2, <2>1, <2>2
<1>3. CASE SettingsStep
  BY <1>1, <1>3, QuietSteps, OpenSettingsSafe DEF SettingsStep, Next, IInv
<1>4. CASE TimerStep
  BY <1>1, <1>4, LongPressSafe, StopDelaySafe, LimitSafe, KeepAliveSafe
     DEF TimerStep, Next, IInv
<1>5. CASE DeviceFails
  BY <1>1, <1>5, DeviceFailsSafe DEF Next, IInv
<1>6. CASE DispatchMessage
  BY <1>1, <1>6, DispatchSafe DEF Next, IInv
<1>7. CASE Quit
  BY <1>1, <1>7, QuitSafe DEF Next, IInv
<1>8. CASE UNCHANGED vars
  <2> USE <1>8 DEF vars, hookVars, stopVars, micVars
  <2>1. TypeOK'
    <3>1. HookTypes'
      BY DEF IInv, TypeOK, HookTypes
    <3>2. RecordingTypes'
      BY DEF IInv, TypeOK, RecordingTypes
    <3>3. DeviceTypes'
      BY DEF IInv, TypeOK, DeviceTypes
    <3> QED
      BY <3>1, <3>2, <3>3 DEF IInv, TypeOK
  <2>2. alive' => KeyInv'
    BY DEF IInv, Inv, KeyInv
  <2>3. alive' => QueueInv(queue)'
    BY DEF IInv, Inv, QueueInv
  <2>4. alive' => MicInv' /\ StopInv'
    BY DEF IInv, Inv, MicInv, StopInv, MicrophoneIsOwned, PendingIsDecided,
       StopIsOnItsWay
  <2> QED
    BY <2>1, <2>2, <2>3, <2>4 DEF IInv, Inv
<1> QED
  BY <1>2, <1>3, <1>4, <1>5, <1>6, <1>7, <1>8 DEF Next

LEMMA IInvCorrect == Spec => []IInv
  BY IInvInit, IInvNext, PTL DEF Spec

---------------------------------------------------------------------------
\* The theorems.

\* Every variable keeps its type, and the queue its bound.
THEOREM TypeCorrect == Spec => []TypeOK
<1>1. IInv => TypeOK
  BY DEF IInv
<1> QED
  BY <1>1, IInvCorrect, PTL

\* The microphone collects audio exactly while a recording or an undecided
\* press needs it, and a device that is only kept alive has its timer.
THEOREM MicrophoneAlwaysOwned == Spec => []MicrophoneIsOwned
<1>1. IInv => MicrophoneIsOwned
  BY DEF IInv, Inv, MicInv, MicrophoneIsOwned
<1> QED
  BY <1>1, IInvCorrect, PTL

\* A capture begun before the decision on its press is never left without one.
THEOREM PressesAreDecided == Spec => []PendingIsDecided
<1>1. IInv => PendingIsDecided
  BY DEF IInv, Inv, StopInv, PendingIsDecided
<1> QED
  BY <1>1, IInvCorrect, PTL

\* However taps, presses, reloads and failures follow each other, the stop of
\* a recording is not lost.
THEOREM NoStopIsLost == Spec => []StopIsOnItsWay
<1>1. IInv => StopIsOnItsWay
  BY DEF IInv, Inv, StopInv, StopIsOnItsWay
<1> QED
  BY <1>1, IInvCorrect, PTL

\* The stop delay of one press never cuts the recording of the next.
THEOREM RepressContinues == Spec => []RepressKeepsRecording
<1>1. IInv => RepressKeepsRecording
  BY EmptyQueue DEF IInv, Inv, StopInv, RepressKeepsRecording
<1> QED
  BY <1>1, IInvCorrect, PTL

\* A capture never starts on a device older than the settings.
THEOREM NoOutdatedCapture == Spec => StartsOnConfiguredDevice
<1>1. IInv /\ [Next]_vars => [mic # "capturing" /\ mic' = "capturing" => ~outdated']_vars
  <2> SUFFICES ASSUME IInv, Next, mic # "capturing", mic' = "capturing"
               PROVE  ~outdated'
    BY DEF vars, micVars
  <2>1. alive
    BY DEF Next, HookStep, SettingsStep, TimerStep, MayPost,
       StartCapsLockHotkeyPress, PressOtherKey, FinishCapsLockTap,
       FinishCapsLockLongPress, ReleaseOtherKey, UnseenKey, OpenSettings,
       CloseSettings, SaveSettings, TrayReload, ActivateCapsLockLongPress,
       StopDelayFires, RecordingLimitReached, KeepAliveExpires, DeviceFails,
       DispatchMessage, Quit
  <2>2. ~recording /\ ~pendingOnly /\ ~outdated
    BY <2>1 DEF IInv, Inv, MicInv, MicrophoneIsOwned
  <2>3. CASE HookStep \/ SettingsStep \/ DeviceFails \/ Quit
    BY <2>3 DEF HookStep, SettingsStep, micVars,
       StartCapsLockHotkeyPress, PressOtherKey, FinishCapsLockTap,
       FinishCapsLockLongPress, ReleaseOtherKey, UnseenKey, OpenSettings,
       CloseSettings, SaveSettings, TrayReload, DeviceFails, Quit
  <2>4. CASE TimerStep
    BY <2>4 DEF TimerStep, micVars, ActivateCapsLockLongPress, StopDelayFires,
       RecordingLimitReached, KeepAliveExpires, StopRecordingSession,
       EndFailedRecording, PauseOrClose, StopAudioCapture, CloseAudioCapture
  <2>5. CASE DispatchMessage
    <3> DEFINE q == Tail(queue)
    <3>1. BeginCaptureOnly(q) \/ StartRecordingSession(q)
      BY <2>5 DEF DispatchMessage, micVars, DiscardPendingCapture, PauseOrClose,
         StopAudioCapture, CloseAudioCapture, DelayStop, Reload,
         HandleAudioCaptureFailure, EndFailedRecording
    <3>2. ResumeCapture(q) \/ OpenCapture(q)
      BY <3>1 DEF BeginCaptureOnly, StartRecordingSession, StartAudioCapture,
         OpeningFails, CloseAudioCapture, micVars
    <3> QED
      BY <2>2, <3>2 DEF ResumeCapture, OpenCapture
  <2> QED
    BY <2>3, <2>4, <2>5 DEF Next
<1> QED
  BY <1>1, IInvCorrect, PTL DEF Spec, StartsOnConfiguredDevice

\* A recording ends without a change of Caps Lock: the toggle of a tap inside
\* its stop delay is kept.
THEOREM CapsLockKept == Spec => StopLeavesCapsLock
<1>1. IInv /\ [Next]_vars => [recording /\ ~recording' => caps' = caps]_vars
  <2> SUFFICES ASSUME IInv, Next, recording, ~recording', caps' # caps
               PROVE  FALSE
    BY DEF vars
  <2>1. StopDelayFires \/ FinishCapsLockTap
    <3>1. CASE HookStep \/ SettingsStep \/ DeviceFails \/ Quit
      BY <3>1 DEF HookStep, SettingsStep, hookVars,
         StartCapsLockHotkeyPress, PressOtherKey, FinishCapsLockLongPress,
         ReleaseOtherKey, UnseenKey, OpenSettings, CloseSettings, SaveSettings,
         TrayReload, DeviceFails, Quit
    <3>2. CASE TimerStep
      BY <3>2 DEF TimerStep, ActivateCapsLockLongPress, RecordingLimitReached,
         KeepAliveExpires
    <3>3. CASE DispatchMessage
      BY <3>3 DEF DispatchMessage
    <3> QED
      BY <3>1, <3>2, <3>3 DEF Next
  <2>2. CASE FinishCapsLockTap
    BY <2>2 DEF FinishCapsLockTap
  <2>3. CASE StopDelayFires
    <3>1. caps' = IF restoreCaps THEN wasOn ELSE caps
      BY <2>3 DEF StopDelayFires
    <3>2. restoreCaps => caps = wasOn
      BY <2>3, EmptyQueue DEF StopDelayFires, IInv, Inv, StopInv
    <3> QED
      BY <3>1, <3>2
  <2> QED
    BY <2>1, <2>2, <2>3
<1> QED
  BY <1>1, IInvCorrect, PTL DEF Spec, StopLeavesCapsLock
=============================================================================
