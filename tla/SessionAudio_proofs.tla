------------------------- MODULE SessionAudio_proofs -------------------------
(***************************************************************************)
(* Theorems about the audio of the five streaming sessions: what a service *)
(* hears of a recording is in order, and is all there is when it is told   *)
(* so, for recordings, chunks and buffers of any size.  The replays of     *)
(* Doubao and Qwen Audio are in no order and are left out.                 *)
(*                                                                         *)
(* A unit is taken in, waits in the pending buffer, then in the chunk, and *)
(* then the service has it.  While all goes well, these three are the      *)
(* consecutive pieces of what was taken, and PcmInv says at which steps of *)
(* which worker that is so.  After a failure only an order is left: what   *)
(* the replay buffer keeps comes before what is still to be kept.          *)
(***************************************************************************)
EXTENDS RecognitionSessions_proofs

---------------------------------------------------------------------------
(***************************************************************************)
(* Pieces of a recording.                                                  *)
(***************************************************************************)

\* s is what follows the first k elements of t.
PieceOf(s, k, t) ==
  /\ 0 <= k /\ k + Len(s) <= Len(t)
  /\ \A i \in 1..Len(s) : s[i] = t[k + i]

\* All of s comes before what follows the first k elements of t.
Precedes(s, k, t) ==
  \A i \in 1..Len(s), j \in 1..Len(t) : k < j => s[i] < t[j]

UpTo(s, n) == \A i \in 1..Len(s) : s[i] <= n

\* Where the pending buffer and the chunk in hand belong in the recording.
PendingAt(ap, au) == Len(ap.taken) - Len(au.pending)
ChunkAt(ap, au) == PendingAt(ap, au) - Len(au.chunk)

\* Units are numbered in the order they are taken; the last ones are pending.
TakenInOrder(ap, au) ==
  /\ Increasing(ap.taken) /\ UpTo(ap.taken, ap.captured)
  /\ PieceOf(au.pending, PendingAt(ap, au), ap.taken)

\* The replay is in order, and what is pending comes behind it.
KeptInOrder(ap, au) ==
  /\ Increasing(au.replay) /\ UpTo(au.replay, ap.captured)
  /\ Precedes(au.replay, PendingAt(ap, au), ap.taken)

\* The chunk in hand is what was taken just before the pending units ...
ChunkNext(ap, au) == PieceOf(au.chunk, ChunkAt(ap, au), ap.taken)

\* ... and has not been kept yet.
KeptNext(ap, au) == Precedes(au.replay, ChunkAt(ap, au), ap.taken)

(***************************************************************************)
(* What a connection has heard.                                            *)
(***************************************************************************)

Unused(link) == link.got = <<>> /\ ~link.ended

\* Of the recording: a part from its beginning, or after the end all of it.
Hears(ap, link) ==
  /\ PieceOf(link.got, 0, ap.taken)
  /\ link.ended => link.got = ap.taken /\ (ap.mic # "open" \/ ap.aborted)

\* Of the replay.
HearsReplay(au, link) ==
  /\ PieceOf(link.got, 0, au.replay)
  /\ link.ended => link.got = au.replay

\* Nothing but the chunk and the pending units is left to be sent.
InHand(ap, au, link) == ChunkNext(ap, au) /\ Len(link.got) = ChunkAt(ap, au)

---------------------------------------------------------------------------
(***************************************************************************)
(* Lemmas about pieces.                                                    *)
(***************************************************************************)

LEMMA PieceEmpty ==
  ASSUME NEW t \in Pcm, NEW k \in 0..Len(t)
  PROVE  PieceOf(<<>>, k, t)
  BY DEF PieceOf, Pcm

LEMMA PieceJoin ==
  ASSUME NEW a \in Pcm, NEW b \in Pcm, NEW t \in Pcm, NEW k \in Int,
         PieceOf(a, k, t), PieceOf(b, k + Len(a), t)
  PROVE  /\ PieceOf(a \o b, k, t)
         /\ a \o b \in Pcm /\ Len(a \o b) = Len(a) + Len(b)
<1>1. /\ a \o b \in Pcm /\ Len(a \o b) = Len(a) + Len(b)
      /\ \A i \in 1..(Len(a) + Len(b)) :
           (a \o b)[i] = IF i <= Len(a) THEN a[i] ELSE b[i - Len(a)]
  BY ConcatProperties DEF Pcm
<1>2. Len(a) \in Nat /\ Len(b) \in Nat /\ Len(t) \in Nat
  BY DEF Pcm
<1>3. ASSUME NEW i \in 1..(Len(a) + Len(b))
      PROVE  (a \o b)[i] = t[k + i]
  <2>1. CASE i <= Len(a)
    BY <1>1, <1>2, <2>1 DEF PieceOf
  <2>2. CASE i > Len(a)
    <3>1. i - Len(a) \in 1..Len(b) /\ k + Len(a) + (i - Len(a)) = k + i
      BY <1>2, <2>2
    <3> QED
      BY <1>1, <1>2, <2>2, <3>1 DEF PieceOf
  <2> QED
    BY <1>2, <2>1, <2>2
<1> QED
  BY <1>1, <1>2, <1>3 DEF PieceOf

LEMMA CutPcm ==
  ASSUME NEW s \in Pcm, NEW n \in 0..Len(s)
  PROVE  /\ SubSeq(s, 1, n) \in Pcm /\ Len(SubSeq(s, 1, n)) = n
         /\ \A i \in 1..n : SubSeq(s, 1, n)[i] = s[i]
         /\ SubSeq(s, n + 1, Len(s)) \in Pcm
         /\ Len(SubSeq(s, n + 1, Len(s))) = Len(s) - n
         /\ \A i \in 1..(Len(s) - n) : SubSeq(s, n + 1, Len(s))[i] = s[n + i]
<1>1. Len(s) \in Nat /\ \A i \in 1..Len(s) : s[i] \in Nat
  BY DEF Pcm
<1>2. /\ SubSeq(s, 1, n) \in Seq(Nat)
      /\ Len(SubSeq(s, 1, n)) = IF 1 <= n THEN n - 1 + 1 ELSE 0
      /\ \A i \in 1..(n - 1 + 1) : SubSeq(s, 1, n)[i] = s[1 + i - 1]
  BY <1>1, SubSeqProperties
<1>3. /\ SubSeq(s, n + 1, Len(s)) \in Seq(Nat)
      /\ Len(SubSeq(s, n + 1, Len(s)))
           = IF n + 1 <= Len(s) THEN Len(s) - (n + 1) + 1 ELSE 0
      /\ \A i \in 1..(Len(s) - (n + 1) + 1) :
           SubSeq(s, n + 1, Len(s))[i] = s[n + 1 + i - 1]
  BY <1>1, SubSeqProperties
<1>4. Len(SubSeq(s, 1, n)) = n /\ Len(SubSeq(s, n + 1, Len(s))) = Len(s) - n
  BY <1>1, <1>2, <1>3
<1>5. \A i \in 1..n : SubSeq(s, 1, n)[i] = s[i]
  <2> SUFFICES ASSUME NEW i \in 1..n PROVE SubSeq(s, 1, n)[i] = s[i]
    OBVIOUS
  <2>1. i \in 1..(n - 1 + 1) /\ 1 + i - 1 = i
    OBVIOUS
  <2> QED
    BY <1>2, <2>1
<1>6. \A i \in 1..(Len(s) - n) : SubSeq(s, n + 1, Len(s))[i] = s[n + i]
  <2> SUFFICES ASSUME NEW i \in 1..(Len(s) - n)
               PROVE  SubSeq(s, n + 1, Len(s))[i] = s[n + i]
    OBVIOUS
  <2>1. i \in 1..(Len(s) - (n + 1) + 1) /\ n + 1 + i - 1 = n + i
    BY <1>1
  <2> QED
    BY <1>3, <2>1
<1> QED
  BY <1>2, <1>3, <1>4, <1>5, <1>6 DEF Pcm

LEMMA PieceCut ==
  ASSUME NEW s \in Pcm, NEW t \in Pcm, NEW k \in Int, PieceOf(s, k, t),
         NEW n \in 0..Len(s)
  PROVE  /\ PieceOf(SubSeq(s, 1, n), k, t)
         /\ PieceOf(SubSeq(s, n + 1, Len(s)), k + n, t)
         /\ SubSeq(s, 1, n) \in Pcm /\ Len(SubSeq(s, 1, n)) = n
         /\ SubSeq(s, n + 1, Len(s)) \in Pcm
         /\ Len(SubSeq(s, n + 1, Len(s))) = Len(s) - n
<1> DEFINE front == SubSeq(s, 1, n)
           rest == SubSeq(s, n + 1, Len(s))
<1>1. /\ front \in Pcm /\ Len(front) = n
      /\ \A i \in 1..n : front[i] = s[i]
      /\ rest \in Pcm /\ Len(rest) = Len(s) - n
      /\ \A i \in 1..(Len(s) - n) : rest[i] = s[n + i]
  BY CutPcm
<1>2. Len(s) \in Nat /\ Len(t) \in Nat
  BY DEF Pcm
<1> HIDE DEF front, rest
<1>3. PieceOf(front, k, t)
  BY <1>1, <1>2 DEF PieceOf
<1>4. ASSUME NEW i \in 1..(Len(s) - n)
      PROVE  rest[i] = t[k + n + i]
  <2>1. n + i \in 1..Len(s) /\ k + (n + i) = k + n + i
    BY <1>2
  <2> QED
    BY <1>1, <2>1 DEF PieceOf
<1>5. PieceOf(rest, k + n, t)
  BY <1>1, <1>2, <1>4 DEF PieceOf
<1> QED
  BY <1>1, <1>3, <1>5 DEF front, rest

LEMMA PieceAll ==
  ASSUME NEW s \in Pcm, NEW t \in Pcm, PieceOf(s, 0, t), Len(s) = Len(t)
  PROVE  s = t
<1>1. \A i \in 1..Len(s) : s[i] = t[i]
  BY DEF PieceOf, Pcm
<1> QED
  BY <1>1, SeqEqual DEF Pcm

LEMMA PieceIncreasing ==
  ASSUME NEW s \in Pcm, NEW t \in Pcm, NEW k \in Int, PieceOf(s, k, t),
         Increasing(t)
  PROVE  Increasing(s)
<1> SUFFICES ASSUME NEW i \in 1..Len(s), NEW j \in 1..Len(s), i < j
             PROVE  s[i] < s[j]
  BY DEF Increasing
<1>1. Len(s) \in Nat /\ Len(t) \in Nat
  BY DEF Pcm
<1>2. k + i \in 1..Len(t) /\ k + j \in 1..Len(t) /\ k + i < k + j
  BY <1>1 DEF PieceOf
<1> QED
  BY <1>2 DEF PieceOf, Increasing

\* A unit more is taken.
LEMMA TakeMore ==
  ASSUME NEW t \in Pcm, NEW n \in Nat, Increasing(t), UpTo(t, n)
  PROVE  /\ Append(t, n + 1) \in Pcm /\ Len(Append(t, n + 1)) = Len(t) + 1
         /\ Increasing(Append(t, n + 1)) /\ UpTo(Append(t, n + 1), n + 1)
         /\ \A s \in Pcm, k \in Int :
              PieceOf(s, k, t) => PieceOf(s, k, Append(t, n + 1))
         /\ \A s \in Pcm, k \in Int :
              Precedes(s, k, t) /\ UpTo(s, n) => Precedes(s, k, Append(t, n + 1))
<1> DEFINE u == Append(t, n + 1)
<1>1. /\ u \in Pcm /\ Len(u) = Len(t) + 1
      /\ \A i \in 1..Len(t) : u[i] = t[i]
      /\ u[Len(t) + 1] = n + 1
  BY AppendProperties DEF Pcm
<1>2. Len(t) \in Nat /\ \A i \in 1..Len(t) : t[i] \in Nat
  BY DEF Pcm
<1> HIDE DEF u
<1>3. Increasing(u)
  <2> SUFFICES ASSUME NEW i \in 1..Len(u), NEW j \in 1..Len(u), i < j
               PROVE  u[i] < u[j]
    BY DEF Increasing
  <2>1. i \in 1..Len(t) /\ u[i] = t[i]
    BY <1>1, <1>2
  <2>2. CASE j = Len(t) + 1
    BY <1>1, <1>2, <2>1, <2>2 DEF UpTo
  <2>3. CASE j # Len(t) + 1
    <3>1. j \in 1..Len(t) /\ u[j] = t[j]
      BY <1>1, <1>2, <2>3
    <3> QED
      BY <2>1, <3>1 DEF Increasing
  <2> QED
    BY <2>2, <2>3
<1>4. UpTo(u, n + 1)
  <2> SUFFICES ASSUME NEW i \in 1..Len(u)
               PROVE  u[i] <= n + 1
    BY DEF UpTo
  <2>1. CASE i = Len(t) + 1
    BY <1>1, <2>1
  <2>2. CASE i # Len(t) + 1
    <3>1. i \in 1..Len(t) /\ u[i] = t[i]
      BY <1>1, <1>2, <2>2
    <3> QED
      BY <1>2, <3>1 DEF UpTo
  <2> QED
    BY <2>1, <2>2
<1>5. ASSUME NEW s \in Pcm, NEW k \in Int, PieceOf(s, k, t)
      PROVE  PieceOf(s, k, u)
  <2>1. Len(s) \in Nat /\ 0 <= k /\ k + Len(s) <= Len(t)
    BY <1>5 DEF Pcm, PieceOf
  <2>2. ASSUME NEW i \in 1..Len(s)
        PROVE  s[i] = u[k + i]
    <3>1. k + i \in 1..Len(t)
      BY <1>2, <2>1
    <3> QED
      BY <1>1, <1>5, <3>1 DEF PieceOf
  <2> QED
    BY <1>1, <1>2, <2>1, <2>2 DEF PieceOf
<1>6. ASSUME NEW s \in Pcm, NEW k \in Int, Precedes(s, k, t), UpTo(s, n)
      PROVE  Precedes(s, k, u)
  <2> SUFFICES ASSUME NEW i \in 1..Len(s), NEW j \in 1..Len(u), k < j
               PROVE  s[i] < u[j]
    BY DEF Precedes
  <2>0. s[i] \in Nat
    BY DEF Pcm
  <2>1. CASE j = Len(t) + 1
    BY <1>1, <1>6, <2>0, <2>1 DEF UpTo
  <2>2. CASE j # Len(t) + 1
    <3>1. j \in 1..Len(t) /\ u[j] = t[j]
      BY <1>1, <1>2, <2>2
    <3> QED
      BY <1>6, <3>1 DEF Precedes
  <2> QED
    BY <2>1, <2>2
<1> QED
  BY <1>1, <1>3, <1>4, <1>5, <1>6 DEF u

LEMMA PieceGrows ==
  ASSUME NEW s \in Pcm, NEW t \in Pcm, NEW k \in Int, NEW n \in Nat,
         PieceOf(s, k, t), k + Len(s) = Len(t)
  PROVE  PieceOf(Append(s, n), k, Append(t, n))
<1>1. /\ Append(s, n) \in Pcm /\ Len(Append(s, n)) = Len(s) + 1
      /\ \A i \in 1..Len(s) : Append(s, n)[i] = s[i]
      /\ Append(s, n)[Len(s) + 1] = n
  BY AppendProperties DEF Pcm
<1>2. /\ Len(Append(t, n)) = Len(t) + 1
      /\ \A i \in 1..Len(t) : Append(t, n)[i] = t[i]
      /\ Append(t, n)[Len(t) + 1] = n
  BY AppendProperties DEF Pcm
<1>3. Len(s) \in Nat /\ Len(t) \in Nat /\ 0 <= k
  BY DEF Pcm, PieceOf
<1>4. ASSUME NEW i \in 1..(Len(s) + 1)
      PROVE  Append(s, n)[i] = Append(t, n)[k + i]
  <2>1. CASE i = Len(s) + 1
    <3>1. k + i = Len(t) + 1
      BY <1>3, <2>1
    <3> QED
      BY <1>1, <1>2, <2>1, <3>1
  <2>2. CASE i # Len(s) + 1
    <3>1. i \in 1..Len(s) /\ k + i \in 1..Len(t)
      BY <1>3, <2>2
    <3> QED
      BY <1>1, <1>2, <3>1 DEF PieceOf
  <2> QED
    BY <2>1, <2>2
<1> QED
  <2>1. k + (Len(s) + 1) <= Len(t) + 1
    BY <1>3
  <2> QED
    BY <1>1, <1>2, <1>3, <1>4, <2>1 DEF PieceOf

LEMMA PrecedesFurther ==
  ASSUME NEW s, NEW t \in Pcm, NEW k \in Int, NEW m \in Int, k <= m,
         Precedes(s, k, t)
  PROVE  Precedes(s, m, t)
  BY DEF Precedes, Pcm

\* What comes next belongs behind what is there.
LEMMA JoinOrder ==
  ASSUME NEW t \in Pcm, NEW s \in Pcm, NEW units \in Pcm, NEW k \in Int,
         NEW n \in Nat, Increasing(t), UpTo(t, n), PieceOf(units, k, t),
         Increasing(s), UpTo(s, n), Precedes(s, k, t),
         NEW u, u = s \o units
  PROVE  /\ Increasing(u) /\ UpTo(u, n)
         /\ Precedes(u, k + Len(units), t)
<1>0. Len(s) \in Nat /\ Len(units) \in Nat /\ Len(t) \in Nat /\ k \in Int
  BY DEF Pcm
<1>1. Precedes(s, k + Len(units), t)
  BY <1>0, PrecedesFurther
<1>2. /\ u \in Pcm /\ Len(u) = Len(s) + Len(units)
      /\ \A i \in 1..(Len(s) + Len(units)) :
           u[i] = IF i <= Len(s) THEN s[i] ELSE units[i - Len(s)]
  BY ConcatProperties DEF Pcm
<1>3. ASSUME NEW i \in 1..Len(u), i <= Len(s)
      PROVE  i \in 1..Len(s) /\ u[i] = s[i]
  BY <1>0, <1>2, <1>3
<1>4. ASSUME NEW i \in 1..Len(u), i > Len(s)
      PROVE  /\ k < k + i - Len(s) /\ k + i - Len(s) <= k + Len(units)
             /\ k + i - Len(s) \in 1..Len(t)
             /\ u[i] = t[k + i - Len(s)]
  <2>1. /\ i - Len(s) \in 1..Len(units) /\ k + (i - Len(s)) = k + i - Len(s)
        /\ i \in 1..(Len(s) + Len(units)) /\ ~(i <= Len(s))
    BY <1>0, <1>2, <1>4
  <2>2. u[i] = units[i - Len(s)]
    BY <1>2, <2>1
  <2>3. units[i - Len(s)] = t[k + i - Len(s)] /\ 0 <= k /\ k + Len(units) <= Len(t)
    BY <2>1 DEF PieceOf
  <2> QED
    BY <1>0, <2>1, <2>2, <2>3
<1>5. Increasing(u)
  <2> SUFFICES ASSUME NEW i \in 1..Len(u), NEW j \in 1..Len(u), i < j
               PROVE  u[i] < u[j]
    BY DEF Increasing
  <2>0. i \in Int /\ j \in Int
    BY <1>0, <1>2
  <2>1. CASE j <= Len(s)
    <3>1. i <= Len(s)
      BY <1>0, <2>0, <2>1
    <3> QED
      BY <1>3, <2>1, <3>1 DEF Increasing
  <2>2. CASE i <= Len(s) /\ j > Len(s)
    <3>1. i \in 1..Len(s) /\ u[i] = s[i]
      BY <1>3, <2>2
    <3>2. /\ k < k + j - Len(s) /\ k + j - Len(s) \in 1..Len(t)
          /\ u[j] = t[k + j - Len(s)]
      BY <1>4, <2>2
    <3> QED
      BY <3>1, <3>2 DEF Precedes
  <2>3. CASE i > Len(s)
    <3>1. j > Len(s) /\ k + i - Len(s) < k + j - Len(s)
      BY <1>0, <2>0, <2>3
    <3>2. /\ k + i - Len(s) \in 1..Len(t) /\ u[i] = t[k + i - Len(s)]
          /\ k + j - Len(s) \in 1..Len(t) /\ u[j] = t[k + j - Len(s)]
      BY <1>4, <2>3, <3>1
    <3> QED
      BY <3>1, <3>2 DEF Increasing
  <2> QED
    BY <1>0, <2>0, <2>1, <2>2, <2>3
<1>6. UpTo(u, n)
  <2> SUFFICES ASSUME NEW i \in 1..Len(u)
               PROVE  u[i] <= n
    BY DEF UpTo
  <2>1. CASE i <= Len(s)
    BY <1>3, <2>1 DEF UpTo
  <2>2. CASE i > Len(s)
    BY <1>4, <2>2 DEF UpTo
  <2> QED
    BY <1>0, <1>2, <2>1, <2>2
<1>7. Precedes(u, k + Len(units), t)
  <2> SUFFICES ASSUME NEW i \in 1..Len(u), NEW j \in 1..Len(t), k + Len(units) < j
               PROVE  u[i] < t[j]
    BY DEF Precedes
  <2>1. CASE i <= Len(s)
    BY <1>1, <1>3, <2>1 DEF Precedes
  <2>2. CASE i > Len(s)
    <3>1. k + i - Len(s) \in 1..Len(t) /\ u[i] = t[k + i - Len(s)]
          /\ k + i - Len(s) <= k + Len(units)
      BY <1>4, <2>2
    <3>2. k + i - Len(s) < j
      BY <1>0, <3>1
    <3> QED
      BY <3>1, <3>2 DEF Increasing
  <2> QED
    BY <1>0, <1>2, <2>1, <2>2
<1> QED
  BY <1>5, <1>6, <1>7

LEMMA KeepOrder ==
  ASSUME NEW t \in Pcm, NEW a \in AudioStates, NEW units \in Pcm, NEW k \in Int,
         NEW n \in Nat, Increasing(t), UpTo(t, n), PieceOf(units, k, t),
         Increasing(a.replay), UpTo(a.replay, n), Precedes(a.replay, k, t)
  PROVE  /\ Increasing(Keep(a, units).replay) /\ UpTo(Keep(a, units).replay, n)
         /\ Precedes(Keep(a, units).replay, k + Len(units), t)
<1>0. a.replay \in Pcm /\ Len(units) \in Nat /\ k + Len(units) \in Int
      /\ k <= k + Len(units)
  BY DEF AudioStates, Pcm
<1>1. Precedes(a.replay, k + Len(units), t)
  BY <1>0, PrecedesFurther
<1>2. CASE Keep(a, units).replay = a.replay
  BY <1>1, <1>2
<1>3. CASE Keep(a, units).replay = a.replay \o units
  BY <1>0, <1>3, JoinOrder
<1>4. Keep(a, units).replay \in {a.replay, a.replay \o units}
  BY DEF Keep, AudioStates
<1> QED
  BY <1>2, <1>3, <1>4

---------------------------------------------------------------------------
(***************************************************************************)
(* Lemmas about the buffers.                                               *)
(***************************************************************************)

LEMMA Lengths ==
  ASSUME NEW ap \in AppStates, NEW au \in AudioStates
  PROVE  /\ ap.taken \in Pcm /\ ap.captured \in Nat
         /\ au.pending \in Pcm /\ au.chunk \in Pcm /\ au.replay \in Pcm
         /\ Len(ap.taken) \in Nat /\ Len(au.pending) \in Nat /\ Len(au.chunk) \in Nat
         /\ Len(au.replay) \in Nat
         /\ PendingAt(ap, au) \in Int /\ ChunkAt(ap, au) \in Int
         /\ PendingAt(ap, au) <= Len(ap.taken)
         /\ ChunkAt(ap, au) <= PendingAt(ap, au)
<1>1. /\ ap.taken \in Pcm /\ ap.captured \in Nat
      /\ au.pending \in Pcm /\ au.chunk \in Pcm /\ au.replay \in Pcm
  BY DEF AppStates, AudioStates
<1>2. Len(ap.taken) \in Nat /\ Len(au.pending) \in Nat /\ Len(au.chunk) \in Nat
      /\ Len(au.replay) \in Nat
  BY <1>1 DEF Pcm
<1>3. PendingAt(ap, au) \in Int /\ PendingAt(ap, au) <= Len(ap.taken)
  <2> DEFINE m == Len(ap.taken)
             n == Len(au.pending)
  <2>1. m \in Nat /\ n \in Nat /\ PendingAt(ap, au) = m - n
    BY <1>2 DEF PendingAt
  <2> HIDE DEF m, n
  <2>2. PendingAt(ap, au) \in Int /\ PendingAt(ap, au) <= m
    BY <2>1
  <2> QED
    BY <2>2 DEF m
<1>4. ChunkAt(ap, au) \in Int /\ ChunkAt(ap, au) <= PendingAt(ap, au)
  BY <1>2, <1>3 DEF ChunkAt
<1> QED
  BY <1>1, <1>2, <1>3, <1>4

\* The capture thread adds a unit, or drops it.
LEMMA EnqueueOrder ==
  ASSUME SharedType, Enqueue, TakenInOrder(app, audio)
  PROVE  /\ app' \in AppStates /\ audio' \in AudioStates
         /\ TakenInOrder(app', audio')
         /\ PendingAt(app', audio') = PendingAt(app, audio)
         /\ ChunkAt(app', audio') = ChunkAt(app, audio)
         /\ \A s \in Pcm, k \in Int : PieceOf(s, k, app.taken) => PieceOf(s, k, app'.taken)
         /\ KeptInOrder(app, audio) => KeptInOrder(app', audio')
         /\ KeptInOrder(app, audio) /\ KeptNext(app, audio) => KeptNext(app', audio')
         /\ ChunkNext(app, audio) => ChunkNext(app', audio')
         /\ audio'.chunk = audio.chunk /\ audio'.replay = audio.replay
         /\ app'.mic = app.mic /\ app'.aborted = app.aborted
         /\ app.mic = "open" /\ ~app.aborted
         /\ UNCHANGED <<pc, net, work, finals>>
<1> DEFINE unit == app.captured + 1
           fits == Len(audio.pending) < PendingMax
           t == app.taken
           u == Append(t, unit)
<1>0. app \in AppStates /\ audio \in AudioStates
  BY DEF SharedType
<1>1. /\ audio' = PendingAppend(audio, unit)
      /\ app' = [app EXCEPT !.captured = unit,
                            !.taken = IF fits THEN Append(@, unit) ELSE @]
      /\ app.mic = "open" /\ ~app.aborted
      /\ UNCHANGED <<pc, net, work, finals>>
  BY DEF Enqueue, Streaming
<1>2. /\ t \in Pcm /\ app.captured \in Nat /\ unit \in Nat
      /\ audio.pending \in Pcm /\ audio.chunk \in Pcm /\ audio.replay \in Pcm
      /\ Len(t) \in Nat /\ Len(audio.pending) \in Nat /\ Len(audio.chunk) \in Nat
      /\ PendingAt(app, audio) \in Int /\ ChunkAt(app, audio) \in Int
  BY <1>0, Lengths
<1>3. /\ Increasing(t) /\ UpTo(t, app.captured)
      /\ PieceOf(audio.pending, PendingAt(app, audio), t)
  BY DEF TakenInOrder
<1>4. /\ u \in Pcm /\ Len(u) = Len(t) + 1
      /\ Increasing(u) /\ UpTo(u, unit)
      /\ \A s \in Pcm, k \in Int : PieceOf(s, k, t) => PieceOf(s, k, u)
      /\ \A s \in Pcm, k \in Int :
           Precedes(s, k, t) /\ UpTo(s, app.captured) => Precedes(s, k, u)
  BY <1>2, <1>3, TakeMore
<1>5. ASSUME NEW s \in Pcm, UpTo(s, app.captured)
      PROVE  UpTo(s, unit)
  <2>1. ASSUME NEW i \in 1..Len(s)
        PROVE  s[i] <= unit
    <3>1. s[i] \in Nat /\ s[i] <= app.captured
      BY <1>5 DEF Pcm, UpTo
    <3> QED
      BY <1>2, <3>1
  <2> QED
    BY <2>1 DEF UpTo
<1>6. CASE fits
  <2>1. /\ app' = [app EXCEPT !.captured = unit, !.taken = u]
        /\ audio' = [audio EXCEPT !.pending = Append(audio.pending, unit)]
    BY <1>1, <1>6 DEF PendingAppend
  <2>2. /\ Append(audio.pending, unit) \in Pcm
        /\ Len(Append(audio.pending, unit)) = Len(audio.pending) + 1
    BY <1>2, AppendProperties DEF Pcm
  <2> HIDE DEF u, unit
  <2>3. /\ app' \in AppStates /\ app'.taken = u /\ app'.captured = unit
        /\ app'.mic = app.mic /\ app'.aborted = app.aborted
    BY <1>0, <1>2, <1>4, <2>1 DEF AppStates
  <2>4. /\ audio' \in AudioStates /\ audio'.pending = Append(audio.pending, unit)
        /\ audio'.chunk = audio.chunk /\ audio'.replay = audio.replay
    BY <1>0, <2>1, <2>2 DEF AudioStates
  <2>5. /\ PendingAt(app', audio') = PendingAt(app, audio)
        /\ ChunkAt(app', audio') = ChunkAt(app, audio)
    <3>1. /\ Len(app'.taken) = Len(app.taken) + 1
          /\ Len(audio'.pending) = Len(audio.pending) + 1
          /\ Len(audio'.chunk) = Len(audio.chunk)
      BY <1>4, <2>2, <2>3, <2>4
    <3>2. PendingAt(app', audio') = PendingAt(app, audio)
      BY <1>2, <3>1 DEF PendingAt
    <3> QED
      BY <3>1, <3>2 DEF ChunkAt
  <2>6. PieceOf(audio'.pending, PendingAt(app, audio), u)
    <3>1. PendingAt(app, audio) + Len(audio.pending) = Len(t)
      BY <1>2 DEF PendingAt
    <3> QED
      BY <1>2, <1>3, <2>4, <3>1, PieceGrows DEF u
  <2>7. TakenInOrder(app', audio')
    BY <1>4, <2>3, <2>5, <2>6 DEF TakenInOrder
  <2>8. KeptInOrder(app, audio) => KeptInOrder(app', audio')
    BY <1>2, <1>4, <1>5, <2>3, <2>4, <2>5 DEF KeptInOrder
  <2>9. KeptInOrder(app, audio) /\ KeptNext(app, audio) => KeptNext(app', audio')
    BY <1>2, <1>4, <2>3, <2>4, <2>5 DEF KeptInOrder, KeptNext
  <2>10. ChunkNext(app, audio) => ChunkNext(app', audio')
    BY <1>2, <1>4, <2>3, <2>4, <2>5 DEF ChunkNext
  <2> QED
    BY <1>1, <1>4, <2>3, <2>4, <2>5, <2>7, <2>8, <2>9, <2>10
<1>7. CASE ~fits
  <2>1. /\ app' = [app EXCEPT !.captured = unit]
        /\ audio' = [audio EXCEPT !.overflowed = TRUE]
    <3>1. app' = [app EXCEPT !.captured = unit, !.taken = @]
      BY <1>1, <1>7
    <3> QED
      BY <1>0, <1>1, <1>7, <3>1 DEF PendingAppend, AppStates
  <2> HIDE DEF u, unit
  <2>3. /\ app' \in AppStates /\ app'.taken = t /\ app'.captured = unit
        /\ app'.mic = app.mic /\ app'.aborted = app.aborted
    BY <1>0, <1>2, <2>1 DEF AppStates
  <2>4. /\ audio' \in AudioStates /\ audio'.pending = audio.pending
        /\ audio'.chunk = audio.chunk /\ audio'.replay = audio.replay
    BY <1>0, <2>1 DEF AudioStates
  <2>5. /\ PendingAt(app', audio') = PendingAt(app, audio)
        /\ ChunkAt(app', audio') = ChunkAt(app, audio)
    BY <2>3, <2>4 DEF PendingAt, ChunkAt
  <2>7. TakenInOrder(app', audio')
    BY <1>2, <1>3, <1>5, <2>3, <2>4, <2>5 DEF TakenInOrder
  <2>8. KeptInOrder(app, audio) => KeptInOrder(app', audio')
    BY <1>2, <1>5, <2>3, <2>4, <2>5 DEF KeptInOrder
  <2> QED
    BY <1>1, <2>3, <2>4, <2>5, <2>7, <2>8 DEF KeptNext, ChunkNext
<1> QED
  BY <1>6, <1>7

\* Whatever happens to the chunk: nothing pending is in order.
LEMMA NothingPending ==
  ASSUME NEW ap \in AppStates, NEW au \in AudioStates, NEW a2 \in AudioStates,
         TakenInOrder(ap, au), a2.pending = <<>>
  PROVE  /\ TakenInOrder(ap, a2) /\ PendingAt(ap, a2) = Len(ap.taken)
         /\ KeptInOrder(ap, au) /\ a2.replay = au.replay => KeptInOrder(ap, a2)
<1>1. /\ ap.taken \in Pcm /\ Len(ap.taken) \in Nat /\ PendingAt(ap, au) \in Int
      /\ Len(au.pending) \in Nat
  BY Lengths
<1>2. PendingAt(ap, a2) = Len(ap.taken) /\ PendingAt(ap, au) <= Len(ap.taken)
  <2>1. Len(a2.pending) = 0
    OBVIOUS
  <2>2. Len(ap.taken) \in Nat /\ Len(au.pending) \in Nat
    BY <1>1
  <2>3. PendingAt(ap, a2) = Len(ap.taken)
    BY <2>1, <2>2 DEF PendingAt
  <2>4. PendingAt(ap, au) <= Len(ap.taken)
    BY Lengths
  <2> QED
    BY <2>3, <2>4
<1>3. PieceOf(a2.pending, PendingAt(ap, a2), ap.taken)
  BY <1>1, <1>2, PieceEmpty
<1>4. TakenInOrder(ap, a2)
  BY <1>3 DEF TakenInOrder
<1>5. KeptInOrder(ap, au) => Precedes(au.replay, Len(ap.taken), ap.taken)
  BY <1>1, <1>2, PrecedesFurther DEF KeptInOrder
<1> QED
  BY <1>2, <1>4, <1>5 DEF KeptInOrder

\* All that is pending joins the chunk.
Swap(a) == [a EXCEPT !.chunk = @ \o a.pending, !.pending = <<>>]

LEMMA SwapOrder ==
  ASSUME NEW ap \in AppStates, NEW au \in AudioStates, TakenInOrder(ap, au),
         NEW a2, a2 = Swap(au)
  PROVE  /\ a2 \in AudioStates /\ a2.pending = <<>> /\ a2.replay = au.replay
         /\ TakenInOrder(ap, a2)
         /\ KeptInOrder(ap, au) => KeptInOrder(ap, a2)
         /\ ChunkAt(ap, a2) = ChunkAt(ap, au)
         /\ ChunkNext(ap, au) => ChunkNext(ap, a2)
         /\ KeptNext(ap, au) => KeptNext(ap, a2)
<1> DEFINE joined == au.chunk \o au.pending
<1>1. /\ ap.taken \in Pcm /\ Len(ap.taken) \in Nat
      /\ au.pending \in Pcm /\ au.chunk \in Pcm
      /\ Len(au.pending) \in Nat /\ Len(au.chunk) \in Nat
      /\ PendingAt(ap, au) \in Int /\ ChunkAt(ap, au) \in Int
  BY Lengths
<1>2. joined \in Pcm /\ Len(joined) = Len(au.chunk) + Len(au.pending)
  BY <1>1, ConcatProperties DEF Pcm
<1>3. <<>> \in Pcm /\ Len(<<>>) = 0
  BY DEF Pcm
<1>4. a2 = [au EXCEPT !.chunk = joined, !.pending = <<>>]
  BY DEF Swap
<1> HIDE DEF joined
<1>5. /\ a2 \in AudioStates /\ a2.pending = <<>> /\ a2.chunk = joined
      /\ a2.replay = au.replay
  BY <1>2, <1>3, <1>4 DEF AudioStates
<1>6. PendingAt(ap, a2) = Len(ap.taken) /\ ChunkAt(ap, a2) = ChunkAt(ap, au)
  <2>1. Len(a2.pending) = 0 /\ Len(a2.chunk) = Len(au.chunk) + Len(au.pending)
    BY <1>2, <1>3, <1>5
  <2>2. PendingAt(ap, a2) = Len(ap.taken)
    BY <1>1, <2>1 DEF PendingAt
  <2>3. Len(ap.taken) \in Nat /\ Len(au.pending) \in Nat /\ Len(au.chunk) \in Nat
    BY <1>1
  <2>4. ChunkAt(ap, a2) = Len(ap.taken) - (Len(au.chunk) + Len(au.pending))
    BY <2>1, <2>2 DEF ChunkAt
  <2>5. ChunkAt(ap, au) = Len(ap.taken) - Len(au.pending) - Len(au.chunk)
    BY DEF ChunkAt, PendingAt
  <2> QED
    BY <2>2, <2>3, <2>4, <2>5
<1>7. /\ TakenInOrder(ap, a2)
      /\ KeptInOrder(ap, au) => KeptInOrder(ap, a2)
  BY <1>5, NothingPending
<1>8. ASSUME ChunkNext(ap, au)
      PROVE  ChunkNext(ap, a2)
  <2>1. ChunkAt(ap, au) + Len(au.chunk) = PendingAt(ap, au)
    BY <1>1 DEF ChunkAt
  <2>2. PieceOf(au.pending, ChunkAt(ap, au) + Len(au.chunk), ap.taken)
    BY <2>1 DEF TakenInOrder
  <2>3. PieceOf(au.chunk, ChunkAt(ap, au), ap.taken)
    BY <1>8 DEF ChunkNext
  <2>4. PieceOf(joined, ChunkAt(ap, au), ap.taken)
    BY <1>1, <2>2, <2>3, PieceJoin DEF joined
  <2> QED
    BY <1>5, <1>6, <2>4 DEF ChunkNext
<1> QED
  BY <1>5, <1>6, <1>7, <1>8 DEF KeptNext

\* The front of the chunk is kept ...
LEMMA FrontKept ==
  ASSUME NEW ap \in AppStates, NEW au \in AudioStates, TakenInOrder(ap, au),
         ChunkNext(ap, au), NEW n \in 0..Len(au.chunk),
         NEW front, front = SubSeq(au.chunk, 1, n)
  PROVE  /\ front \in Pcm /\ Len(front) = n
         /\ PieceOf(front, ChunkAt(ap, au), ap.taken)
         /\ Keep(au, front) \in AudioStates /\ TakenInOrder(ap, Keep(au, front))
         /\ Keep(au, front).pending = au.pending /\ Keep(au, front).chunk = au.chunk
         /\ KeptInOrder(ap, au) /\ KeptNext(ap, au)
              => /\ KeptInOrder(ap, Keep(au, front))
                 /\ Precedes(Keep(au, front).replay, ChunkAt(ap, au) + n, ap.taken)
<1> DEFINE a1 == Keep(au, front)
<1>1. /\ ap.taken \in Pcm /\ ap.captured \in Nat
      /\ au.chunk \in Pcm /\ Len(au.chunk) \in Nat
      /\ PendingAt(ap, au) \in Int /\ ChunkAt(ap, au) \in Int
  BY Lengths
<1>2. PieceOf(au.chunk, ChunkAt(ap, au), ap.taken)
  BY DEF ChunkNext
<1>3. /\ front \in Pcm /\ Len(front) = n /\ PieceOf(front, ChunkAt(ap, au), ap.taken)
  BY <1>1, <1>2, PieceCut
<1>4. a1 \in AudioStates /\ a1.pending = au.pending /\ a1.chunk = au.chunk
  BY <1>3, KeepType
<1>5. ASSUME KeptInOrder(ap, au), KeptNext(ap, au)
      PROVE  /\ Increasing(a1.replay) /\ UpTo(a1.replay, ap.captured)
             /\ Precedes(a1.replay, ChunkAt(ap, au) + n, ap.taken)
  BY <1>1, <1>3, <1>5, KeepOrder DEF KeptInOrder, KeptNext, TakenInOrder
<1> HIDE DEF a1
<1>6. PendingAt(ap, a1) = PendingAt(ap, au)
  BY <1>4 DEF PendingAt
<1>7. TakenInOrder(ap, a1)
  BY <1>4, <1>6 DEF TakenInOrder
<1>8. ChunkAt(ap, au) + n <= PendingAt(ap, au)
  <2> DEFINE m == Len(au.chunk)
  <2>1. m \in Nat /\ n \in Int /\ n <= m /\ ChunkAt(ap, au) = PendingAt(ap, au) - m
    BY <1>1 DEF ChunkAt
  <2> HIDE DEF m
  <2> QED
    BY <1>1, <2>1
<1>9. ASSUME KeptInOrder(ap, au), KeptNext(ap, au)
      PROVE  KeptInOrder(ap, a1)
  <2>1. Precedes(a1.replay, PendingAt(ap, au), ap.taken)
    BY <1>1, <1>5, <1>8, <1>9, PrecedesFurther
  <2> QED
    BY <1>5, <1>6, <1>9, <2>1 DEF KeptInOrder
<1> QED
  BY <1>3, <1>4, <1>5, <1>7, <1>9 DEF a1

\* ... and cut off when it could be sent.
CutFront(a, n) == [a EXCEPT !.chunk = SubSeq(@, n + 1, Len(@))]

LEMMA FrontCut ==
  ASSUME NEW ap \in AppStates, NEW au \in AudioStates,
         ChunkNext(ap, au), NEW n \in 0..Len(au.chunk), NEW a1 \in AudioStates,
         TakenInOrder(ap, a1), a1.pending = au.pending, a1.chunk = au.chunk,
         NEW a2, a2 = CutFront(a1, n)
  PROVE  /\ a2 \in AudioStates /\ TakenInOrder(ap, a2)
         /\ a2.pending = au.pending /\ a2.replay = a1.replay
         /\ Len(a2.chunk) = Len(au.chunk) - n
         /\ ChunkNext(ap, a2) /\ ChunkAt(ap, a2) = ChunkAt(ap, au) + n
         /\ KeptInOrder(ap, a1) => KeptInOrder(ap, a2)
         /\ Precedes(a1.replay, ChunkAt(ap, au) + n, ap.taken) => KeptNext(ap, a2)
<1> DEFINE rest == SubSeq(au.chunk, n + 1, Len(au.chunk))
<1>1. /\ ap.taken \in Pcm /\ au.chunk \in Pcm /\ Len(au.chunk) \in Nat
      /\ PendingAt(ap, au) \in Int /\ ChunkAt(ap, au) \in Int
  BY Lengths
<1>2. PieceOf(au.chunk, ChunkAt(ap, au), ap.taken)
  BY DEF ChunkNext
<1>3. /\ rest \in Pcm /\ Len(rest) = Len(au.chunk) - n
      /\ PieceOf(rest, ChunkAt(ap, au) + n, ap.taken)
  BY <1>1, <1>2, PieceCut
<1>5. a2 = [a1 EXCEPT !.chunk = rest]
  BY DEF CutFront
<1> HIDE DEF rest
<1>6. /\ a2 \in AudioStates /\ a2.pending = au.pending /\ a2.chunk = rest
      /\ a2.replay = a1.replay
  BY <1>3, <1>5 DEF AudioStates
<1>7. /\ PendingAt(ap, a1) = PendingAt(ap, au) /\ PendingAt(ap, a2) = PendingAt(ap, au)
      /\ ChunkAt(ap, a2) = ChunkAt(ap, au) + n
  <2>1. PendingAt(ap, a1) = PendingAt(ap, au) /\ PendingAt(ap, a2) = PendingAt(ap, au)
    BY <1>6 DEF PendingAt
  <2>2. Len(a2.chunk) = Len(au.chunk) - n
    BY <1>3, <1>6
  <2>3. n \in Int /\ Len(au.chunk) \in Nat
    BY <1>1
  <2>5. ChunkAt(ap, a2) = PendingAt(ap, au) - (Len(au.chunk) - n)
    BY <2>1, <2>2 DEF ChunkAt
  <2>6. ChunkAt(ap, au) = PendingAt(ap, au) - Len(au.chunk)
    BY DEF ChunkAt
  <2>7. ChunkAt(ap, a2) = ChunkAt(ap, au) + n
    BY <1>1, <2>3, <2>5, <2>6
  <2> QED
    BY <2>1, <2>7
<1>8. TakenInOrder(ap, a2) /\ ChunkNext(ap, a2)
  BY <1>3, <1>6, <1>7 DEF TakenInOrder, ChunkNext
<1>9. /\ KeptInOrder(ap, a1) => KeptInOrder(ap, a2)
      /\ Precedes(a1.replay, ChunkAt(ap, au) + n, ap.taken) => KeptNext(ap, a2)
  BY <1>6, <1>7 DEF KeptInOrder, KeptNext
<1> QED
  BY <1>3, <1>6, <1>7, <1>8, <1>9

\* After a failure: what is pending is only kept.
LEMMA KeepPendingOrder ==
  ASSUME NEW ap \in AppStates, NEW au \in AudioStates, TakenInOrder(ap, au)
  PROVE  /\ KeepPending(au) \in AudioStates /\ TakenInOrder(ap, KeepPending(au))
         /\ KeepPending(au).pending = <<>> /\ KeepPending(au).chunk = au.chunk
         /\ KeptInOrder(ap, au) => KeptInOrder(ap, KeepPending(au))
<1> DEFINE a1 == Keep(au, au.pending)
<1>1. /\ ap.taken \in Pcm /\ Len(ap.taken) \in Nat /\ ap.captured \in Nat
      /\ au.pending \in Pcm /\ Len(au.pending) \in Nat /\ PendingAt(ap, au) \in Int
      /\ <<>> \in Pcm
  BY Lengths DEF Pcm
<1>2. a1 \in AudioStates /\ a1.pending = au.pending /\ a1.chunk = au.chunk
  BY <1>1, KeepType
<1>3. KeepPending(au) = [a1 EXCEPT !.pending = <<>>]
  BY DEF KeepPending
<1>4. /\ KeepPending(au) \in AudioStates /\ KeepPending(au).pending = <<>>
      /\ KeepPending(au).chunk = au.chunk /\ KeepPending(au).replay = a1.replay
  <2> HIDE DEF a1
  <2> QED
    BY <1>1, <1>2, <1>3 DEF AudioStates
<1>5. /\ TakenInOrder(ap, KeepPending(au))
      /\ PendingAt(ap, KeepPending(au)) = Len(ap.taken)
  BY <1>4, NothingPending
<1>6. ASSUME KeptInOrder(ap, au)
      PROVE  KeptInOrder(ap, KeepPending(au))
  <2>1. /\ Increasing(a1.replay) /\ UpTo(a1.replay, ap.captured)
        /\ Precedes(a1.replay, PendingAt(ap, au) + Len(au.pending), ap.taken)
    BY <1>1, <1>6, KeepOrder DEF KeptInOrder, TakenInOrder
  <2>2. PendingAt(ap, au) + Len(au.pending) = Len(ap.taken)
    BY <1>1 DEF PendingAt
  <2> QED
    BY <1>4, <1>5, <2>1, <2>2 DEF KeptInOrder
<1> QED
  BY <1>4, <1>5, <1>6

\* The first n pending units join the chunk.
Move(a, n) == [a EXCEPT !.chunk = @ \o SubSeq(a.pending, 1, n),
                        !.pending = SubSeq(@, n + 1, Len(@))]

LEMMA MoveOrder ==
  ASSUME NEW ap \in AppStates, NEW au \in AudioStates, TakenInOrder(ap, au),
         NEW n \in 0..Len(au.pending), NEW a2, a2 = Move(au, n)
  PROVE  /\ a2 \in AudioStates /\ a2.replay = au.replay
         /\ TakenInOrder(ap, a2)
         /\ KeptInOrder(ap, au) => KeptInOrder(ap, a2)
         /\ ChunkAt(ap, a2) = ChunkAt(ap, au)
         /\ ChunkNext(ap, au) => ChunkNext(ap, a2)
         /\ KeptNext(ap, au) => KeptNext(ap, a2)
<1> DEFINE front == SubSeq(au.pending, 1, n)
           rest == SubSeq(au.pending, n + 1, Len(au.pending))
           joined == au.chunk \o front
<1>1. /\ ap.taken \in Pcm /\ Len(ap.taken) \in Nat
      /\ au.pending \in Pcm /\ au.chunk \in Pcm
      /\ Len(au.pending) \in Nat /\ Len(au.chunk) \in Nat
      /\ PendingAt(ap, au) \in Int /\ ChunkAt(ap, au) \in Int
  BY Lengths
<1>2. PieceOf(au.pending, PendingAt(ap, au), ap.taken)
  BY DEF TakenInOrder
<1>3. /\ PieceOf(front, PendingAt(ap, au), ap.taken)
      /\ PieceOf(rest, PendingAt(ap, au) + n, ap.taken)
      /\ front \in Pcm /\ Len(front) = n
      /\ rest \in Pcm /\ Len(rest) = Len(au.pending) - n
  BY <1>1, <1>2, PieceCut
<1> HIDE DEF front, rest
<1>4. joined \in Pcm /\ Len(joined) = Len(au.chunk) + n
  BY <1>1, <1>3, ConcatProperties DEF Pcm
<1>5. a2 = [au EXCEPT !.chunk = joined, !.pending = rest]
  BY DEF Move, front, rest
<1> HIDE DEF joined
<1>6. /\ a2 \in AudioStates /\ a2.pending = rest /\ a2.chunk = joined
      /\ a2.replay = au.replay
  BY <1>3, <1>4, <1>5 DEF AudioStates
<1>7. PendingAt(ap, a2) = PendingAt(ap, au) + n /\ ChunkAt(ap, a2) = ChunkAt(ap, au)
  <2>1. Len(a2.pending) = Len(au.pending) - n /\ Len(a2.chunk) = Len(au.chunk) + n
    BY <1>3, <1>4, <1>6
  <2>2. n \in Int
    OBVIOUS
  <2> DEFINE p == Len(au.pending)
             c == Len(au.chunk)
             t == Len(ap.taken)
  <2>3. p \in Nat /\ c \in Nat /\ t \in Nat
    BY <1>1
  <2>4. PendingAt(ap, a2) = t - (p - n) /\ PendingAt(ap, au) = t - p
    BY <2>1 DEF PendingAt
  <2>5. /\ ChunkAt(ap, a2) = PendingAt(ap, a2) - (c + n)
        /\ ChunkAt(ap, au) = PendingAt(ap, au) - c
    BY <2>1 DEF ChunkAt
  <2> HIDE DEF p, c, t
  <2> QED
    BY <2>2, <2>3, <2>4, <2>5
<1>8. TakenInOrder(ap, a2)
  BY <1>3, <1>6, <1>7 DEF TakenInOrder
<1>9. ASSUME KeptInOrder(ap, au)
      PROVE  KeptInOrder(ap, a2)
  <2>1. PendingAt(ap, au) + n \in Int /\ PendingAt(ap, au) <= PendingAt(ap, au) + n
    BY <1>1
  <2>2. Precedes(au.replay, PendingAt(ap, au) + n, ap.taken)
    BY <1>1, <1>9, <2>1, PrecedesFurther DEF KeptInOrder
  <2> QED
    BY <1>6, <1>7, <1>9, <2>2 DEF KeptInOrder
<1>10. ASSUME ChunkNext(ap, au)
       PROVE  ChunkNext(ap, a2)
  <2>1. ChunkAt(ap, au) + Len(au.chunk) = PendingAt(ap, au)
    BY <1>1 DEF ChunkAt
  <2>2. PieceOf(front, ChunkAt(ap, au) + Len(au.chunk), ap.taken)
    BY <1>3, <2>1
  <2>3. PieceOf(au.chunk, ChunkAt(ap, au), ap.taken)
    BY <1>10 DEF ChunkNext
  <2>4. PieceOf(joined, ChunkAt(ap, au), ap.taken)
    BY <1>1, <1>3, <2>2, <2>3, PieceJoin DEF joined
  <2> QED
    BY <1>6, <1>7, <2>4 DEF ChunkNext
<1> QED
  BY <1>6, <1>7, <1>8, <1>9, <1>10 DEF KeptNext

\* DrainTo moves as many units as the chunk has room for.
LEMMA DrainOrder ==
  ASSUME app \in AppStates, audio \in AudioStates, ChunkFits, TakenInOrder(app, audio),
         NEW a2, a2 = DrainToChunk(audio)
  PROVE  /\ a2 \in AudioStates /\ a2.replay = audio.replay
         /\ TakenInOrder(app, a2)
         /\ KeptInOrder(app, audio) => KeptInOrder(app, a2)
         /\ ChunkAt(app, a2) = ChunkAt(app, audio)
         /\ ChunkNext(app, audio) => ChunkNext(app, a2)
         /\ KeptNext(app, audio) => KeptNext(app, a2)
<1> DEFINE take == Smaller(ChunkUnits - Len(audio.chunk), Len(audio.pending))
<1>1. Len(audio.chunk) \in Nat /\ Len(audio.pending) \in Nat
  BY Lengths
<1>2. ChunkUnits - Len(audio.chunk) \in Nat
  BY <1>1, SessionAssumption DEF ChunkFits
<1>3. take \in 0..Len(audio.pending)
  <2>1. take \in Nat /\ take <= Len(audio.pending)
    BY <1>1, <1>2, SmallerIs
  <2> HIDE DEF take
  <2> QED
    BY <1>1, <2>1
<1>4. DrainToChunk(audio) = Move(audio, take)
  BY DEF DrainToChunk, Move
<1> HIDE DEF take
<1>5. a2 = Move(audio, take)
  BY <1>4
<1> QED
  BY <1>3, <1>5, MoveOrder

\* The whole chunk is kept, and then it is empty.
EmptyChunk(a) == [a EXCEPT !.chunk = <<>>]

LEMMA ChunkGone ==
  ASSUME NEW ap \in AppStates, NEW au \in AudioStates, TakenInOrder(ap, au),
         ChunkNext(ap, au), KeptInOrder(ap, au), KeptNext(ap, au)
  PROVE  /\ PieceOf(au.chunk, ChunkAt(ap, au), ap.taken)
         /\ ChunkAt(ap, au) + Len(au.chunk) = PendingAt(ap, au)
         /\ Keep(au, au.chunk) \in AudioStates /\ TakenInOrder(ap, Keep(au, au.chunk))
         /\ Keep(au, au.chunk).pending = au.pending
         /\ PendingAt(ap, Keep(au, au.chunk)) = PendingAt(ap, au)
         /\ KeptInOrder(ap, Keep(au, au.chunk))
<1> DEFINE n == Len(au.chunk)
<1>1. /\ au.chunk \in Pcm /\ n \in Nat /\ PendingAt(ap, au) \in Int
      /\ ChunkAt(ap, au) \in Int
  BY Lengths
<1>2. n \in 0..Len(au.chunk)
  BY <1>1
<1>3. au.chunk = SubSeq(au.chunk, 1, n)
  <2>1. /\ SubSeq(au.chunk, 1, n) \in Pcm /\ Len(SubSeq(au.chunk, 1, n)) = n
        /\ \A i \in 1..n : SubSeq(au.chunk, 1, n)[i] = au.chunk[i]
    BY <1>1, <1>2, CutPcm
  <2> QED
    BY <1>1, <2>1, SeqEqual DEF Pcm
<1>4. ChunkAt(ap, au) + Len(au.chunk) = PendingAt(ap, au)
  BY <1>1 DEF ChunkAt
<1>5. PieceOf(au.chunk, ChunkAt(ap, au), ap.taken)
  BY DEF ChunkNext
<1> HIDE DEF n
<1>6. /\ Keep(au, au.chunk) \in AudioStates /\ TakenInOrder(ap, Keep(au, au.chunk))
      /\ Keep(au, au.chunk).pending = au.pending
  BY <1>2, <1>3, FrontKept
<1>7. KeptInOrder(ap, Keep(au, au.chunk))
  BY <1>2, <1>3, FrontKept
<1> QED
  BY <1>4, <1>5, <1>6, <1>7 DEF PendingAt

LEMMA ChunkEmptied ==
  ASSUME NEW ap \in AppStates, NEW au \in AudioStates, TakenInOrder(ap, au),
         NEW a2, a2 = EmptyChunk(au)
  PROVE  /\ a2 \in AudioStates /\ TakenInOrder(ap, a2)
         /\ a2.pending = au.pending /\ a2.replay = au.replay /\ a2.chunk = <<>>
         /\ PendingAt(ap, a2) = PendingAt(ap, au) /\ ChunkAt(ap, a2) = PendingAt(ap, au)
         /\ ChunkNext(ap, a2)
         /\ KeptInOrder(ap, au) => KeptInOrder(ap, a2) /\ KeptNext(ap, a2)
<1> DEFINE none == <<>>
<1>1. none \in Pcm /\ Len(none) = 0
  BY DEF Pcm
<1>2. a2 = [au EXCEPT !.chunk = none]
  BY DEF EmptyChunk
<1>3. /\ ap.taken \in Pcm /\ PendingAt(ap, au) \in Int
      /\ PendingAt(ap, au) <= Len(ap.taken)
  BY Lengths
<1>4. 0 <= PendingAt(ap, au) /\ Len(ap.taken) \in Nat
  BY Lengths DEF TakenInOrder, PieceOf
<1>5. PieceOf(none, PendingAt(ap, au), ap.taken)
  BY <1>3, <1>4, PieceEmpty
<1> HIDE DEF none
<1>6. /\ a2 \in AudioStates /\ a2.pending = au.pending /\ a2.chunk = none
      /\ a2.replay = au.replay
  BY <1>1, <1>2 DEF AudioStates
<1>7. PendingAt(ap, a2) = PendingAt(ap, au)
  BY <1>6 DEF PendingAt
<1>8. ChunkAt(ap, a2) = PendingAt(ap, au)
  <2>1. Len(a2.chunk) = 0
    BY <1>1, <1>6
  <2>2. ChunkAt(ap, a2) = PendingAt(ap, au) - 0
    BY <1>7, <2>1 DEF ChunkAt
  <2> QED
    BY <1>3, <2>2
<1>9. TakenInOrder(ap, a2) /\ ChunkNext(ap, a2)
  BY <1>5, <1>6, <1>7, <1>8 DEF TakenInOrder, ChunkNext
<1>10. KeptInOrder(ap, au) => KeptInOrder(ap, a2) /\ KeptNext(ap, a2)
  BY <1>6, <1>7, <1>8 DEF KeptInOrder, KeptNext
<1> QED
  BY <1>6, <1>7, <1>8, <1>9, <1>10 DEF none

---------------------------------------------------------------------------
(***************************************************************************)
(* Lemmas about connections.                                               *)
(***************************************************************************)

\* A connection that has the same heard, and is not said to be over.
LEMMA GotMore ==
  ASSUME NEW ap \in AppStates, NEW l, NEW m, l.got \in Pcm, Hears(ap, l),
         NEW units \in Pcm, PieceOf(units, Len(l.got), ap.taken),
         m.got = l.got \o units, ~m.ended
  PROVE  Hears(ap, m) /\ Len(m.got) = Len(l.got) + Len(units)
<1>1. l.got \in Pcm /\ ap.taken \in Pcm /\ 0 + Len(l.got) = Len(l.got)
  BY DEF AppStates, Pcm
<1>2. PieceOf(l.got \o units, 0, ap.taken) /\ Len(l.got \o units) = Len(l.got) + Len(units)
  BY <1>1, PieceJoin DEF Hears
<1> QED
  BY <1>2 DEF Hears

LEMMA HearsMore ==
  ASSUME NEW ap \in AppStates, NEW l \in Links, NEW m \in Links, Hears(ap, l),
         NEW units \in Pcm, PieceOf(units, Len(l.got), ap.taken),
         m.got = l.got \o units, ~m.ended
  PROVE  Hears(ap, m) /\ Len(m.got) = Len(l.got) + Len(units)
  BY GotMore DEF Links

LEMMA UnusedHears ==
  ASSUME NEW ap \in AppStates, NEW au \in AudioStates, NEW l, Unused(l)
  PROVE  Hears(ap, l) /\ HearsReplay(au, l)
<1>1. PieceOf(<<>>, 0, ap.taken) /\ PieceOf(<<>>, 0, au.replay)
  BY Lengths, PieceEmpty
<1> QED
  BY <1>1 DEF Hears, HearsReplay, Unused

\* Nothing is left to be sent: all of the recording has been heard.
LEMMA GotAll ==
  ASSUME NEW ap \in AppStates, NEW au \in AudioStates, NEW l, l.got \in Pcm,
         Hears(ap, l), Len(l.got) = PendingAt(ap, au), au.pending = <<>>
  PROVE  l.got = ap.taken
<1>1. l.got \in Pcm /\ ap.taken \in Pcm /\ Len(ap.taken) \in Nat
  BY Lengths
<1>2. Len(l.got) = Len(ap.taken)
  BY <1>1 DEF PendingAt
<1> QED
  BY <1>1, <1>2, PieceAll DEF Hears

LEMMA HeardAll ==
  ASSUME NEW ap \in AppStates, NEW au \in AudioStates, NEW l \in Links,
         Hears(ap, l), Len(l.got) = PendingAt(ap, au), au.pending = <<>>
  PROVE  l.got = ap.taken
  BY GotAll DEF Links

LEMMA GotInOrder ==
  ASSUME NEW ap \in AppStates, NEW au \in AudioStates, NEW l, l.got \in Pcm,
         TakenInOrder(ap, au), Hears(ap, l)
  PROVE  Increasing(l.got)
<1>1. l.got \in Pcm /\ ap.taken \in Pcm
  BY DEF AppStates
<1> QED
  BY <1>1, PieceIncreasing DEF Hears, TakenInOrder

LEMMA HearsInOrder ==
  ASSUME NEW ap \in AppStates, NEW au \in AudioStates, NEW l \in Links,
         TakenInOrder(ap, au), Hears(ap, l)
  PROVE  Increasing(l.got)
  BY GotInOrder DEF Links

\* A chunk of the replay, or after the last one the end.
ReplayUnits(au, l) ==
  SubSeq(au.replay, Len(l.got) + 1, Smaller(Len(l.got) + ChunkUnits, Len(au.replay)))
ReplayOver(au, l) == Len(l.got) = Len(au.replay)

LEMMA GotReplayMore ==
  ASSUME NEW au \in AudioStates, NEW l, NEW m, l.got \in Pcm, m.got \in Pcm,
         HearsReplay(au, l),
         m.got = l.got \o ReplayUnits(au, l), m.ended = ReplayOver(au, l)
  PROVE  HearsReplay(au, m)
<1> DEFINE done == Len(l.got)
           upTo == Smaller(done + ChunkUnits, Len(au.replay))
           units == SubSeq(au.replay, done + 1, upTo)
<1>0. m.got = l.got \o units /\ m.ended = (done = Len(au.replay))
  BY DEF ReplayUnits, ReplayOver
<1>9. done = Len(l.got) /\ upTo = Smaller(done + ChunkUnits, Len(au.replay))
  OBVIOUS
<1>1. /\ l.got \in Pcm /\ au.replay \in Pcm /\ ChunkUnits \in Nat
      /\ Len(l.got) \in Nat /\ Len(au.replay) \in Nat
      /\ \A i \in 1..Len(au.replay) : au.replay[i] \in Nat
  <2>1. l.got \in Pcm /\ au.replay \in Pcm
    BY DEF AudioStates
  <2>2. /\ Len(l.got) \in Nat /\ Len(au.replay) \in Nat
        /\ \A i \in 1..Len(au.replay) : au.replay[i] \in Nat
    BY <2>1 DEF Pcm
  <2>3. ChunkUnits \in Nat
    BY SessionAssumption
  <2> QED
    BY <2>1, <2>2, <2>3
<1>2. PieceOf(l.got, 0, au.replay) /\ 0 + Len(l.got) = Len(l.got)
  BY <1>1 DEF HearsReplay
<1> HIDE DEF done, upTo
<1>3. done \in Nat /\ done <= Len(au.replay)
  BY <1>1, <1>2, <1>9 DEF PieceOf
<1>4. upTo \in Nat /\ done <= upTo /\ upTo <= Len(au.replay)
  BY <1>1, <1>3, <1>9 DEF Smaller
<1>5. /\ units \in Pcm /\ Len(units) = upTo - done
      /\ \A i \in 1..(upTo - done) : units[i] = au.replay[done + i]
  <2>1. /\ units \in Seq(Nat)
        /\ Len(units) = IF done + 1 <= upTo THEN upTo - (done + 1) + 1 ELSE 0
        /\ \A i \in 1..(upTo - (done + 1) + 1) : units[i] = au.replay[done + 1 + i - 1]
    <3>1. \A i \in (done + 1)..upTo : au.replay[i] \in Nat
      BY <1>1, <1>3, <1>4
    <3>2. done + 1 \in Int /\ upTo \in Int
      BY <1>3, <1>4
    <3> QED
      BY <3>1, <3>2, SubSeqProperties
  <2>2. Len(units) = upTo - done
    BY <1>3, <1>4, <2>1
  <2>3. ASSUME NEW i \in 1..(upTo - done)
        PROVE  units[i] = au.replay[done + i]
    <3>1. i \in 1..(upTo - (done + 1) + 1) /\ done + 1 + i - 1 = done + i
      BY <1>3, <1>4
    <3> QED
      BY <2>1, <3>1
  <2> QED
    BY <2>1, <2>2, <2>3 DEF Pcm
<1> HIDE DEF units
<1>6. PieceOf(units, Len(l.got), au.replay)
  <2>1. 0 <= Len(l.got) /\ Len(l.got) + Len(units) <= Len(au.replay)
    <3> DEFINE m0 == Len(units)
               r == Len(au.replay)
    <3>1. m0 = upTo - done /\ r \in Nat /\ upTo <= r
      BY <1>1, <1>4, <1>5
    <3> HIDE DEF m0, r
    <3>2. 0 <= done /\ done + m0 <= r
      BY <1>3, <1>4, <1>9, <3>1
    <3> QED
      BY <1>9, <3>2 DEF m0, r
  <2>2. \A i \in 1..Len(units) : units[i] = au.replay[Len(l.got) + i]
    BY <1>5, <1>9
  <2> QED
    BY <2>1, <2>2 DEF PieceOf
<1>7. PieceOf(m.got, 0, au.replay)
  BY <1>1, <1>2, <1>5, <1>6, PieceJoin, <1>0
<1>8. ASSUME m.ended
      PROVE  m.got = au.replay
  <2>1. Len(m.got) = Len(l.got) + Len(units) /\ m.got \in Pcm
    <3>1. Len(l.got \o units) = Len(l.got) + Len(units)
      BY <1>1, <1>5, ConcatProperties DEF Pcm
    <3> QED
      BY <1>0, <3>1
  <2>2. Len(m.got) = Len(au.replay)
    <3>1. done = Len(au.replay) /\ upTo = done
      <4>1. done = Len(au.replay)
        BY <1>0, <1>8
      <4> QED
        BY <1>3, <1>4, <4>1
    <3>2. Len(units) = 0
      BY <1>3, <1>5, <3>1
    <3> QED
      BY <1>1, <1>9, <2>1, <3>1, <3>2
  <2> QED
    BY <1>1, <1>7, <2>1, <2>2, PieceAll
<1> QED
  BY <1>7, <1>8 DEF HearsReplay

LEMMA HearsReplayMore ==
  ASSUME NEW au \in AudioStates, NEW l \in Links, NEW m \in Links, HearsReplay(au, l),
         m.got = l.got \o ReplayUnits(au, l), m.ended = ReplayOver(au, l)
  PROVE  HearsReplay(au, m)
  BY GotReplayMore DEF Links

LEMMA QwenLinkOps ==
  ASSUME NEW l \in Links
  PROVE  /\ Unused(Qwen!NoLink) /\ Qwen!NoLink.state = "none"
         /\ Unused(Qwen!FreshLink) /\ Qwen!FreshLink.state = "fresh"
         /\ \A m \in {Qwen!Connecting(l), Qwen!Connected(l), Qwen!Shut(l),
                      Qwen!Aborted(l)} :
              m.got = l.got /\ m.ended = l.ended
         /\ Qwen!Shut(l).state = "closed"
         /\ Qwen!Aborted(l).state = "up" => l.state = "up"
  BY DEF Qwen!NoLink, Qwen!FreshLink, Qwen!Connecting, Qwen!Connected, Qwen!Shut,
         Qwen!Aborted, Unused, Links

LEMMA QwenSent ==
  ASSUME net \in QwenNets, NEW units \in Pcm, NEW last \in BOOLEAN,
         NEW s \in Qwen!Sends(net.link, units, last)
  PROVE  /\ s.link \in Links /\ s.ok \in BOOLEAN
         /\ s.ok => /\ s.link.got = net.link.got \o units /\ s.link.ended = last
                    /\ net.link.state = "up" /\ s.link.state = "up"
         /\ ~s.ok => /\ s.link.got = net.link.got /\ s.link.ended = net.link.ended
                     /\ s.link.state = "up" => net.link.state = "up"
<1> DEFINE sent == [net.link EXCEPT !.got = @ \o units, !.ended = last]
<1>0. s.link \in Links /\ s.ok \in BOOLEAN
  BY QwenSends
<1>1. net.link \in Links
  BY QwenLinks
<1>2. net.link.got \o units \in Pcm
  BY <1>1, PcmTypes DEF Links
<1>3. /\ sent.got = net.link.got \o units /\ sent.ended = last
      /\ sent.state = net.link.state
  BY <1>1, <1>2 DEF Links
<1> HIDE DEF sent
<1>4. CASE s = [link |-> sent, ok |-> TRUE] /\ net.link.state = "up"
  <2>1. s.link = sent /\ s.ok = TRUE
    BY <1>4
  <2> QED
    BY <1>3, <1>4, <2>1, <1>0
<1>5. CASE s = [link |-> net.link, ok |-> FALSE]
  <2>1. s.link = net.link /\ s.ok = FALSE
    BY <1>5
  <2> QED
    BY <2>1, <1>0
<1>6. CASE s = [link |-> Qwen!Shut(net.link), ok |-> FALSE]
  <2>1. s.link = Qwen!Shut(net.link) /\ s.ok = FALSE
    BY <1>6
  <2> QED
    BY <1>1, <1>0, <2>1, QwenLinkOps
<1>7. \/ s = [link |-> sent, ok |-> TRUE] /\ net.link.state = "up"
      \/ s = [link |-> net.link, ok |-> FALSE]
      \/ s = [link |-> Qwen!Shut(net.link), ok |-> FALSE]
  BY DEF sent, Qwen!Sends
<1> QED
  BY <1>4, <1>5, <1>6, <1>7, <1>0

LEMMA DoubaoLinkOps ==
  ASSUME NEW l \in Links
  PROVE  /\ Unused(Doubao!NoLink) /\ Doubao!NoLink.state = "none"
         /\ Unused(Doubao!FreshLink) /\ Doubao!FreshLink.state = "fresh"
         /\ \A m \in {Doubao!Connecting(l), Doubao!Connected(l), Doubao!Shut(l),
                      Doubao!Aborted(l)} :
              m.got = l.got /\ m.ended = l.ended
         /\ Doubao!Shut(l).state = "closed"
         /\ Doubao!Aborted(l).state = "up" => l.state = "up"
  BY DEF Doubao!NoLink, Doubao!FreshLink, Doubao!Connecting, Doubao!Connected, Doubao!Shut,
         Doubao!Aborted, Unused, Links

LEMMA DoubaoSent ==
  ASSUME net \in DoubaoNets, NEW units \in Pcm, NEW last \in BOOLEAN,
         NEW s \in Doubao!Sends(net.link, units, last)
  PROVE  /\ s.link \in Links /\ s.ok \in BOOLEAN
         /\ s.ok => /\ s.link.got = net.link.got \o units /\ s.link.ended = last
                    /\ net.link.state = "up" /\ s.link.state = "up"
         /\ ~s.ok => /\ s.link.got = net.link.got /\ s.link.ended = net.link.ended
                     /\ s.link.state = "up" => net.link.state = "up"
<1> DEFINE sent == [net.link EXCEPT !.got = @ \o units, !.ended = last]
<1>0. s.link \in Links /\ s.ok \in BOOLEAN
  BY DoubaoSends
<1>1. net.link \in Links
  BY DoubaoLinks
<1>2. net.link.got \o units \in Pcm
  BY <1>1, PcmTypes DEF Links
<1>3. /\ sent.got = net.link.got \o units /\ sent.ended = last
      /\ sent.state = net.link.state
  BY <1>1, <1>2 DEF Links
<1> HIDE DEF sent
<1>4. CASE s = [link |-> sent, ok |-> TRUE] /\ net.link.state = "up"
  <2>1. s.link = sent /\ s.ok = TRUE
    BY <1>4
  <2> QED
    BY <1>3, <1>4, <2>1, <1>0
<1>5. CASE s = [link |-> net.link, ok |-> FALSE]
  <2>1. s.link = net.link /\ s.ok = FALSE
    BY <1>5
  <2> QED
    BY <2>1, <1>0
<1>6. CASE s = [link |-> Doubao!Shut(net.link), ok |-> FALSE]
  <2>1. s.link = Doubao!Shut(net.link) /\ s.ok = FALSE
    BY <1>6
  <2> QED
    BY <1>1, <1>0, <2>1, DoubaoLinkOps
<1>7. \/ s = [link |-> sent, ok |-> TRUE] /\ net.link.state = "up"
      \/ s = [link |-> net.link, ok |-> FALSE]
      \/ s = [link |-> Doubao!Shut(net.link), ok |-> FALSE]
  BY DEF sent, Doubao!Sends
<1> QED
  BY <1>4, <1>5, <1>6, <1>7, <1>0

LEMMA QwenAudioLinkOps ==
  ASSUME NEW l \in Links
  PROVE  /\ Unused(QwenAudio!NoLink) /\ QwenAudio!NoLink.state = "none"
         /\ Unused(QwenAudio!FreshLink) /\ QwenAudio!FreshLink.state = "fresh"
         /\ \A m \in {QwenAudio!Connecting(l), QwenAudio!Connected(l), QwenAudio!Shut(l),
                      QwenAudio!Aborted(l)} :
              m.got = l.got /\ m.ended = l.ended
         /\ QwenAudio!Shut(l).state = "closed"
         /\ QwenAudio!Aborted(l).state = "up" => l.state = "up"
  BY DEF QwenAudio!NoLink, QwenAudio!FreshLink, QwenAudio!Connecting, QwenAudio!Connected,
         QwenAudio!Shut,
         QwenAudio!Aborted, Unused, Links

LEMMA QwenAudioSent ==
  ASSUME net \in QwenAudioNets, NEW units \in Pcm, NEW last \in BOOLEAN,
         NEW s \in QwenAudio!Sends(net.link, units, last)
  PROVE  /\ s.link \in Links /\ s.ok \in BOOLEAN
         /\ s.ok => /\ s.link.got = net.link.got \o units /\ s.link.ended = last
                    /\ net.link.state = "up" /\ s.link.state = "up"
         /\ ~s.ok => /\ s.link.got = net.link.got /\ s.link.ended = net.link.ended
                     /\ s.link.state = "up" => net.link.state = "up"
<1> DEFINE sent == [net.link EXCEPT !.got = @ \o units, !.ended = last]
<1>0. s.link \in Links /\ s.ok \in BOOLEAN
  BY QwenAudioSends
<1>1. net.link \in Links
  BY QwenAudioLinks
<1>2. net.link.got \o units \in Pcm
  BY <1>1, PcmTypes DEF Links
<1>3. /\ sent.got = net.link.got \o units /\ sent.ended = last
      /\ sent.state = net.link.state
  BY <1>1, <1>2 DEF Links
<1> HIDE DEF sent
<1>4. CASE s = [link |-> sent, ok |-> TRUE] /\ net.link.state = "up"
  <2>1. s.link = sent /\ s.ok = TRUE
    BY <1>4
  <2> QED
    BY <1>3, <1>4, <2>1, <1>0
<1>5. CASE s = [link |-> net.link, ok |-> FALSE]
  <2>1. s.link = net.link /\ s.ok = FALSE
    BY <1>5
  <2> QED
    BY <2>1, <1>0
<1>6. CASE s = [link |-> QwenAudio!Shut(net.link), ok |-> FALSE]
  <2>1. s.link = QwenAudio!Shut(net.link) /\ s.ok = FALSE
    BY <1>6
  <2> QED
    BY <1>1, <1>0, <2>1, QwenAudioLinkOps
<1>7. \/ s = [link |-> sent, ok |-> TRUE] /\ net.link.state = "up"
      \/ s = [link |-> net.link, ok |-> FALSE]
      \/ s = [link |-> QwenAudio!Shut(net.link), ok |-> FALSE]
  BY DEF sent, QwenAudio!Sends
<1> QED
  BY <1>4, <1>5, <1>6, <1>7, <1>0

LEMMA QwenFreeLinkOps ==
  ASSUME NEW l \in Links
  PROVE  /\ Unused(QwenFree!NoLink) /\ QwenFree!NoLink.state = "none"
         /\ Unused(QwenFree!FreshLink) /\ QwenFree!FreshLink.state = "fresh"
         /\ \A m \in {QwenFree!Connecting(l), QwenFree!Connected(l), QwenFree!Shut(l),
                      QwenFree!Aborted(l)} :
              m.got = l.got /\ m.ended = l.ended
         /\ QwenFree!Shut(l).state = "closed"
         /\ QwenFree!Aborted(l).state = "up" => l.state = "up"
  BY DEF QwenFree!NoLink, QwenFree!FreshLink, QwenFree!Connecting, QwenFree!Connected,
         QwenFree!Shut,
         QwenFree!Aborted, Unused, Links

LEMMA QwenFreeSent ==
  ASSUME net \in QwenFreeNets, NEW units \in Pcm, NEW last \in BOOLEAN,
         NEW s \in QwenFree!Sends(net.link, units, last)
  PROVE  /\ s.link \in Links /\ s.ok \in BOOLEAN
         /\ s.ok => /\ s.link.got = net.link.got \o units /\ s.link.ended = last
                    /\ net.link.state = "up" /\ s.link.state = "up"
         /\ ~s.ok => /\ s.link.got = net.link.got /\ s.link.ended = net.link.ended
                     /\ s.link.state = "up" => net.link.state = "up"
<1> DEFINE sent == [net.link EXCEPT !.got = @ \o units, !.ended = last]
<1>0. s.link \in Links /\ s.ok \in BOOLEAN
  BY QwenFreeSends
<1>1. net.link \in Links
  BY QwenFreeLinks
<1>2. net.link.got \o units \in Pcm
  BY <1>1, PcmTypes DEF Links
<1>3. /\ sent.got = net.link.got \o units /\ sent.ended = last
      /\ sent.state = net.link.state
  BY <1>1, <1>2 DEF Links
<1> HIDE DEF sent
<1>4. CASE s = [link |-> sent, ok |-> TRUE] /\ net.link.state = "up"
  <2>1. s.link = sent /\ s.ok = TRUE
    BY <1>4
  <2> QED
    BY <1>3, <1>4, <2>1, <1>0
<1>5. CASE s = [link |-> net.link, ok |-> FALSE]
  <2>1. s.link = net.link /\ s.ok = FALSE
    BY <1>5
  <2> QED
    BY <2>1, <1>0
<1>6. CASE s = [link |-> QwenFree!Shut(net.link), ok |-> FALSE]
  <2>1. s.link = QwenFree!Shut(net.link) /\ s.ok = FALSE
    BY <1>6
  <2> QED
    BY <1>1, <1>0, <2>1, QwenFreeLinkOps
<1>7. \/ s = [link |-> sent, ok |-> TRUE] /\ net.link.state = "up"
      \/ s = [link |-> net.link, ok |-> FALSE]
      \/ s = [link |-> QwenFree!Shut(net.link), ok |-> FALSE]
  BY DEF sent, QwenFree!Sends
<1> QED
  BY <1>4, <1>5, <1>6, <1>7, <1>0

---------------------------------------------------------------------------
(***************************************************************************)
(* Lemmas about the application's steps.                                   *)
(***************************************************************************)

Open(ap) == ap.mic = "open" /\ ~ap.aborted

\* The capture thread's step leaves what was heard and what is in hand.
LEMMA EnqueueGot ==
  ASSUME SharedType, Enqueue, TakenInOrder(app, audio), NEW l, l.got \in Pcm
  PROVE  /\ Hears(app, l) => Hears(app', l)
         /\ HearsReplay(audio, l) => HearsReplay(audio', l)
         /\ InHand(app, audio, l) => InHand(app', audio', l)
<1>1. /\ app' \in AppStates /\ audio' \in AudioStates
      /\ ChunkAt(app', audio') = ChunkAt(app, audio)
      /\ \A s \in Pcm, k \in Int : PieceOf(s, k, app.taken) => PieceOf(s, k, app'.taken)
      /\ ChunkNext(app, audio) => ChunkNext(app', audio')
      /\ audio'.replay = audio.replay
      /\ app.mic = "open" /\ ~app.aborted
  BY EnqueueOrder
<1>3. Hears(app, l) => Hears(app', l)
  BY <1>1 DEF Hears
<1>4. InHand(app, audio, l) => InHand(app', audio', l)
  BY <1>1 DEF InHand
<1> QED
  BY <1>1, <1>3, <1>4 DEF HearsReplay

LEMMA EnqueueHears ==
  ASSUME SharedType, Enqueue, TakenInOrder(app, audio), NEW l \in Links
  PROVE  /\ Hears(app, l) => Hears(app', l)
         /\ HearsReplay(audio, l) => HearsReplay(audio', l)
         /\ InHand(app, audio, l) => InHand(app', audio', l)
  BY EnqueueGot DEF Links

\* A step of the application that takes nothing in: Start(), StopInput(),
\* Abort() and the end of the worker.
TakesNothing(ap, ap2) ==
  ap2.taken = ap.taken /\ ap2.captured = ap.captured

LEMMA TakesNothingLeaves ==
  ASSUME NEW ap, NEW ap2, NEW au, TakesNothing(ap, ap2)
  PROVE  /\ TakenInOrder(ap, au) => TakenInOrder(ap2, au)
         /\ KeptInOrder(ap, au) => KeptInOrder(ap2, au)
         /\ ChunkNext(ap, au) => ChunkNext(ap2, au)
         /\ KeptNext(ap, au) => KeptNext(ap2, au)
         /\ PendingAt(ap2, au) = PendingAt(ap, au)
         /\ ChunkAt(ap2, au) = ChunkAt(ap, au)
         /\ \A l : InHand(ap, au, l) => InHand(ap2, au, l)
         /\ \A l : Hears(ap, l) /\ (Open(ap2) => Open(ap)) => Hears(ap2, l)
<1>1. PendingAt(ap2, au) = PendingAt(ap, au) /\ ChunkAt(ap2, au) = ChunkAt(ap, au)
  BY DEF TakesNothing, ChunkAt, PendingAt
<1>2. ASSUME NEW l, Hears(ap, l), Open(ap2) => Open(ap)
      PROVE  Hears(ap2, l)
  BY <1>2 DEF TakesNothing, Hears, Open
<1> QED
  BY <1>1, <1>2
     DEF TakesNothing, TakenInOrder, KeptInOrder, ChunkNext, KeptNext, InHand

LEMMA StartTakesNothing ==
  ASSUME app \in AppStates, NEW first, StartAt(first)
  PROVE  TakesNothing(app, app')
  BY DEF StartAt, TakesNothing, AppStates

LEMMA ApplicationTakesNothing ==
  ASSUME app \in AppStates, StopInput \/ Stopped \/ \E closed : AbortWith(closed)
  PROVE  /\ TakesNothing(app, app')
         /\ Open(app') => Open(app)
<1>1. CASE StopInput
  BY <1>1 DEF StopInput, TakesNothing, AppStates, Open
<1>2. CASE \E closed : AbortWith(closed)
  BY <1>2 DEF AbortWith, TakesNothing, AppStates, Open
<1>3. CASE Stopped
  BY <1>3 DEF Stopped, TakesNothing, AppStates, Open
<1> QED
  BY <1>1, <1>2, <1>3

\* Before Start() there is nothing.
LEMMA NothingYet ==
  ASSUME NEW ap, NEW au, NEW l, ap.taken = <<>>, au.pending = <<>>, au.chunk = <<>>,
         au.replay = <<>>, Unused(l)
  PROVE  /\ TakenInOrder(ap, au) /\ KeptInOrder(ap, au)
         /\ ChunkNext(ap, au) /\ KeptNext(ap, au)
         /\ InHand(ap, au, l) /\ Hears(ap, l) /\ HearsReplay(au, l)
<1>1. Len(<<>>) = 0
  OBVIOUS
<1>2. PendingAt(ap, au) = 0
  BY <1>1 DEF PendingAt
<1>3. ChunkAt(ap, au) = 0
  <2>1. Len(au.chunk) = 0
    BY <1>1
  <2>2. ChunkAt(ap, au) = 0 - 0
    BY <1>2, <2>1, Zenon DEF ChunkAt
  <2> QED
    BY <2>2
<1>4. PieceOf(<<>>, 0, <<>>) /\ Increasing(<<>>) /\ UpTo(<<>>, ap.captured)
      /\ Precedes(<<>>, 0, <<>>)
  BY <1>1 DEF PieceOf, Increasing, UpTo, Precedes
<1> QED
  BY <1>1, <1>2, <1>3, <1>4 DEF TakenInOrder, KeptInOrder, ChunkNext, KeptNext, InHand,
     Hears, HearsReplay, Unused

---------------------------------------------------------------------------
(***************************************************************************)
(* Volcengine.  A chunk is put into the replay buffer before it is sent,   *)
(* so a send that fails leaves what is kept in order.                      *)
(***************************************************************************)

VolcAfterInput ==
  {"tail", "flush", "vad", "silence", "wait", "join", "close", "decide",
   "replayOpen", "replaySend", "replayWait"}
VolcBefore == {"idle", "opening", "reopen"}
VolcSending == {"idle", "opening", "reopen", "send", "buffer", "tail"}
VolcReplayed == {"replaySend", "replayWait", "dispatch", "stop", "ended"}

VolcHeardPcm(ap, au, n) ==
  /\ TakenInOrder(ap, au) /\ KeptInOrder(ap, au)
  /\ Hears(ap, n.main) /\ HearsReplay(au, n.retry)

VolcPlace(p, ap, au, n) ==
  /\ p \in VolcAfterInput => ~Open(ap)
  /\ p \in VolcBefore => Unused(n.main) /\ InHand(ap, au, n.main)
  /\ p \notin VolcReplayed => Unused(n.retry)
  /\ p \in VolcSending => ChunkNext(ap, au) /\ KeptNext(ap, au)
  /\ p \in {"send", "tail"} /\ Volcengine!Usable(n.main)
       => Len(n.main.got) = ChunkAt(ap, au)
  /\ p = "buffer" => au.chunk = <<>> /\ ~Volcengine!Usable(n.main)
  /\ p = "flush" /\ Volcengine!Usable(n.main) => Len(n.main.got) = PendingAt(ap, au)
  /\ p = "vad" /\ Volcengine!Usable(n.main) => n.main.got = ap.taken

VolcPcm(p, ap, au, n) == VolcHeardPcm(ap, au, n) /\ VolcPlace(p, ap, au, n)

LEMMA VolcPcmTypes ==
  ASSUME VolcInv
  PROVE  /\ app \in AppStates /\ audio \in AudioStates /\ net \in VolcNets
         /\ SharedType /\ ChunkFits
         /\ net.main \in VolcSessions /\ net.retry \in VolcSessions
         /\ net.main.got \in Pcm /\ net.retry.got \in Pcm
         /\ pc = "idle" <=> app.mic = "idle"
  BY DEF VolcInv, Shared, SharedType, VolcNets, VolcSessions, Lifecycle

\* A receive takes nothing back, and a connection it breaks is not used again.
LEMMA VolcListens ==
  ASSUME NEW sess \in VolcSessions, NEW r \in Volcengine!Received(sess)
  PROVE  /\ r.sess \in VolcSessions
         /\ r.sess.got = sess.got /\ r.sess.ended = sess.ended
         /\ Volcengine!Usable(r.sess) => Volcengine!Usable(sess)
<1> DEFINE broken == [sess EXCEPT !.connected = FALSE]
           told == [sess EXCEPT !.told = TRUE]
<1>1. /\ broken.got = sess.got /\ broken.ended = sess.ended /\ ~broken.connected
      /\ told.got = sess.got /\ told.ended = sess.ended
      /\ told.ws = sess.ws /\ told.connected = sess.connected
      /\ told.forceAbort = sess.forceAbort
  BY DEF VolcSessions
<1>2. r.sess \in VolcSessions
  BY VolcReceived
<1> HIDE DEF broken, told
<1>3. r.sess \in {sess, broken, told}
  <2>1. CASE r \in Volcengine!FrameTexts(sess)
    <3>1. CASE \E t \in Volcengine!Prefixes(sess.got) \cup {Volcengine!ErrorText} :
                 r = [sess |-> sess, text |-> t]
      BY <3>1
    <3>2. CASE \E t \in Volcengine!Prefixes(sess.got) :
                 r = [sess |-> told, text |-> t]
      BY <3>2
    <3> QED
      BY <2>1, <3>1, <3>2 DEF Volcengine!FrameTexts, told
  <2>2. CASE r = [sess |-> sess, text |-> Volcengine!NoText]
    BY <2>2
  <2>3. CASE r = [sess |-> broken, text |-> Volcengine!NoText]
    BY <2>3
  <2> QED
    BY <2>1, <2>2, <2>3 DEF Volcengine!Received, broken
<1> QED
  BY <1>1, <1>2, <1>3 DEF Volcengine!Usable

\* The service has what was sent, or the connection is not used again.
VolcTook(sess, units, last, m) ==
  Volcengine!Usable(sess) /\ m.got = sess.got \o units /\ m.ended = last
VolcMissed(sess, m) ==
  ~Volcengine!Usable(m) /\ m.got = sess.got /\ m.ended = sess.ended

LEMMA VolcTells ==
  ASSUME NEW sess \in VolcSessions, NEW units \in Pcm, NEW last, last \in BOOLEAN,
         NEW r \in Volcengine!Sent(sess, units, last)
  PROVE  /\ r.sess \in VolcSessions
         /\ VolcTook(sess, units, last, r.sess) \/ VolcMissed(sess, r.sess)
<1> DEFINE taken == [sess EXCEPT !.got = @ \o units, !.ended = last]
           lost == [sess EXCEPT !.ws = FALSE, !.connected = FALSE]
<1>1. sess.got \o units \in Pcm
  BY PcmTypes DEF VolcSessions
<1>2. /\ taken \in VolcSessions
      /\ taken.got = sess.got \o units /\ taken.ended = last
  BY <1>1 DEF VolcSessions
<1>3. /\ lost \in VolcSessions /\ ~lost.ws
      /\ lost.got = sess.got /\ lost.ended = sess.ended
  BY DEF VolcSessions
<1>4. r.sess \in VolcSessions
  BY VolcSent
<1> HIDE DEF taken, lost
<1>5. CASE ~Volcengine!Usable(sess) /\ r = [sess |-> sess, text |-> Volcengine!NoText]
  BY <1>4, <1>5 DEF VolcMissed
<1>6. CASE r = [sess |-> lost, text |-> Volcengine!NoText]
  BY <1>3, <1>4, <1>6 DEF Volcengine!Usable, VolcMissed
<1>7. CASE Volcengine!Usable(sess) /\ r = [sess |-> taken, text |-> Volcengine!NoText]
  BY <1>2, <1>4, <1>7 DEF VolcTook
<1>8. CASE Volcengine!Usable(sess) /\ r \in Volcengine!Received(taken)
  BY <1>2, <1>4, <1>8, VolcListens DEF VolcTook
<1>9. \/ ~Volcengine!Usable(sess) /\ r = [sess |-> sess, text |-> Volcengine!NoText]
      \/ r = [sess |-> lost, text |-> Volcengine!NoText]
      \/ Volcengine!Usable(sess) /\ r = [sess |-> taken, text |-> Volcengine!NoText]
      \/ Volcengine!Usable(sess) /\ r \in Volcengine!Received(taken)
  BY DEF Volcengine!Sent, taken, lost
<1> QED
  BY <1>5, <1>6, <1>7, <1>8, <1>9

\* The same of a send that is not the last one.
LEMMA VolcTellsMore ==
  ASSUME NEW sess \in VolcSessions, NEW units \in Pcm,
         NEW r \in Volcengine!Sent(sess, units, FALSE)
  PROVE  \/ /\ Volcengine!Usable(sess)
            /\ r.sess.got = sess.got \o units /\ r.sess.ended = FALSE
         \/ /\ ~Volcengine!Usable(r.sess)
            /\ r.sess.got = sess.got /\ r.sess.ended = sess.ended
<1>1. VolcTook(sess, units, FALSE, r.sess) \/ VolcMissed(sess, r.sess)
  BY VolcTells
<1> QED
  BY <1>1 DEF VolcTook, VolcMissed

\* A connection still in use has what was sent.
LEMMA VolcTold ==
  ASSUME NEW sess \in VolcSessions, NEW units \in Pcm, NEW last, last \in BOOLEAN,
         NEW r \in Volcengine!Sent(sess, units, last), Volcengine!Usable(r.sess)
  PROVE  /\ r.sess \in VolcSessions
         /\ r.sess.got = sess.got \o units /\ r.sess.ended = last
<1>1. /\ r.sess \in VolcSessions
      /\ VolcTook(sess, units, last, r.sess) \/ VolcMissed(sess, r.sess)
  BY VolcTells
<1> QED
  BY <1>1 DEF VolcTook, VolcMissed

\* Sending no PCM adds none.
LEMMA VolcTellsNoPcm ==
  ASSUME NEW sess \in VolcSessions, NEW none, none = <<>>, NEW last, last \in BOOLEAN,
         NEW r \in Volcengine!Sent(sess, none, last)
  PROVE  /\ r.sess.got = sess.got
         /\ Volcengine!Usable(sess) \/ r.sess.ended = sess.ended
<1>1. none \in Pcm /\ sess.got \in Pcm
  BY DEF Pcm, VolcSessions
<1>2. sess.got \o none = sess.got
  BY <1>1 DEF Pcm
<1>3. VolcTook(sess, none, last, r.sess) \/ VolcMissed(sess, r.sess)
  BY <1>1, VolcTells
<1> QED
  BY <1>2, <1>3 DEF VolcTook, VolcMissed

LEMMA VolcOpens ==
  ASSUME NEW sess \in VolcSessions
  PROVE  Unused(Volcengine!Opened(sess)) /\ Volcengine!Opened(sess) \in VolcSessions
<1>1. Volcengine!Opened(sess) \in VolcSessions
  BY VolcOpened
<1> QED
  BY <1>1 DEF VolcSessions, Volcengine!Opened, Unused

\* No PCM is moved, and both connections have heard the same.
LEMMA VolcSamePcm ==
  ASSUME VolcPcm(pc, app, audio, net), UNCHANGED <<app, audio>>,
         net'.main.got = net.main.got, net'.main.ended = net.main.ended,
         net'.retry.got = net.retry.got, net'.retry.ended = net.retry.ended,
         VolcPlace(pc', app', audio', net')
  PROVE  VolcPcm(pc', app', audio', net')
  BY DEF VolcPcm, VolcHeardPcm, Hears, HearsReplay

LEMMA VolcOpenOkPcm ==
  ASSUME VolcInv, VolcPcm(pc, app, audio, net), Volcengine!OpenOk
  PROVE  VolcPcm(pc', app', audio', net')
<1>1. /\ net' = [net EXCEPT !.main = Volcengine!Opened(@),
                            !.drain = IF net.mode = "stream" THEN "main" ELSE "off"]
      /\ pc = "opening" /\ pc' = "send" /\ UNCHANGED <<app, audio>>
  BY DEF Volcengine!OpenOk
<1>2. net'.main = Volcengine!Opened(net.main) /\ net'.retry = net.retry
  BY <1>1, VolcPcmTypes DEF VolcNets
<1>3. Unused(net.main) /\ Unused(net'.main) /\ InHand(app, audio, net.main)
  BY <1>1, <1>2, VolcPcmTypes, VolcOpens DEF VolcPcm, VolcPlace, VolcBefore
<1>4. VolcPlace(pc', app', audio', net')
  BY <1>1, <1>2, <1>3
     DEF VolcPcm, VolcPlace, Unused, InHand, VolcAfterInput, VolcBefore, VolcSending,
         VolcReplayed
<1>5. net'.main.got = net.main.got /\ net'.main.ended = net.main.ended
  BY <1>2, <1>3, VolcPcmTypes, VolcOpens DEF Unused, VolcSessions
<1> QED
  BY <1>1, <1>2, <1>4, <1>5, VolcSamePcm

LEMMA VolcOpeningPcm ==
  ASSUME VolcInv, VolcPcm(pc, app, audio, net),
         Volcengine!OpenFailed \/ Volcengine!Reopen \/ Volcengine!OpenGivenUp
  PROVE  VolcPcm(pc', app', audio', net')
<1>1. /\ pc \in {"opening", "reopen"} /\ pc' \in {"opening", "reopen", "stop", "dispatch"}
      /\ UNCHANGED <<app, audio>>
  BY DEF Volcengine!OpenFailed, Volcengine!Reopen, Volcengine!OpenGivenUp,
         Volcengine!Conclude
<1>2. net'.main = net.main /\ net'.retry = net.retry
  BY VolcPcmTypes
     DEF VolcNets, Volcengine!OpenFailed, Volcengine!Reopen, Volcengine!OpenGivenUp
<1>3. VolcPlace(pc', app', audio', net')
  BY <1>1, <1>2
     DEF VolcPcm, VolcPlace, VolcAfterInput, VolcBefore, VolcSending, VolcReplayed
<1> QED
  BY <1>1, <1>2, <1>3, VolcSamePcm

\* A chunk goes out: it is kept, and the service has it or the connection is lost.
LEMMA VolcSendFullPcm ==
  ASSUME VolcInv, VolcPcm(pc, app, audio, net), Volcengine!SendFull
  PROVE  VolcPcm(pc', app', audio', net')
<1> DEFINE a == DrainToChunk(audio)
           units == a.chunk
<1>0. /\ app \in AppStates /\ audio \in AudioStates /\ net \in VolcNets
      /\ net.main \in VolcSessions /\ net.main.got \in Pcm
  BY VolcPcmTypes
<1>1. pc = "send" /\ UNCHANGED app /\ ~net.main.forceAbort
  BY DEF Volcengine!SendFull, Volcengine!ForceAbort
<1>2. /\ TakenInOrder(app, audio) /\ KeptInOrder(app, audio)
      /\ ChunkNext(app, audio) /\ KeptNext(app, audio)
      /\ Hears(app, net.main) /\ Unused(net.retry)
      /\ Volcengine!Usable(net.main) => Len(net.main.got) = ChunkAt(app, audio)
  BY <1>1 DEF VolcPcm, VolcHeardPcm, VolcPlace, VolcSending, VolcReplayed
<1>3. /\ a \in AudioStates /\ TakenInOrder(app, a) /\ KeptInOrder(app, a)
      /\ ChunkAt(app, a) = ChunkAt(app, audio)
      /\ ChunkNext(app, a) /\ KeptNext(app, a)
  BY <1>0, <1>2, VolcPcmTypes, DrainOrder
<1>4. units \in Pcm
  BY <1>3 DEF AudioStates
<1>5. /\ audio' = EmptyChunk(Keep(a, units))
      /\ \E r \in Volcengine!Sent(net.main, units, FALSE) :
           /\ net' = Volcengine!AfterSend(r)
           /\ pc' = IF r.sess.ws /\ r.sess.connected THEN "send"
                    ELSE IF Volcengine!Streaming THEN "buffer" ELSE "tail"
  BY <1>0, <1>3, <1>4, VolcBase DEF Volcengine!SendFull, EmptyChunk
<1> HIDE DEF a
<1>6. /\ PieceOf(units, ChunkAt(app, a), app.taken)
      /\ ChunkAt(app, a) + Len(units) = PendingAt(app, a)
      /\ Keep(a, units) \in AudioStates /\ TakenInOrder(app, Keep(a, units))
      /\ PendingAt(app, Keep(a, units)) = PendingAt(app, a)
      /\ KeptInOrder(app, Keep(a, units))
  BY <1>0, <1>3, ChunkGone
<1>7. /\ audio' \in AudioStates /\ TakenInOrder(app, audio') /\ audio'.chunk = <<>>
      /\ ChunkAt(app, audio') = PendingAt(app, a) /\ ChunkNext(app, audio')
  <2> HIDE DEF units
  <2> QED
    BY <1>0, <1>5, <1>6, ChunkEmptied
<1>8. KeptInOrder(app, audio') /\ KeptNext(app, audio')
  <2> HIDE DEF units
  <2> QED
    BY <1>0, <1>5, <1>6, ChunkEmptied
<1> HIDE DEF units
<1>9. PICK r \in Volcengine!Sent(net.main, units, FALSE) :
        /\ net' = Volcengine!AfterSend(r)
        /\ pc' = IF r.sess.ws /\ r.sess.connected THEN "send"
                 ELSE IF Volcengine!Streaming THEN "buffer" ELSE "tail"
  BY <1>5
<1>10. /\ r.sess \in VolcSessions
       /\ \/ /\ Volcengine!Usable(net.main)
             /\ r.sess.got = net.main.got \o units /\ r.sess.ended = FALSE
          \/ /\ ~Volcengine!Usable(r.sess)
             /\ r.sess.got = net.main.got /\ r.sess.ended = net.main.ended
       /\ r.sess.forceAbort = net.main.forceAbort
  BY <1>0, <1>4, VolcTells, VolcTellsMore, VolcSent
<1>11. net'.main = r.sess /\ net'.retry = net.retry
  BY <1>0, <1>9 DEF VolcNets, Volcengine!AfterSend
<1>12. /\ Hears(app, net'.main)
       /\ Volcengine!Usable(net'.main) => Len(net'.main.got) = ChunkAt(app, audio')
  <2>1. CASE /\ Volcengine!Usable(net.main)
             /\ r.sess.got = net.main.got \o units /\ r.sess.ended = FALSE
    <3>1. PieceOf(units, Len(net.main.got), app.taken)
      BY <1>2, <1>3, <1>6, <2>1
    <3>2. net'.main.got = net.main.got \o units /\ ~net'.main.ended
      BY <1>11, <2>1
    <3>3. /\ Hears(app, net'.main)
          /\ Len(net'.main.got) = Len(net.main.got) + Len(units)
      BY <1>0, <1>2, <1>4, <3>1, <3>2, GotMore
    <3> QED
      BY <1>2, <1>3, <1>6, <1>7, <2>1, <3>3
  <2>2. CASE /\ ~Volcengine!Usable(r.sess)
             /\ r.sess.got = net.main.got /\ r.sess.ended = net.main.ended
    BY <1>2, <1>11, <2>2 DEF Hears
  <2> QED
    BY <1>10, <2>1, <2>2
<1>13. HearsReplay(audio', net'.retry)
  BY <1>0, <1>2, <1>7, <1>11, UnusedHears
<1>14. /\ pc' \in {"send", "buffer", "tail"}
       /\ pc' = "tail" => ~Open(app)
       /\ pc' = "buffer" => ~Volcengine!Usable(net'.main)
  BY <1>9, <1>11 DEF Volcengine!Usable, Volcengine!Streaming, Open
<1>15. VolcPlace(pc', app', audio', net')
  BY <1>1, <1>2, <1>7, <1>8, <1>11, <1>12, <1>14
     DEF VolcPlace, VolcAfterInput, VolcBefore, VolcSending, VolcReplayed
<1> QED
  BY <1>1, <1>7, <1>8, <1>12, <1>13, <1>15 DEF VolcPcm, VolcHeardPcm

LEMMA VolcGatherPcm ==
  ASSUME VolcInv, VolcPcm(pc, app, audio, net), Volcengine!Gather
  PROVE  VolcPcm(pc', app', audio', net')
<1>0. /\ app \in AppStates /\ audio \in AudioStates
  BY VolcPcmTypes
<1>1. /\ pc = "send" /\ pc' = IF Volcengine!Streaming THEN "send" ELSE "tail"
      /\ UNCHANGED <<app, net>> /\ audio' = DrainToChunk(audio)
  BY <1>0, VolcBase DEF Volcengine!Gather
<1>2. /\ TakenInOrder(app, audio) /\ KeptInOrder(app, audio)
      /\ ChunkNext(app, audio) /\ KeptNext(app, audio)
      /\ Hears(app, net.main) /\ Unused(net.retry)
      /\ Volcengine!Usable(net.main) => Len(net.main.got) = ChunkAt(app, audio)
  BY <1>1 DEF VolcPcm, VolcHeardPcm, VolcPlace, VolcSending, VolcReplayed
<1>3. /\ audio' \in AudioStates /\ TakenInOrder(app, audio') /\ KeptInOrder(app, audio')
      /\ ChunkAt(app, audio') = ChunkAt(app, audio)
      /\ ChunkNext(app, audio') /\ KeptNext(app, audio')
  BY <1>0, <1>1, <1>2, VolcPcmTypes, DrainOrder
<1>4. HearsReplay(audio', net.retry)
  BY <1>0, <1>2, <1>3, UnusedHears
<1>5. pc' \in {"send", "tail"} /\ (pc' = "tail" => ~Open(app))
  BY <1>1 DEF Volcengine!Streaming, Open
<1>6. VolcPlace(pc', app', audio', net')
  BY <1>1, <1>2, <1>3, <1>5
     DEF VolcPlace, VolcAfterInput, VolcBefore, VolcSending, VolcReplayed
<1> QED
  BY <1>1, <1>2, <1>3, <1>4, <1>6 DEF VolcPcm, VolcHeardPcm

LEMMA VolcKeepalivePcm ==
  ASSUME VolcInv, VolcPcm(pc, app, audio, net), Volcengine!KeepaliveLost
  PROVE  VolcPcm(pc', app', audio', net')
<1> DEFINE none == <<>>
<1>0. /\ app \in AppStates /\ audio \in AudioStates /\ net \in VolcNets
      /\ net.main \in VolcSessions /\ net.main.got \in Pcm
      /\ none \in Pcm
  BY VolcPcmTypes, VolcTexts
<1>1. /\ pc = "send" /\ pc' = pc /\ UNCHANGED <<app, audio>>
      /\ \E r \in Volcengine!Sent(net.main, none, FALSE) :
           net' = [net EXCEPT !.main = r.sess]
  BY DEF Volcengine!KeepaliveLost
<1>2. net.main.got \o none = net.main.got
  BY <1>0 DEF Pcm
<1> HIDE DEF none
<1>3. PICK r \in Volcengine!Sent(net.main, none, FALSE) :
        net' = [net EXCEPT !.main = r.sess]
  BY <1>1
<1>4. net'.main = r.sess /\ net'.retry = net.retry
  BY <1>0, <1>3 DEF VolcNets
<1>5. /\ net'.main.got = net.main.got
      /\ Volcengine!Usable(net'.main) => Volcengine!Usable(net.main)
      /\ net'.main.ended => net.main.ended
  <2>1. \/ /\ Volcengine!Usable(net.main)
           /\ r.sess.got = net.main.got \o none /\ r.sess.ended = FALSE
        \/ /\ ~Volcengine!Usable(r.sess)
           /\ r.sess.got = net.main.got /\ r.sess.ended = net.main.ended
    BY <1>0, VolcTellsMore
  <2> QED
    BY <1>2, <1>4, <2>1
<1>6. VolcPlace(pc', app', audio', net')
  BY <1>1, <1>4, <1>5
     DEF VolcPcm, VolcPlace, VolcAfterInput, VolcBefore, VolcSending, VolcReplayed
<1> QED
  BY <1>1, <1>4, <1>5, <1>6 DEF VolcPcm, VolcHeardPcm, Hears, HearsReplay

LEMMA VolcSendAbortedPcm ==
  ASSUME VolcInv, VolcPcm(pc, app, audio, net), Volcengine!SendAborted
  PROVE  VolcPcm(pc', app', audio', net')
<1>1. /\ pc = "send" /\ pc' = "tail" /\ UNCHANGED <<app, audio, net>>
      /\ net.main.forceAbort
  BY DEF Volcengine!SendAborted, Volcengine!ForceAbort
<1>2. ~Open(app)
  BY <1>1 DEF VolcInv, Open
<1>3. VolcPlace(pc', app', audio', net')
  BY <1>1, <1>2
     DEF VolcPcm, VolcPlace, VolcAfterInput, VolcBefore, VolcSending, VolcReplayed
<1> QED
  BY <1>1, <1>3, VolcSamePcm

LEMMA VolcBufferPcm ==
  ASSUME VolcInv, VolcPcm(pc, app, audio, net), Volcengine!Buffer
  PROVE  VolcPcm(pc', app', audio', net')
<1>0. app \in AppStates /\ audio \in AudioStates
  BY VolcPcmTypes
<1>1. /\ pc = "buffer" /\ UNCHANGED <<app, net>>
      /\ \/ audio' = KeepPending(audio) /\ pc' = pc
         \/ /\ pc' = "tail" /\ audio' = audio
            /\ ~(Volcengine!Streaming /\ ~net.main.forceAbort)
  BY <1>0, VolcBase DEF Volcengine!Buffer, Volcengine!ForceAbort
<1>2. /\ TakenInOrder(app, audio) /\ KeptInOrder(app, audio)
      /\ Hears(app, net.main) /\ Unused(net.retry)
      /\ audio.chunk = <<>> /\ ~Volcengine!Usable(net.main)
  BY <1>1 DEF VolcPcm, VolcHeardPcm, VolcPlace, VolcReplayed
<1>3. CASE audio' = KeepPending(audio) /\ pc' = pc
  <2>1. /\ audio' \in AudioStates /\ TakenInOrder(app, audio')
        /\ audio'.chunk = <<>> /\ KeptInOrder(app, audio')
    BY <1>0, <1>2, <1>3, KeepPendingOrder
  <2>2. audio' = EmptyChunk(audio')
    BY <2>1 DEF EmptyChunk, AudioStates
  <2>3. ChunkNext(app, audio') /\ KeptNext(app, audio')
    BY <1>0, <2>1, <2>2, ChunkEmptied
  <2>4. HearsReplay(audio', net.retry)
    BY <1>0, <1>2, <2>1, UnusedHears
  <2>5. VolcPlace(pc', app', audio', net')
    BY <1>1, <1>2, <1>3, <2>1, <2>3
       DEF VolcPlace, VolcAfterInput, VolcBefore, VolcSending, VolcReplayed
  <2> QED
    BY <1>1, <1>2, <2>1, <2>4, <2>5 DEF VolcPcm, VolcHeardPcm
<1>4. CASE /\ pc' = "tail" /\ audio' = audio
           /\ ~(Volcengine!Streaming /\ ~net.main.forceAbort)
  <2>1. ~Open(app)
    BY <1>1, <1>4 DEF VolcInv, Volcengine!Streaming, Open
  <2>2. VolcPlace(pc', app', audio', net')
    BY <1>1, <1>2, <1>4, <2>1
       DEF VolcPcm, VolcPlace, VolcAfterInput, VolcBefore, VolcSending, VolcReplayed
  <2> QED
    BY <1>1, <1>4, <2>2, VolcSamePcm
<1> QED
  BY <1>1, <1>3, <1>4

\* What is left of the chunk goes out after the input is over.
LEMMA VolcSendChunkLeftPcm ==
  ASSUME VolcInv, VolcPcm(pc, app, audio, net), Volcengine!SendChunkLeft
  PROVE  VolcPcm(pc', app', audio', net')
<1> DEFINE rest == audio.chunk
<1>0. /\ app \in AppStates /\ audio \in AudioStates /\ net \in VolcNets
      /\ net.main \in VolcSessions /\ net.main.got \in Pcm /\ rest \in Pcm
  BY VolcPcmTypes DEF AudioStates
<1>1. /\ pc = "tail" /\ pc' = "flush" /\ UNCHANGED app
      /\ \/ (net.main.forceAbort \/ rest = <<>>) /\ audio' = audio /\ net' = net
         \/ /\ audio' = Keep(audio, rest)
            /\ \E r \in Volcengine!Sent(net.main, rest, FALSE) :
                 net' = Volcengine!AfterSend(r)
  BY <1>0, VolcBase
     DEF Volcengine!SendChunkLeft, Volcengine!SendRest, Volcengine!ForceAbort
<1>2. /\ TakenInOrder(app, audio) /\ KeptInOrder(app, audio)
      /\ ChunkNext(app, audio) /\ KeptNext(app, audio)
      /\ Hears(app, net.main) /\ Unused(net.retry) /\ ~Open(app)
      /\ Volcengine!Usable(net.main) => Len(net.main.got) = ChunkAt(app, audio)
  BY <1>1
     DEF VolcPcm, VolcHeardPcm, VolcPlace, VolcSending, VolcReplayed, VolcAfterInput
<1>3. /\ PieceOf(rest, ChunkAt(app, audio), app.taken)
      /\ ChunkAt(app, audio) + Len(rest) = PendingAt(app, audio)
      /\ Keep(audio, rest) \in AudioStates /\ TakenInOrder(app, Keep(audio, rest))
      /\ PendingAt(app, Keep(audio, rest)) = PendingAt(app, audio)
      /\ KeptInOrder(app, Keep(audio, rest))
  BY <1>0, <1>2, ChunkGone
<1>4. CASE (net.main.forceAbort \/ rest = <<>>) /\ audio' = audio /\ net' = net
  <2>1. Volcengine!Usable(net.main) => Len(net.main.got) = PendingAt(app, audio)
    <3>1. CASE Volcengine!Usable(net.main)
      <4>1. Len(rest) = 0
        BY <1>4, <3>1 DEF Volcengine!Usable
      <4>2. ChunkAt(app, audio) \in Int
        BY <1>0, Lengths
      <4> QED
        BY <1>2, <1>3, <3>1, <4>1, <4>2
    <3> QED
      BY <3>1
  <2>2. VolcPlace(pc', app', audio', net')
    BY <1>1, <1>2, <1>4, <2>1
       DEF VolcPlace, VolcAfterInput, VolcBefore, VolcSending, VolcReplayed
  <2> QED
    BY <1>1, <1>4, <2>2, VolcSamePcm
<1>5. CASE /\ audio' = Keep(audio, rest)
           /\ \E r \in Volcengine!Sent(net.main, rest, FALSE) :
                net' = Volcengine!AfterSend(r)
  <2> HIDE DEF rest
  <2>1. PICK r \in Volcengine!Sent(net.main, rest, FALSE) :
          net' = Volcengine!AfterSend(r)
    BY <1>5
  <2>2. \/ /\ Volcengine!Usable(net.main)
           /\ r.sess.got = net.main.got \o rest /\ r.sess.ended = FALSE
        \/ /\ ~Volcengine!Usable(r.sess)
           /\ r.sess.got = net.main.got /\ r.sess.ended = net.main.ended
    BY <1>0, VolcTellsMore
  <2>3. net'.main = r.sess /\ net'.retry = net.retry
    BY <1>0, <2>1 DEF VolcNets, Volcengine!AfterSend
  <2>4. /\ Hears(app, net'.main)
        /\ Volcengine!Usable(net'.main) => Len(net'.main.got) = PendingAt(app, audio')
    <3>1. CASE /\ Volcengine!Usable(net.main)
               /\ r.sess.got = net.main.got \o rest /\ r.sess.ended = FALSE
      <4>1. PieceOf(rest, Len(net.main.got), app.taken)
        BY <1>2, <1>3, <3>1
      <4>2. net'.main.got = net.main.got \o rest /\ ~net'.main.ended
        BY <2>3, <3>1
      <4>3. /\ Hears(app, net'.main)
            /\ Len(net'.main.got) = Len(net.main.got) + Len(rest)
        BY <1>0, <1>2, <4>1, <4>2, GotMore
      <4> QED
        BY <1>2, <1>3, <1>5, <3>1, <4>3
    <3>2. CASE /\ ~Volcengine!Usable(r.sess)
               /\ r.sess.got = net.main.got /\ r.sess.ended = net.main.ended
      BY <1>2, <2>3, <3>2 DEF Hears
    <3> QED
      BY <2>2, <3>1, <3>2
  <2>5. HearsReplay(audio', net'.retry)
    BY <1>0, <1>2, <1>3, <1>5, <2>3, UnusedHears
  <2>6. VolcPlace(pc', app', audio', net')
    BY <1>1, <1>2, <2>3, <2>4
       DEF VolcPlace, VolcAfterInput, VolcBefore, VolcSending, VolcReplayed
  <2> QED
    BY <1>1, <1>3, <1>5, <2>4, <2>5, <2>6 DEF VolcPcm, VolcHeardPcm
<1> QED
  BY <1>1, <1>4, <1>5

\* What is left of the pending PCM goes out after it.
LEMMA VolcSendPendingLeftPcm ==
  ASSUME VolcInv, VolcPcm(pc, app, audio, net), Volcengine!SendPendingLeft
  PROVE  VolcPcm(pc', app', audio', net')
<1> DEFINE rest == audio.pending
           cut == [audio EXCEPT !.pending = <<>>]
<1>0. /\ app \in AppStates /\ audio \in AudioStates /\ net \in VolcNets
      /\ net.main \in VolcSessions /\ net.main.got \in Pcm /\ rest \in Pcm
  BY VolcPcmTypes DEF AudioStates
<1>1. cut \in AudioStates
  BY <1>0, VolcTexts DEF AudioStates
<1>2. Keep(cut, rest) = KeepPending(audio) /\ (rest = <<>> => cut = KeepPending(audio))
  BY <1>0 DEF Keep, KeepPending, AudioStates
<1>3. /\ pc = "flush" /\ pc' = "vad" /\ UNCHANGED app
      /\ \/ net.main.forceAbort /\ audio' = audio /\ net' = net
         \/ rest = <<>> /\ audio' = KeepPending(audio) /\ net' = net
         \/ /\ audio' = KeepPending(audio)
            /\ \E r \in Volcengine!Sent(net.main, rest, FALSE) :
                 net' = Volcengine!AfterSend(r)
  <2>1. pc = "flush" /\ pc' = "vad" /\ UNCHANGED app
    BY DEF Volcengine!SendPendingLeft, Volcengine!SendRest
  <2>2. Volcengine!Keep(cut, rest) = Keep(cut, rest)
           /\ Volcengine!Keep(audio, rest) = Keep(audio, rest)
    BY <1>0, <1>1, VolcBase
  <2>3. CASE net.main.forceAbort
    BY <2>1, <2>3
       DEF Volcengine!SendPendingLeft, Volcengine!SendRest, Volcengine!ForceAbort
  <2>4. CASE ~net.main.forceAbort
    <3>1. Volcengine!SendRest(rest, cut, "vad")
      BY <2>4 DEF Volcengine!SendPendingLeft, Volcengine!ForceAbort
    <3> HIDE DEF rest, cut
    <3>2. \/ rest = <<>> /\ audio' = cut /\ net' = net
          \/ /\ audio' = Volcengine!Keep(cut, rest)
             /\ \E r \in Volcengine!Sent(net.main, rest, FALSE) :
                  net' = Volcengine!AfterSend(r)
      BY <2>4, <3>1 DEF Volcengine!SendRest, Volcengine!ForceAbort
    <3> QED
      BY <1>2, <2>1, <2>2, <3>2
  <2> QED
    BY <2>3, <2>4
<1>4. /\ TakenInOrder(app, audio) /\ KeptInOrder(app, audio)
      /\ Hears(app, net.main) /\ Unused(net.retry) /\ ~Open(app)
      /\ Volcengine!Usable(net.main) => Len(net.main.got) = PendingAt(app, audio)
  BY <1>3 DEF VolcPcm, VolcHeardPcm, VolcPlace, VolcReplayed, VolcAfterInput
<1>5. CASE net.main.forceAbort /\ audio' = audio /\ net' = net
  <2>1. VolcPlace(pc', app', audio', net')
    BY <1>3, <1>4, <1>5
       DEF VolcPlace, VolcAfterInput, VolcBefore, VolcSending, VolcReplayed,
           Volcengine!Usable
  <2> QED
    BY <1>3, <1>5, <2>1, VolcSamePcm
<1>6. CASE audio' = KeepPending(audio)
  <2>1. /\ audio' \in AudioStates /\ TakenInOrder(app, audio')
        /\ audio'.pending = <<>> /\ KeptInOrder(app, audio')
    BY <1>0, <1>4, <1>6, KeepPendingOrder
  <2>2. PendingAt(app, audio') = Len(app.taken)
    BY <1>0, <1>4, <2>1, NothingPending
  <2>3. HearsReplay(audio', net.retry)
    BY <1>0, <1>4, <2>1, UnusedHears
  <2>4. PendingAt(app, audio) + Len(rest) = Len(app.taken)
    <3> DEFINE t == Len(app.taken)
               p == Len(audio.pending)
    <3>1. t \in Nat /\ p \in Nat /\ PendingAt(app, audio) = t - p
      BY <1>0, Lengths DEF PendingAt
    <3> HIDE DEF t, p
    <3>2. PendingAt(app, audio) + p = t
      BY <3>1
    <3> QED
      BY <3>2 DEF t, p
  <2>5. CASE rest = <<>> /\ net' = net
    <3>1. Volcengine!Usable(net.main) => net.main.got = app.taken
      <4>1. CASE Volcengine!Usable(net.main)
        BY <1>0, <1>4, <2>5, <4>1, GotAll
      <4> QED
        BY <4>1
    <3>2. VolcPlace(pc', app', audio', net')
      BY <1>3, <1>4, <2>5, <3>1
         DEF VolcPlace, VolcAfterInput, VolcBefore, VolcSending, VolcReplayed
    <3> QED
      BY <1>3, <1>4, <2>1, <2>3, <2>5, <3>2 DEF VolcPcm, VolcHeardPcm
  <2>6. CASE \E r \in Volcengine!Sent(net.main, rest, FALSE) :
               net' = Volcengine!AfterSend(r)
    <3>0. PieceOf(rest, PendingAt(app, audio), app.taken)
      BY <1>4 DEF TakenInOrder
    <3> HIDE DEF rest
    <3>1. PICK r \in Volcengine!Sent(net.main, rest, FALSE) :
            net' = Volcengine!AfterSend(r)
      BY <2>6
    <3>2. \/ /\ Volcengine!Usable(net.main)
             /\ r.sess.got = net.main.got \o rest /\ r.sess.ended = FALSE
          \/ /\ ~Volcengine!Usable(r.sess)
             /\ r.sess.got = net.main.got /\ r.sess.ended = net.main.ended
      BY <1>0, VolcTellsMore
    <3>3. net'.main = r.sess /\ net'.retry = net.retry
      BY <1>0, <3>1 DEF VolcNets, Volcengine!AfterSend
    <3>4. /\ Hears(app, net'.main)
          /\ Volcengine!Usable(net'.main) => net'.main.got = app.taken
      <4>1. CASE /\ Volcengine!Usable(net.main)
                 /\ r.sess.got = net.main.got \o rest /\ r.sess.ended = FALSE
        <5>1. PieceOf(rest, Len(net.main.got), app.taken)
          BY <1>4, <3>0, <4>1
        <5>2. net'.main.got = net.main.got \o rest /\ ~net'.main.ended
          BY <3>3, <4>1
        <5>3. /\ Hears(app, net'.main)
              /\ Len(net'.main.got) = Len(net.main.got) + Len(rest)
          BY <1>0, <1>4, <5>1, <5>2, GotMore
        <5>4. Len(net'.main.got) = PendingAt(app, audio')
          BY <1>4, <2>2, <2>4, <4>1, <5>3
        <5>5. net'.main.got \in Pcm
          BY <1>0, <5>2, PcmTypes
        <5>6. net'.main.got = app.taken
          BY <1>0, <2>1, <5>3, <5>4, <5>5, GotAll
        <5> QED
          BY <5>3, <5>6
      <4>2. CASE /\ ~Volcengine!Usable(r.sess)
                 /\ r.sess.got = net.main.got /\ r.sess.ended = net.main.ended
        BY <1>4, <3>3, <4>2 DEF Hears
      <4> QED
        BY <3>2, <4>1, <4>2
    <3>5. VolcPlace(pc', app', audio', net')
      BY <1>3, <1>4, <3>3, <3>4
         DEF VolcPlace, VolcAfterInput, VolcBefore, VolcSending, VolcReplayed
    <3> QED
      BY <1>3, <2>1, <2>3, <3>3, <3>4, <3>5 DEF VolcPcm, VolcHeardPcm
  <2> QED
    BY <1>3, <1>4, <1>5, <1>6, <2>5, <2>6
<1> QED
  BY <1>3, <1>5, <1>6

\* The last packet: a connection in use has heard all of the recording.
LEMMA VolcSendLastPcm ==
  ASSUME VolcInv, VolcPcm(pc, app, audio, net), Volcengine!SendLast
  PROVE  VolcPcm(pc', app', audio', net')
<1> DEFINE none == <<>>
           last == TRUE
<1>0. /\ app \in AppStates /\ audio \in AudioStates /\ net \in VolcNets
      /\ net.main \in VolcSessions /\ net.main.got \in Pcm
      /\ none \in Pcm /\ last \in BOOLEAN
  BY VolcPcmTypes, VolcTexts
<1>1. /\ pc = "vad" /\ pc' \in {"wait", "close"} /\ UNCHANGED <<app, audio>>
      /\ \E r \in Volcengine!Sent(net.main, none, last) :
           net' = [Volcengine!AfterSend(r) EXCEPT !.drainStop = (net.mode = "stream")]
  BY DEF Volcengine!SendLast
<1>2. none = <<>>
  OBVIOUS
<1> HIDE DEF none, last
<1>3. PICK r \in Volcengine!Sent(net.main, none, last) :
        net' = [Volcengine!AfterSend(r) EXCEPT !.drainStop = (net.mode = "stream")]
  BY <1>1
<1>4. net'.main = r.sess /\ net'.retry = net.retry
  BY <1>0, <1>3 DEF VolcNets, Volcengine!AfterSend
<1>5. /\ r.sess.got = net.main.got
      /\ Volcengine!Usable(net.main) \/ r.sess.ended = net.main.ended
  BY <1>0, <1>2, VolcTellsNoPcm
<1>6. /\ Hears(app, net.main) /\ ~Open(app) /\ Unused(net.retry)
      /\ Volcengine!Usable(net.main) => net.main.got = app.taken
  BY <1>1 DEF VolcPcm, VolcHeardPcm, VolcPlace, VolcReplayed, VolcAfterInput
<1>7. Hears(app, net'.main)
  BY <1>4, <1>5, <1>6 DEF Hears, Open
<1>8. VolcPlace(pc', app', audio', net')
  BY <1>1, <1>4, <1>6
     DEF VolcPlace, VolcAfterInput, VolcBefore, VolcSending, VolcReplayed
<1> QED
  BY <1>1, <1>4, <1>7, <1>8 DEF VolcPcm, VolcHeardPcm

\* Closing, waiting and concluding: the connections have heard the same.
LEMMA VolcConcludesPcm ==
  ASSUME VolcInv, VolcPcm(pc, app, audio, net),
         \/ Volcengine!LocalSilence \/ Volcengine!SilenceReported \/ Volcengine!DrainWaited
         \/ Volcengine!DrainJoined \/ Volcengine!CloseSession \/ Dispatch
  PROVE  VolcPcm(pc', app', audio', net')
<1>0. net \in VolcNets /\ net.main \in VolcSessions /\ net.main.connected \in BOOLEAN
  BY VolcPcmTypes DEF VolcSessions
<1>1. /\ UNCHANGED <<app, audio>>
      /\ pc \in VolcAfterInput \cup {"dispatch"}
      /\ pc' \in {"silence", "join", "decide", "dispatch", "stop"}
      /\ pc \in {"vad", "silence", "wait", "join", "close", "dispatch"}
      /\ pc = "dispatch" => pc' = "stop"
  BY DEF Volcengine!LocalSilence, Volcengine!SilenceReported, Volcengine!DrainWaited,
         Volcengine!DrainJoined, Volcengine!CloseSession, Dispatch, Volcengine!Conclude,
         VolcAfterInput
<1>2. /\ net'.retry = net.retry
      /\ net'.main.got = net.main.got /\ net'.main.ended = net.main.ended
  <2>1. CASE Volcengine!LocalSilence
    <3> DEFINE main == [net.main EXCEPT !.forceAbort = TRUE, !.ws = FALSE]
    <3>1. net' = [net EXCEPT !.main = main, !.drainStop = TRUE]
      BY <1>0, <2>1 DEF Volcengine!LocalSilence, VolcNets, VolcSessions
    <3>2. main.got = net.main.got /\ main.ended = net.main.ended
      BY <1>0 DEF VolcSessions
    <3> HIDE DEF main
    <3> QED
      BY <1>0, <3>1, <3>2 DEF VolcNets
  <2>2. CASE Volcengine!DrainWaited
    <3> DEFINE main == [net.main EXCEPT !.forceAbort = net.main.connected, !.ws = FALSE]
    <3>1. net' = [net EXCEPT !.main = main, !.closedByPeer = ~net.main.connected]
      BY <1>0, <2>2 DEF Volcengine!DrainWaited, VolcNets, VolcSessions
    <3>2. main.got = net.main.got /\ main.ended = net.main.ended
      BY <1>0 DEF VolcSessions
    <3> HIDE DEF main
    <3> QED
      BY <1>0, <3>1, <3>2 DEF VolcNets
  <2>3. CASE Volcengine!SilenceReported \/ Volcengine!DrainJoined
    <3> DEFINE main == [net.main EXCEPT !.connected = FALSE]
    <3>1. net' = [net EXCEPT !.main = main]
      BY <1>0, <2>3
         DEF Volcengine!SilenceReported, Volcengine!DrainJoined, VolcNets, VolcSessions
    <3>2. main.got = net.main.got /\ main.ended = net.main.ended
      BY <1>0 DEF VolcSessions
    <3> HIDE DEF main
    <3> QED
      BY <1>0, <3>1, <3>2 DEF VolcNets
  <2>4. CASE Volcengine!CloseSession
    <3> DEFINE main == [net.main EXCEPT !.ws = FALSE, !.connected = FALSE]
    <3>1. PICK r \in Volcengine!Received(net.main) :
            net' = [net EXCEPT
                      !.heard = IF net.main.ws THEN r.text ELSE Volcengine!NoText,
                      !.main = main]
      BY <1>0, <2>4 DEF Volcengine!CloseSession, VolcNets, VolcSessions
    <3>2. main.got = net.main.got /\ main.ended = net.main.ended
      BY <1>0 DEF VolcSessions
    <3> HIDE DEF main
    <3> QED
      BY <1>0, <3>1, <3>2 DEF VolcNets
  <2>5. CASE Dispatch
    BY <2>5 DEF Dispatch
  <2> QED
    BY <2>1, <2>2, <2>3, <2>4, <2>5
<1>3. VolcPlace(pc', app', audio', net')
  BY <1>1, <1>2
     DEF VolcPcm, VolcPlace, VolcAfterInput, VolcBefore, VolcSending, VolcReplayed
<1> QED
  BY <1>1, <1>2, <1>3, VolcSamePcm

\* A verdict touches neither connection.
LEMMA VolcSettles ==
  ASSUME net \in VolcNets, NEW w, NEW text, NEW replayed, NEW closedEmpty,
         Volcengine!Settle(w, text, replayed, closedEmpty)
  PROVE  /\ pc' \in {"stop", "dispatch"}
         /\ net'.main = net.main /\ net'.retry = net.retry
<1> DEFINE remembered == text \notin {Volcengine!NoText, Volcengine!ErrorText}
<1>1. net' = [net EXCEPT !.remembered = remembered]
      /\ pc' = IF app.aborted THEN "stop" ELSE "dispatch"
  BY DEF Volcengine!Settle, Volcengine!Conclude
<1> HIDE DEF remembered
<1> QED
  BY <1>1 DEF VolcNets

LEMMA VolcVerdictPcm ==
  ASSUME VolcInv, VolcPcm(pc, app, audio, net),
         \/ Volcengine!Decide \/ Volcengine!ReplayOpenFailed \/ Volcengine!ReplayAnswered
  PROVE  VolcPcm(pc', app', audio', net')
<1>0. net \in VolcNets
  BY VolcPcmTypes
<1>1. /\ UNCHANGED <<app, audio>> /\ pc \in {"decide", "replayOpen", "replayWait"}
      /\ pc \in VolcAfterInput
  BY DEF Volcengine!Decide, Volcengine!ReplayOpenFailed, Volcengine!ReplayAnswered,
         VolcAfterInput
<1>2. /\ net'.main = net.main /\ net'.retry = net.retry
      /\ \/ pc' \in {"stop", "dispatch"}
         \/ pc' = "replayOpen" /\ pc # "replayWait"
  <2>1. CASE Volcengine!Decide
    <3>1. \/ /\ net' = [net EXCEPT !.opens = 0]
             /\ pc = "decide" /\ pc' = "replayOpen"
          \/ Volcengine!Settle(Volcengine!Primary(work), Volcengine!FinalText, FALSE, FALSE)
      BY <2>1 DEF Volcengine!Decide
    <3> QED
      BY <1>0, <3>1, VolcSettles DEF VolcNets
  <2>2. CASE Volcengine!ReplayOpenFailed
    <3>1. \/ /\ net' = [net EXCEPT !.opens = @ + 1]
             /\ pc = "replayOpen" /\ pc' = pc
          \/ Volcengine!Settle(work, Volcengine!NoText, TRUE, FALSE)
      BY <2>2 DEF Volcengine!ReplayOpenFailed
    <3> QED
      BY <1>0, <3>1, VolcSettles DEF VolcNets
  <2>3. CASE Volcengine!ReplayAnswered
    <3>1. PICK r \in Volcengine!Received(net.retry) :
            Volcengine!Settle(work, r.text, TRUE,
                              r.text = Volcengine!NoText /\ ~r.sess.connected)
      BY <2>3 DEF Volcengine!ReplayAnswered
    <3> QED
      BY <1>0, <3>1, VolcSettles
  <2> QED
    BY <2>1, <2>2, <2>3
<1>3. VolcPlace(pc', app', audio', net')
  BY <1>1, <1>2
     DEF VolcPcm, VolcPlace, VolcAfterInput, VolcBefore, VolcSending, VolcReplayed
<1> QED
  BY <1>1, <1>2, <1>3, VolcSamePcm

LEMMA VolcReplayOpenedPcm ==
  ASSUME VolcInv, VolcPcm(pc, app, audio, net), Volcengine!ReplayOpened
  PROVE  VolcPcm(pc', app', audio', net')
<1>0. /\ net \in VolcNets /\ net.retry \in VolcSessions
      /\ app \in AppStates /\ audio \in AudioStates
  BY VolcPcmTypes
<1>1. /\ net' = [net EXCEPT !.retry = Volcengine!Opened(@)]
      /\ pc = "replayOpen" /\ pc' = "replaySend" /\ UNCHANGED <<app, audio>>
  BY DEF Volcengine!ReplayOpened
<1>2. net'.retry = Volcengine!Opened(net.retry) /\ net'.main = net.main
  BY <1>0, <1>1 DEF VolcNets
<1>3. HearsReplay(audio, net'.retry)
  BY <1>0, <1>2, VolcOpens, UnusedHears
<1>4. VolcPlace(pc', app', audio', net')
  BY <1>1, <1>2
     DEF VolcPcm, VolcPlace, VolcAfterInput, VolcBefore, VolcSending, VolcReplayed
<1> QED
  BY <1>1, <1>2, <1>3, <1>4 DEF VolcPcm, VolcHeardPcm

LEMMA VolcReplaySendPcm ==
  ASSUME VolcInv, VolcPcm(pc, app, audio, net), Volcengine!ReplaySend
  PROVE  VolcPcm(pc', app', audio', net')
<1> DEFINE units == ReplayUnits(audio, net.retry)
           last == ReplayOver(audio, net.retry)
<1>0. /\ app \in AppStates /\ audio \in AudioStates /\ net \in VolcNets
      /\ net.retry \in VolcSessions /\ net.retry.got \in Pcm
  BY VolcPcmTypes
<1>1. pc = "replaySend" /\ UNCHANGED <<app, audio>>
  BY DEF Volcengine!ReplaySend
<1>2. PICK r \in Volcengine!Sent(net.retry, units, last) :
        IF Volcengine!Usable(r.sess)
        THEN /\ net' = [net EXCEPT !.retry = r.sess]
             /\ pc' = IF last THEN "replayWait" ELSE "replaySend"
        ELSE Volcengine!Settle(work, Volcengine!NoText, TRUE, FALSE)
  BY DEF Volcengine!ReplaySend, Volcengine!Smaller, Smaller, ReplayUnits, ReplayOver
<1>3. units \in Pcm /\ last \in BOOLEAN
  <2>1. /\ audio.replay \in Pcm /\ Len(audio.replay) \in Nat /\ Len(net.retry.got) \in Nat
    BY <1>0, PcmTypes DEF AudioStates
  <2> QED
    BY <2>1, CutTypes, SessionAssumption DEF Smaller, ReplayUnits, ReplayOver
<1> HIDE DEF units, last
<1>4. CASE Volcengine!Usable(r.sess)
  <2>1. /\ r.sess \in VolcSessions
        /\ r.sess.got = net.retry.got \o units /\ r.sess.ended = last
    BY <1>0, <1>3, <1>4, VolcTold
  <2>2. /\ net'.retry = r.sess /\ net'.main = net.main
        /\ pc' \in {"replayWait", "replaySend"}
    BY <1>0, <1>2, <1>4 DEF VolcNets
  <2>3. r.sess.got \in Pcm
    BY <2>1 DEF VolcSessions
  <2>4. HearsReplay(audio, net.retry)
    BY DEF VolcPcm, VolcHeardPcm
  <2>5. HearsReplay(audio, net'.retry)
    BY <1>0, <2>1, <2>2, <2>3, <2>4, GotReplayMore DEF units, last
  <2>6. VolcPlace(pc', app', audio', net')
    BY <1>1, <2>2
       DEF VolcPcm, VolcPlace, VolcAfterInput, VolcBefore, VolcSending, VolcReplayed
  <2> QED
    BY <1>1, <2>2, <2>5, <2>6 DEF VolcPcm, VolcHeardPcm
<1>5. CASE ~Volcengine!Usable(r.sess)
  <2>1. /\ pc' \in {"stop", "dispatch"}
        /\ net'.main = net.main /\ net'.retry = net.retry
    BY <1>0, <1>2, <1>5, VolcSettles
  <2>2. VolcPlace(pc', app', audio', net')
    BY <1>1, <2>1
       DEF VolcPcm, VolcPlace, VolcAfterInput, VolcBefore, VolcSending, VolcReplayed
  <2> QED
    BY <1>1, <2>1, <2>2, VolcSamePcm
<1> QED
  BY <1>4, <1>5

\* The receiver thread only listens.
LEMMA VolcDrainPcm ==
  ASSUME VolcInv, VolcPcm(pc, app, audio, net), Volcengine!Drain
  PROVE  VolcPcm(pc', app', audio', net')
<1>0. net \in VolcNets /\ net.main \in VolcSessions
  BY VolcPcmTypes
<1>1. UNCHANGED <<app, audio, pc>>
  BY DEF Volcengine!Drain, Volcengine!DrainMain, Volcengine!DrainFinal,
         Volcengine!DrainSweep
<1>2. /\ net'.retry = net.retry
      /\ \/ net'.main = net.main
         \/ \E r \in Volcengine!Received(net.main) : net'.main = r.sess
  <2>1. CASE Volcengine!DrainMain
    BY <1>0, <2>1 DEF Volcengine!DrainMain, VolcNets
  <2>2. CASE Volcengine!DrainFinal
    BY <1>0, <2>2 DEF Volcengine!DrainFinal, VolcNets
  <2>3. CASE Volcengine!DrainSweep
    BY <1>0, <2>3 DEF Volcengine!DrainSweep, VolcNets
  <2> QED
    BY <2>1, <2>2, <2>3 DEF Volcengine!Drain
<1>3. /\ net'.main.got = net.main.got /\ net'.main.ended = net.main.ended
      /\ Volcengine!Usable(net'.main) => Volcengine!Usable(net.main)
  BY <1>0, <1>2, VolcListens
<1>4. VolcPlace(pc', app', audio', net')
  BY <1>1, <1>2, <1>3
     DEF VolcPcm, VolcPlace, VolcAfterInput, VolcBefore, VolcSending, VolcReplayed,
         InHand, Unused
<1> QED
  BY <1>1, <1>2, <1>3, <1>4, VolcSamePcm

\* The application's steps.
LEMMA VolcAppPcm ==
  ASSUME VolcInv, VolcPcm(pc, app, audio, net),
         TakesNothing(app, app'), audio' = audio,
         \/ pc' = pc \/ (pc = "idle" /\ pc' = "opening") \/ (pc = "stop" /\ pc' = "ended"),
         pc # "idle" => (Open(app') => Open(app)),
         net'.main.got = net.main.got, net'.main.ended = net.main.ended,
         net'.retry.got = net.retry.got, net'.retry.ended = net.retry.ended,
         Volcengine!Usable(net'.main) => Volcengine!Usable(net.main)
  PROVE  VolcPcm(pc', app', audio', net')
<1>1. /\ TakenInOrder(app, audio) => TakenInOrder(app', audio)
      /\ KeptInOrder(app, audio) => KeptInOrder(app', audio)
      /\ ChunkNext(app, audio) => ChunkNext(app', audio)
      /\ KeptNext(app, audio) => KeptNext(app', audio)
      /\ PendingAt(app', audio) = PendingAt(app, audio)
      /\ ChunkAt(app', audio) = ChunkAt(app, audio)
      /\ InHand(app, audio, net.main) => InHand(app', audio, net.main)
      /\ Hears(app, net.main) /\ (Open(app') => Open(app)) => Hears(app', net.main)
  BY TakesNothingLeaves
<1>2. Hears(app', net.main)
  <2>1. CASE pc = "idle"
    <3>1. Unused(net.main)
      BY <2>1 DEF VolcPcm, VolcPlace, VolcBefore
    <3> QED
      BY <3>1 DEF VolcPcm, VolcHeardPcm, Hears, Unused, TakesNothing
  <2>2. CASE pc # "idle"
    BY <1>1, <2>2 DEF VolcPcm, VolcHeardPcm
  <2> QED
    BY <2>1, <2>2
<1>3. VolcHeardPcm(app', audio', net')
  BY <1>1, <1>2 DEF VolcPcm, VolcHeardPcm, Hears, HearsReplay
<1>4. VolcPlace(pc', app', audio', net')
  BY <1>1
     DEF VolcPcm, VolcPlace, VolcAfterInput, VolcBefore, VolcSending, VolcReplayed,
         InHand, Unused, TakesNothing
<1> QED
  BY <1>3, <1>4 DEF VolcPcm

LEMMA VolcEnqueuePcm ==
  ASSUME VolcInv, VolcPcm(pc, app, audio, net), Enqueue
  PROVE  VolcPcm(pc', app', audio', net')
<1>0. SharedType /\ net.main.got \in Pcm /\ net.retry.got \in Pcm
  BY VolcPcmTypes
<1>1. TakenInOrder(app, audio) /\ KeptInOrder(app, audio)
  BY DEF VolcPcm, VolcHeardPcm
<1>2. /\ TakenInOrder(app', audio') /\ KeptInOrder(app', audio')
      /\ PendingAt(app', audio') = PendingAt(app, audio)
      /\ ChunkAt(app', audio') = ChunkAt(app, audio)
      /\ KeptNext(app, audio) => KeptNext(app', audio')
      /\ ChunkNext(app, audio) => ChunkNext(app', audio')
      /\ audio'.chunk = audio.chunk
      /\ Open(app) /\ UNCHANGED <<pc, net>>
  BY <1>0, <1>1, EnqueueOrder DEF Open
<1>3. /\ Hears(app, net.main) => Hears(app', net.main)
      /\ InHand(app, audio, net.main) => InHand(app', audio', net.main)
  BY <1>0, <1>1, EnqueueGot
<1>4. HearsReplay(audio, net.retry) => HearsReplay(audio', net.retry)
  BY <1>0, <1>1, EnqueueGot
<1>5. pc \notin VolcAfterInput
  BY <1>2 DEF VolcPcm, VolcPlace
<1>6. VolcHeardPcm(app', audio', net')
  BY <1>2, <1>3, <1>4 DEF VolcPcm, VolcHeardPcm
<1>7. VolcPlace(pc', app', audio', net')
  BY <1>2, <1>3, <1>5 DEF VolcPcm, VolcPlace, VolcAfterInput
<1> QED
  BY <1>6, <1>7 DEF VolcPcm

LEMMA VolcNextPcm ==
  ASSUME VolcInv, VolcPcm(pc, app, audio, net), Volcengine!Next
  PROVE  VolcPcm(pc', app', audio', net')
<1>1. CASE Volcengine!Worker
  BY <1>1, VolcOpenOkPcm, VolcOpeningPcm, VolcSendFullPcm, VolcGatherPcm, VolcKeepalivePcm,
     VolcSendAbortedPcm, VolcBufferPcm, VolcSendChunkLeftPcm, VolcSendPendingLeftPcm,
     VolcSendLastPcm, VolcConcludesPcm, VolcVerdictPcm, VolcReplayOpenedPcm,
     VolcReplaySendPcm DEF Volcengine!Worker
<1>2. CASE Volcengine!Drain
  BY <1>2, VolcDrainPcm
<1>3. CASE Volcengine!Start
  <2>1. PICK first \in {"opening"} : StartAt(first)
    BY <1>3 DEF Volcengine!Start, Volcengine!StartAt, StartAt
  <2>2. pc = "idle" /\ pc' = first /\ audio' = audio /\ net' = net
    BY <2>1 DEF StartAt
  <2> QED
    BY <2>1, <2>2, VolcPcmTypes, StartTakesNothing, VolcAppPcm
<1>4. CASE Volcengine!Abort
  <2> DEFINE main == [net.main EXCEPT !.forceAbort = TRUE, !.ws = FALSE]
             retry == [net.retry EXCEPT !.forceAbort = TRUE, !.ws = FALSE]
  <2>1. AbortWith([net EXCEPT !.main = main, !.retry = retry])
    BY <1>4, VolcPcmTypes DEF Volcengine!Abort, Volcengine!AbortWith, AbortWith, VolcNets
  <2>2. /\ main.got = net.main.got /\ main.ended = net.main.ended /\ ~main.ws
        /\ retry.got = net.retry.got /\ retry.ended = net.retry.ended
    BY VolcPcmTypes DEF VolcSessions
  <2> HIDE DEF main, retry
  <2>3. /\ pc' = pc /\ audio' = audio /\ net' = [net EXCEPT !.main = main, !.retry = retry]
    BY <2>1 DEF AbortWith
  <2>4. net'.main = main /\ net'.retry = retry
    BY <2>3, VolcPcmTypes DEF VolcNets
  <2>5. TakesNothing(app, app') /\ (Open(app') => Open(app))
    BY <2>1, VolcPcmTypes, ApplicationTakesNothing
  <2>6. ~Volcengine!Usable(net'.main)
    BY <2>2, <2>4 DEF Volcengine!Usable
  <2> QED
    BY <2>2, <2>3, <2>4, <2>5, <2>6, VolcAppPcm
<1>5. CASE Volcengine!StopInput
  <2>1. StopInput
    BY <1>5, VolcStopInput
  <2>2. TakesNothing(app, app') /\ (Open(app') => Open(app))
    BY <2>1, VolcPcmTypes, ApplicationTakesNothing
  <2> QED
    BY <2>1, <2>2, VolcAppPcm DEF StopInput
<1>6. CASE Volcengine!Stopped
  <2>1. Stopped
    BY <1>6, VolcStopped DEF Ended
  <2>2. TakesNothing(app, app') /\ (Open(app') => Open(app))
    BY <2>1, VolcPcmTypes, ApplicationTakesNothing
  <2> QED
    BY <2>1, <2>2, VolcAppPcm DEF Stopped
<1>7. CASE Volcengine!Enqueue
  BY <1>7, VolcEnqueue, VolcEnqueuePcm
<1>8. CASE Volcengine!Dispatch
  BY <1>8, VolcConcludesPcm DEF Volcengine!Dispatch, Dispatch
<1> QED
  BY <1>1, <1>2, <1>3, <1>4, <1>5, <1>6, <1>7, <1>8
     DEF Volcengine!Next, Volcengine!BaseNext

LEMMA VolcInitPcm ==
  ASSUME Volcengine!Init
  PROVE  VolcPcm(pc, app, audio, net)
<1>1. /\ app.mic = "idle" /\ app.taken = <<>> /\ app.captured = 0
      /\ audio.pending = <<>> /\ audio.chunk = <<>> /\ audio.replay = <<>>
      /\ net.main = Volcengine!Disconnected /\ net.retry = Volcengine!Disconnected
      /\ pc = "idle"
  BY DEF Volcengine!Init, Volcengine!InitBase, Volcengine!InitNet
<1>2. Unused(Volcengine!Disconnected)
  BY DEF Volcengine!Disconnected, Unused
<1>3. /\ TakenInOrder(app, audio) /\ KeptInOrder(app, audio)
      /\ ChunkNext(app, audio) /\ KeptNext(app, audio)
      /\ InHand(app, audio, net.main) /\ Hears(app, net.main)
  BY <1>1, <1>2, NothingYet
<1>4. HearsReplay(audio, net.retry)
  BY <1>1, <1>2, NothingYet
<1> QED
  BY <1>1, <1>2, <1>3, <1>4
     DEF VolcPcm, VolcHeardPcm, VolcPlace, VolcAfterInput, VolcReplayed

---------------------------------------------------------------------------
(***************************************************************************)
(* Qwen.  The first attempt sends from the chunk in hand; a replay starts  *)
(* with a new connection.                                                  *)
(***************************************************************************)

\* What the service has heard.
QwenHeard(ap, au, n) ==
  /\ TakenInOrder(ap, au) /\ KeptInOrder(ap, au)
  /\ n.replaying => /\ Increasing(n.link.got)
                    /\ n.link.state = "up" => HearsReplay(au, n.link)
  /\ ~n.replaying => /\ Hears(ap, n.link)
                     /\ ~n.failed => InHand(ap, au, n.link) /\ KeptNext(ap, au)

\* What the worker relies on where it is.
QwenPlace(p, ap, au, n) ==
  /\ p \in {"idle", "try", "waitStop", "link", "connecting"} /\ ~n.replaying
       => Unused(n.link) /\ ~n.failed
  /\ p \in {"link", "connecting"} => Unused(n.link)
  /\ p \in {"send", "sample", "flush", "last", "final"} => ~n.failed
  /\ p \in {"replaySend", "replayFinal"} => n.replaying
  /\ p = "buffer" => n.failed
  /\ p = "sent" => ~Open(ap) \/ n.failed \/ n.drainFailed
  /\ p = "rest" => ~Open(ap) \/ n.failed
  /\ p = "last" => ~Open(ap) /\ au.pending = <<>>

QwenPcm(p, ap, au, n) == QwenHeard(ap, au, n) /\ QwenPlace(p, ap, au, n)

LEMMA QwenTypes ==
  ASSUME QwenInv
  PROVE  /\ app \in AppStates /\ audio \in AudioStates /\ net \in QwenNets
         /\ SharedType /\ net.link \in Links
         /\ net.replaying \in BOOLEAN /\ net.failed \in BOOLEAN
         /\ net.drainFailed \in BOOLEAN /\ net.input \in BOOLEAN
         /\ pc \in QwenFirstSteps => ~net.replaying
         /\ pc = "idle" <=> app.mic = "idle"
  BY DEF QwenInv, Shared, SharedType, QwenNets, Lifecycle

\* No PCM is moved, and the connection has heard the same, or is a new one.
LEMMA QwenQuiet ==
  ASSUME app \in AppStates, audio \in AudioStates, QwenHeard(app, audio, net),
         UNCHANGED <<app, audio>>,
         net'.replaying = net.replaying,
         ~net.replaying /\ net.failed => net'.failed,
         \/ /\ net'.link.got = net.link.got /\ net'.link.ended = net.link.ended
            /\ net.replaying /\ net'.link.state = "up" => net.link.state = "up"
         \/ (~net.replaying => Unused(net.link)) /\ Unused(net'.link)
  PROVE  QwenHeard(app', audio', net')
<1> DEFINE l == net.link
           m == net'.link
<1> HIDE DEF l, m
<1>1. CASE /\ m.got = l.got /\ m.ended = l.ended
           /\ net.replaying /\ m.state = "up" => l.state = "up"
  BY <1>1 DEF QwenHeard, Hears, HearsReplay, InHand, l, m
<1>2. CASE Unused(m) /\ net.replaying
  <2>1. HearsReplay(audio, m) /\ Increasing(m.got)
    BY <1>2, UnusedHears DEF Unused, Increasing
  <2> QED
    BY <1>2, <2>1 DEF QwenHeard, m
<1>3. CASE Unused(m) /\ Unused(l) /\ ~net.replaying
  <2>1. Hears(app, m) /\ Len(m.got) = Len(l.got)
    BY <1>3, UnusedHears DEF Unused
  <2> QED
    BY <1>3, <2>1 DEF QwenHeard, InHand, l, m
<1> QED
  BY <1>1, <1>2, <1>3 DEF l, m

LEMMA QwenTryPcm ==
  ASSUME QwenInv, QwenPcm(pc, app, audio, net), Qwen!Try
  PROVE  QwenPcm(pc', app', audio', net')
<1>1. /\ net' = [net EXCEPT !.tries = @ + 1, !.link = Qwen!FreshLink]
      /\ pc = "try" /\ pc' = "link" /\ UNCHANGED <<app, audio>>
  BY DEF Qwen!Try
<1>2. Unused(Qwen!FreshLink)
  BY QwenTypes, QwenLinkOps
<1>3. /\ net'.link = Qwen!FreshLink /\ net'.replaying = net.replaying
      /\ net'.failed = net.failed
  BY <1>1, QwenTypes DEF QwenNets
<1>4. QwenHeard(app', audio', net')
  BY <1>1, <1>2, <1>3, QwenTypes, QwenQuiet DEF QwenPcm, QwenPlace
<1> QED
  BY <1>1, <1>2, <1>3, <1>4 DEF QwenPcm, QwenPlace

LEMMA QwenConnectPcm ==
  ASSUME QwenInv, QwenPcm(pc, app, audio, net), Qwen!Connect
  PROVE  QwenPcm(pc', app', audio', net')
<1>1. /\ net' = [net EXCEPT !.link = Qwen!Connecting(@),
                            !.late = IF app.aborted THEN @ + 1 ELSE @]
      /\ pc = "link" /\ pc' = "connecting" /\ UNCHANGED <<app, audio>>
  BY DEF Qwen!Connect
<1>2. /\ net'.link = Qwen!Connecting(net.link) /\ net'.replaying = net.replaying
      /\ net'.failed = net.failed
  BY <1>1, QwenTypes DEF QwenNets
<1>3. Unused(net.link) /\ Unused(net'.link)
  BY <1>1, <1>2, QwenTypes, QwenLinkOps DEF Unused, QwenPcm, QwenPlace
<1>4. QwenHeard(app', audio', net')
  BY <1>1, <1>2, <1>3, QwenTypes, QwenQuiet DEF QwenPcm
<1> QED
  BY <1>1, <1>2, <1>3, <1>4 DEF QwenPcm, QwenPlace

LEMMA QwenConnectOkPcm ==
  ASSUME QwenInv, QwenPcm(pc, app, audio, net), Qwen!ConnectOk
  PROVE  QwenPcm(pc', app', audio', net')
<1>1. /\ net' = [net EXCEPT !.link = Qwen!Connected(@),
                            !.drain = IF net.replaying THEN @ ELSE "on"]
      /\ pc = "connecting" /\ pc' = IF net.replaying THEN "replaySend" ELSE "send"
      /\ UNCHANGED <<app, audio>>
  BY DEF Qwen!ConnectOk
<1>2. /\ net'.link = Qwen!Connected(net.link) /\ net'.replaying = net.replaying
      /\ net'.failed = net.failed
  BY <1>1, QwenTypes DEF QwenNets
<1>3. Unused(net.link) /\ Unused(net'.link)
  BY <1>1, <1>2, QwenTypes, QwenLinkOps DEF Unused, QwenPcm, QwenPlace
<1>4. QwenHeard(app', audio', net')
  BY <1>1, <1>2, <1>3, QwenTypes, QwenQuiet DEF QwenPcm
<1> QED
  BY <1>1, <1>2, <1>3, <1>4 DEF QwenPcm, QwenPlace

LEMMA QwenConnectFailedPcm ==
  ASSUME QwenInv, QwenPcm(pc, app, audio, net), Qwen!ConnectFailed
  PROVE  QwenPcm(pc', app', audio', net')
<1>1. PICK retryable \in BOOLEAN :
        net' = [net EXCEPT !.link = Qwen!NoLink, !.transport = TRUE,
                           !.tries = IF retryable THEN @ ELSE Qwen!MaxTries]
  BY DEF Qwen!ConnectFailed
<1>2. pc = "connecting" /\ pc' = "try" /\ UNCHANGED <<app, audio>>
  BY DEF Qwen!ConnectFailed
<1>3. /\ net'.link = Qwen!NoLink /\ net'.replaying = net.replaying
      /\ net'.failed = net.failed
  BY <1>1, QwenTypes DEF QwenNets
<1>4. Unused(net.link) /\ Unused(net'.link)
  BY <1>2, <1>3, QwenTypes, QwenLinkOps DEF Unused, QwenPcm, QwenPlace
<1>5. QwenHeard(app', audio', net')
  BY <1>2, <1>3, <1>4, QwenTypes, QwenQuiet DEF QwenPcm
<1> QED
  BY <1>2, <1>3, <1>4, <1>5 DEF QwenPcm, QwenPlace

\* Waiting, checking and concluding: the connection stays as it is.
LEMMA QwenSamePcm ==
  ASSUME QwenInv, QwenPcm(pc, app, audio, net), UNCHANGED <<app, audio>>,
         net'.link = net.link, net'.replaying = net.replaying,
         ~net.replaying /\ net.failed => net'.failed,
         QwenPlace(pc', app', audio', net')
  PROVE  QwenPcm(pc', app', audio', net')
<1>1. QwenHeard(app', audio', net')
  BY QwenTypes, QwenQuiet DEF QwenPcm
<1> QED
  BY <1>1 DEF QwenPcm

LEMMA QwenWaitsPcm ==
  ASSUME QwenInv, QwenPcm(pc, app, audio, net),
         \/ Qwen!NotConnected \/ Qwen!WaitForRecordingStop \/ Qwen!AwaitFinish
         \/ Qwen!ReplayGivenUp \/ Qwen!Decide \/ Dispatch
  PROVE  QwenPcm(pc', app', audio', net')
<1>1. /\ UNCHANGED <<app, audio, net>>
      /\ \/ pc = "try" /\ pc' = "waitStop" /\ ~net.replaying
         \/ pc' \in {"quit", "verdict", "dispatch", "stop"}
  BY DEF Qwen!NotConnected, Qwen!NoMoreTries, Qwen!WaitForRecordingStop, Qwen!AwaitFinish,
     Qwen!ReplayGivenUp, Qwen!Decide, Qwen!Conclude, Dispatch
<1>2. QwenPlace(pc', app', audio', net')
  BY <1>1 DEF QwenPcm, QwenPlace
<1> QED
  BY <1>1, <1>2, QwenSamePcm

LEMMA QwenTakePendingPcm ==
  ASSUME QwenInv, QwenPcm(pc, app, audio, net), Qwen!TakePending
  PROVE  QwenPcm(pc', app', audio', net')
<1>1. /\ pc = "send" /\ UNCHANGED <<app, net>>
      /\ \/ (app.aborted \/ net.drainFailed) /\ pc' = "sent" /\ audio' = audio
         \/ pc' = "sample" /\ audio' = Qwen!SwapPending(audio)
  BY DEF Qwen!TakePending
<1>2. ~net.failed /\ ~net.replaying
  BY <1>1, QwenTypes DEF QwenPcm, QwenPlace, QwenFirstSteps
<1>3. CASE pc' = "sent" /\ audio' = audio /\ (app.aborted \/ net.drainFailed)
  BY <1>1, <1>2, <1>3 DEF QwenPcm, QwenHeard, QwenPlace, Open
<1>4. CASE pc' = "sample" /\ audio' = Qwen!SwapPending(audio)
  <2>1. audio' = Swap(audio)
    BY <1>4 DEF Qwen!SwapPending, Swap
  <2>2. /\ TakenInOrder(app, audio') /\ KeptInOrder(app, audio')
        /\ ChunkAt(app, audio') = ChunkAt(app, audio)
        /\ ChunkNext(app, audio') /\ KeptNext(app, audio')
    <3>1. /\ TakenInOrder(app, audio) /\ KeptInOrder(app, audio)
          /\ ChunkNext(app, audio) /\ KeptNext(app, audio)
      BY <1>2 DEF QwenPcm, QwenHeard, InHand
    <3>2. app \in AppStates /\ audio \in AudioStates
      BY QwenTypes
    <3> QED
      BY <2>1, <3>1, <3>2, SwapOrder
  <2> QED
    BY <1>1, <1>2, <1>4, <2>2 DEF QwenPcm, QwenHeard, QwenPlace, InHand
<1> QED
  BY <1>1, <1>3, <1>4

LEMMA QwenSampleInputPcm ==
  ASSUME QwenInv, QwenPcm(pc, app, audio, net), Qwen!SampleInput
  PROVE  QwenPcm(pc', app', audio', net')
<1>1. /\ net' = [net EXCEPT !.input = Qwen!Streaming]
      /\ pc = "sample" /\ pc' = "flush" /\ UNCHANGED <<app, audio>>
  BY DEF Qwen!SampleInput
<1>2. /\ net'.link = net.link /\ net'.replaying = net.replaying
      /\ net'.failed = net.failed
  BY <1>1, QwenTypes DEF QwenNets
<1>3. QwenPlace(pc', app', audio', net')
  BY <1>1, <1>2 DEF QwenPcm, QwenPlace
<1> QED
  BY <1>1, <1>2, <1>3, QwenSamePcm

\* A chunk goes out: the service has it, or the first attempt has failed.
LEMMA QwenSendFrontPcm ==
  ASSUME QwenInv, QwenHeard(app, audio, net), ~net.replaying, ~net.failed,
         UNCHANGED app, NEW n \in 0..Len(audio.chunk), NEW next, NEW failedAt,
         Qwen!SendFront(n, next, failedAt)
  PROVE  /\ QwenHeard(app', audio', net') /\ ~net'.replaying
         /\ audio'.pending = audio.pending
         /\ \/ pc' = next /\ ~net'.failed
            \/ pc' = failedAt /\ net'.failed
<1> DEFINE front == SubSeq(audio.chunk, 1, n)
           kept == Qwen!Keep(audio, front)
<1>0. front \in Pcm
  BY QwenTypes, CutPcm DEF AudioStates
<1>1. PICK s \in Qwen!Sends(net.link, front, FALSE) :
        IF s.ok
        THEN /\ audio' = [kept EXCEPT !.chunk = SubSeq(@, n + 1, Len(@))]
             /\ net' = [net EXCEPT !.link = s.link]
             /\ pc' = next
        ELSE /\ audio' = kept
             /\ net' = Qwen!Fail([net EXCEPT !.link = s.link])
             /\ pc' = failedAt
  BY DEF Qwen!SendFront
<1>2. /\ s.link \in Links /\ s.ok \in BOOLEAN
      /\ s.ok => s.link.got = net.link.got \o front /\ s.link.ended = FALSE
      /\ ~s.ok => s.link.got = net.link.got /\ s.link.ended = net.link.ended
  BY <1>0, QwenTypes, QwenSent
<1>3. /\ Hears(app, net.link) /\ InHand(app, audio, net.link) /\ KeptNext(app, audio)
      /\ TakenInOrder(app, audio) /\ KeptInOrder(app, audio)
  BY DEF QwenHeard
<1>4. kept = Keep(audio, front)
  BY <1>0, QwenTypes, QwenKeep
<1>f. front = SubSeq(audio.chunk, 1, n)
  OBVIOUS
<1> HIDE DEF kept, front
<1>k. /\ Len(front) = n /\ PieceOf(front, ChunkAt(app, audio), app.taken)
      /\ kept \in AudioStates /\ TakenInOrder(app, kept) /\ KeptInOrder(app, kept)
      /\ kept.pending = audio.pending /\ kept.chunk = audio.chunk
      /\ Precedes(kept.replay, ChunkAt(app, audio) + n, app.taken)
  <2>1. ChunkNext(app, audio) /\ app \in AppStates /\ audio \in AudioStates
    BY <1>3, QwenTypes DEF InHand
  <2> QED
    BY <1>3, <1>4, <1>f, <2>1, FrontKept
<1>5. CASE s.ok
  <2>1. net' = [net EXCEPT !.link = s.link] /\ pc' = next
    BY <1>1, <1>5
  <2>2. net'.link = s.link /\ net'.replaying = net.replaying /\ net'.failed = net.failed
    BY <2>1, QwenTypes DEF QwenNets
  <2>3. audio' = [kept EXCEPT !.chunk = SubSeq(@, n + 1, Len(@))]
    BY <1>1, <1>5
  <2>4. /\ TakenInOrder(app, audio') /\ KeptInOrder(app, audio')
        /\ audio'.pending = audio.pending
        /\ ChunkNext(app, audio') /\ ChunkAt(app, audio') = ChunkAt(app, audio) + n
        /\ KeptNext(app, audio')
    <3>1. ChunkNext(app, audio) /\ app \in AppStates /\ audio \in AudioStates
      BY <1>3, QwenTypes DEF InHand
    <3>2. audio' = CutFront(kept, n)
      BY <2>3 DEF CutFront
    <3> QED
      BY <1>k, <3>1, <3>2, FrontCut
  <2>5. Hears(app, s.link) /\ Len(s.link.got) = Len(net.link.got) + Len(front)
    BY <1>0, <1>2, <1>3, <1>5, <1>k, QwenTypes, HearsMore DEF InHand
  <2>6. Len(s.link.got) = ChunkAt(app, audio')
    BY <1>3, <1>k, <2>4, <2>5 DEF InHand
  <2> QED
    BY <2>1, <2>2, <2>4, <2>5, <2>6 DEF QwenHeard, InHand
<1>6. CASE ~s.ok
  <2> DEFINE mid == [net EXCEPT !.link = s.link]
  <2>1. net' = [mid EXCEPT !.failed = TRUE] /\ pc' = failedAt
    BY <1>1, <1>6 DEF Qwen!Fail
  <2>2. mid \in QwenNets /\ mid.link = s.link /\ mid.replaying = net.replaying
    BY <1>2, QwenTypes DEF QwenNets
  <2> HIDE DEF mid
  <2>3. net'.link = s.link /\ net'.replaying = net.replaying /\ net'.failed
    BY <2>1, <2>2 DEF QwenNets
  <2>5. audio' = kept
    BY <1>1, <1>6
  <2>6. Hears(app, s.link)
    BY <1>2, <1>3, <1>6 DEF Hears
  <2> QED
    BY <1>k, <2>1, <2>3, <2>5, <2>6 DEF QwenHeard
<1> QED
  BY <1>5, <1>6

LEMMA QwenFlushFullChunkPcm ==
  ASSUME QwenInv, QwenPcm(pc, app, audio, net), Qwen!FlushFullChunk
  PROVE  QwenPcm(pc', app', audio', net')
<1>1. /\ pc = "flush" /\ app' = app /\ Len(audio.chunk) >= ChunkUnits
      /\ Qwen!SendFront(ChunkUnits, "flush", "sent")
  BY DEF Qwen!FlushFullChunk
<1>2. ChunkUnits \in 0..Len(audio.chunk)
  BY <1>1, QwenTypes, Lengths, SessionAssumption
<1>3. ~net.replaying /\ ~net.failed
  BY <1>1, QwenTypes DEF QwenPcm, QwenPlace, QwenFirstSteps
<1>4. /\ QwenHeard(app', audio', net') /\ ~net'.replaying
      /\ \/ pc' = "flush" /\ ~net'.failed
         \/ pc' = "sent" /\ net'.failed
  BY <1>1, <1>2, <1>3, QwenSendFrontPcm DEF QwenPcm
<1> QED
  BY <1>4 DEF QwenPcm, QwenPlace

LEMMA QwenFlushedPcm ==
  ASSUME QwenInv, QwenPcm(pc, app, audio, net), Qwen!Flushed
  PROVE  QwenPcm(pc', app', audio', net')
<1>1. /\ pc = "flush" /\ UNCHANGED <<app, audio>>
      /\ pc' = IF audio.overflowed \/ ~net.input THEN "sent" ELSE "send"
      /\ net' = IF audio.overflowed THEN [net EXCEPT !.failed = TRUE] ELSE net
  BY DEF Qwen!Flushed, Qwen!Fail
<1>2. /\ net'.link = net.link /\ net'.replaying = net.replaying
      /\ net'.failed = (net.failed \/ audio.overflowed)
  BY <1>1, QwenTypes DEF QwenNets, AudioStates
<1>3. ~net.input => ~Open(app)
  BY DEF QwenInv, Open
<1>4. ~net.failed
  BY <1>1 DEF QwenPcm, QwenPlace
<1>5. QwenPlace(pc', app', audio', net')
  BY <1>1, <1>2, <1>3, <1>4 DEF QwenPlace
<1> QED
  BY <1>1, <1>2, <1>5, QwenSamePcm

LEMMA QwenLoopLeftPcm ==
  ASSUME QwenInv, QwenPcm(pc, app, audio, net), Qwen!LoopLeft
  PROVE  QwenPcm(pc', app', audio', net')
<1>1. /\ pc = "sent" /\ UNCHANGED <<app, audio>>
      /\ net' = [net EXCEPT !.failed = net.failed \/ net.drainFailed]
      /\ pc' = IF app.aborted THEN "quit"
               ELSE IF (net.failed \/ net.drainFailed) /\ Open(app)
               THEN "buffer" ELSE "rest"
  BY DEF Qwen!LoopLeft, Qwen!Streaming, Open
<1>2. /\ net'.link = net.link /\ net'.replaying = net.replaying
      /\ net'.failed = (net.failed \/ net.drainFailed)
  BY <1>1, QwenTypes DEF QwenNets
<1>3. QwenPlace(pc', app', audio', net')
  BY <1>1, <1>2 DEF QwenPcm, QwenPlace
<1> QED
  BY <1>1, <1>2, <1>3, QwenSamePcm

LEMMA QwenBufferPcm ==
  ASSUME QwenInv, QwenPcm(pc, app, audio, net), Qwen!Buffer
  PROVE  QwenPcm(pc', app', audio', net')
<1>1. /\ pc = "buffer" /\ UNCHANGED <<app, net>> /\ pc' \in {"buffer", "rest"}
      /\ audio' \in {audio, KeepPending(audio)}
  BY DEF Qwen!Buffer, Qwen!KeepPending, KeepPending, Qwen!Keep, Keep
<1>2. net.failed /\ ~net.replaying
  BY <1>1, QwenTypes DEF QwenPcm, QwenPlace, QwenFirstSteps
<1>3. TakenInOrder(app, audio') /\ KeptInOrder(app, audio')
  BY <1>1, QwenTypes, KeepPendingOrder DEF QwenPcm, QwenHeard
<1> QED
  BY <1>1, <1>2, <1>3 DEF QwenPcm, QwenHeard, QwenPlace

LEMMA QwenTakeRestPcm ==
  ASSUME QwenInv, QwenPcm(pc, app, audio, net), Qwen!TakeRest
  PROVE  QwenPcm(pc', app', audio', net')
<1>1. /\ pc = "rest" /\ UNCHANGED <<app, net>>
      /\ \/ net.failed /\ pc' = "quit"
            /\ audio' = [audio EXCEPT !.pending = <<>>, !.overflowed = FALSE]
         \/ ~net.failed /\ pc' = "last"
            /\ audio' = Swap(audio)
  BY DEF Qwen!TakeRest, Qwen!SwapPending, Swap
<1>2. ~net.replaying
  BY <1>1, QwenTypes, QwenTypes DEF QwenFirstSteps
<1>3. CASE /\ net.failed /\ pc' = "quit"
           /\ audio' = [audio EXCEPT !.pending = <<>>, !.overflowed = FALSE]
  <2>1. audio' \in AudioStates /\ audio'.pending = <<>> /\ audio'.replay = audio.replay
    <3> DEFINE none == <<>>
    <3>1. /\ audio \in AudioStates /\ none \in Pcm
          /\ audio' = [audio EXCEPT !.pending = none, !.overflowed = FALSE]
      BY <1>3, QwenTypes DEF Pcm
    <3> HIDE DEF none
    <3>2. audio' \in AudioStates /\ audio'.pending = none /\ audio'.replay = audio.replay
      BY <3>1 DEF AudioStates
    <3> QED
      BY <3>2 DEF none
  <2>2. TakenInOrder(app, audio') /\ KeptInOrder(app, audio')
    BY <2>1, QwenTypes, NothingPending DEF QwenPcm, QwenHeard
  <2> QED
    BY <1>1, <1>2, <1>3, <2>2 DEF QwenPcm, QwenHeard, QwenPlace
<1>4. CASE /\ ~net.failed /\ pc' = "last"
           /\ audio' = Swap(audio)
  <2>1. /\ TakenInOrder(app, audio') /\ KeptInOrder(app, audio')
        /\ ChunkAt(app, audio') = ChunkAt(app, audio)
        /\ ChunkNext(app, audio') /\ KeptNext(app, audio')
        /\ audio'.pending = <<>>
    <3>1. /\ TakenInOrder(app, audio) /\ KeptInOrder(app, audio)
          /\ ChunkNext(app, audio) /\ KeptNext(app, audio)
      BY <1>2, <1>4 DEF QwenPcm, QwenHeard, InHand
    <3>2. app \in AppStates /\ audio \in AudioStates
      BY QwenTypes
    <3> QED
      BY <1>4, <3>1, <3>2, SwapOrder
  <2>2. ~Open(app)
    BY <1>1, <1>4 DEF QwenPcm, QwenPlace
  <2> QED
    BY <1>1, <1>2, <1>4, <2>1, <2>2 DEF QwenPcm, QwenHeard, QwenPlace, InHand
<1> QED
  BY <1>1, <1>3, <1>4

LEMMA QwenSendRestPcm ==
  ASSUME QwenInv, QwenPcm(pc, app, audio, net), Qwen!SendRest
  PROVE  QwenPcm(pc', app', audio', net')
<1> DEFINE n == Smaller(ChunkUnits, Len(audio.chunk))
<1>1. /\ pc = "last" /\ app' = app
      /\ Qwen!SendFront(n, "last", "quit")
  BY DEF Qwen!SendRest, Qwen!Smaller, Smaller
<1>2. n \in 0..Len(audio.chunk)
  BY QwenTypes, Lengths, SessionAssumption DEF Smaller
<1>3. ~net.replaying /\ ~net.failed /\ ~Open(app) /\ audio.pending = <<>>
  BY <1>1, QwenTypes DEF QwenPcm, QwenPlace, QwenFirstSteps
<1> HIDE DEF n
<1>4. /\ QwenHeard(app', audio', net') /\ ~net'.replaying
      /\ audio'.pending = audio.pending
      /\ \/ pc' = "last" /\ ~net'.failed
         \/ pc' = "quit" /\ net'.failed
  BY <1>1, <1>2, <1>3, QwenSendFrontPcm DEF QwenPcm
<1> QED
  BY <1>1, <1>3, <1>4 DEF QwenPcm, QwenPlace

\* The end is told when the chunk and the pending buffer are empty.
LEMMA QwenSendFinishPcm ==
  ASSUME QwenInv, QwenPcm(pc, app, audio, net), Qwen!SendFinish
  PROVE  QwenPcm(pc', app', audio', net')
<1>1. pc = "last" /\ audio.chunk = <<>> /\ UNCHANGED <<app, audio>>
  BY DEF Qwen!SendFinish
<1>2. ~net.replaying /\ ~net.failed /\ ~Open(app) /\ audio.pending = <<>>
  BY <1>1, QwenTypes DEF QwenPcm, QwenPlace, QwenFirstSteps
<1>3. /\ Hears(app, net.link) /\ InHand(app, audio, net.link) /\ KeptNext(app, audio)
      /\ TakenInOrder(app, audio) /\ KeptInOrder(app, audio)
  BY <1>2 DEF QwenPcm, QwenHeard
<1>4. net.link.got = app.taken
  <2>1. Len(net.link.got) = PendingAt(app, audio)
    <3>1. Len(audio.chunk) = 0 /\ PendingAt(app, audio) \in Int
      BY <1>1, QwenTypes, Lengths
    <3> QED
      BY <1>3, <3>1 DEF InHand, ChunkAt
  <2> QED
    BY <1>2, <1>3, <2>1, QwenTypes, HeardAll
<1>5. CASE pc' = "quit" /\ net' = net
  BY <1>1, <1>2, <1>5 DEF QwenPcm, QwenHeard, QwenPlace
<1>6. ASSUME NEW s \in Qwen!Sends(net.link, <<>>, TRUE), s.ok,
             net' = [net EXCEPT !.link = s.link], pc' = "final"
      PROVE  QwenPcm(pc', app', audio', net')
  <2>1. /\ s.link \in Links /\ s.link.got = net.link.got \o <<>>
    BY <1>6, QwenTypes, PcmTypes, QwenSent DEF Links
  <2>2. net.link.got \o <<>> = net.link.got
    BY QwenTypes DEF Links, Pcm
  <2>3. net'.link = s.link /\ net'.replaying = net.replaying /\ net'.failed = net.failed
    BY <1>6, QwenTypes DEF QwenNets
  <2>4. Hears(app, s.link)
    BY <1>2, <1>3, <1>4, <2>1, <2>2, QwenTypes DEF Hears, Open, AppStates
  <2> QED
    BY <1>1, <1>2, <1>3, <1>6, <2>1, <2>2, <2>3, <2>4
       DEF QwenPcm, QwenHeard, QwenPlace, InHand
<1>7. ASSUME NEW s \in Qwen!Sends(net.link, <<>>, TRUE), ~s.ok,
             net' = Qwen!Fail([net EXCEPT !.link = s.link]), pc' = "quit"
      PROVE  QwenPcm(pc', app', audio', net')
  <2> DEFINE mid == [net EXCEPT !.link = s.link]
  <2>1. s.link \in Links /\ s.link.got = net.link.got /\ s.link.ended = net.link.ended
    <3>1. <<>> \in Pcm
      BY QwenTypes, PcmTypes DEF Links
    <3> QED
      BY <1>7, <3>1, QwenTypes, QwenSent
  <2>2. mid \in QwenNets /\ mid.link = s.link /\ mid.replaying = net.replaying
    BY <2>1, QwenTypes DEF QwenNets
  <2>3. net' = [mid EXCEPT !.failed = TRUE]
    BY <1>7 DEF Qwen!Fail
  <2> HIDE DEF mid
  <2>4. net'.link = s.link /\ net'.replaying = net.replaying /\ net'.failed
    BY <2>2, <2>3 DEF QwenNets
  <2>5. Hears(app, s.link)
    BY <1>3, <2>1 DEF Hears
  <2> QED
    BY <1>1, <1>2, <1>3, <1>7, <2>4, <2>5 DEF QwenPcm, QwenHeard, QwenPlace
<1> QED
  BY <1>5, <1>6, <1>7 DEF Qwen!SendFinish

LEMMA QwenFinishFailedPcm ==
  ASSUME QwenInv, QwenPcm(pc, app, audio, net), Qwen!FinishFailed
  PROVE  QwenPcm(pc', app', audio', net')
<1>1. PICK reason \in {net.reason, "timeout"} :
        net' = [net EXCEPT !.reason = reason, !.failed = ~Qwen!CanRecover(reason)]
  BY DEF Qwen!FinishFailed
<1>2. pc = "final" /\ pc' = "quit" /\ UNCHANGED <<app, audio>>
  BY DEF Qwen!FinishFailed
<1>3. net'.link = net.link /\ net'.replaying = net.replaying
  BY <1>1, QwenTypes DEF QwenNets
<1>4. ~net.failed
  BY <1>2 DEF QwenPcm, QwenPlace
<1>5. QwenPlace(pc', app', audio', net')
  BY <1>2 DEF QwenPlace
<1> QED
  BY <1>2, <1>3, <1>4, <1>5, QwenSamePcm

LEMMA QwenStopDrainPcm ==
  ASSUME QwenInv, QwenPcm(pc, app, audio, net), Qwen!StopDrain
  PROVE  QwenPcm(pc', app', audio', net')
<1>1. pc = "quit" /\ pc' = "join" /\ UNCHANGED <<app, audio>>
  BY DEF Qwen!StopDrain
<1>2. /\ net'.link \in {net.link, Qwen!Aborted(net.link)}
      /\ net'.replaying = net.replaying /\ net'.failed = net.failed
  BY QwenTypes DEF Qwen!StopDrain, QwenNets
<1>3. net'.link.got = net.link.got /\ net'.link.ended = net.link.ended
  BY <1>2, QwenTypes, QwenLinkOps
<1>4. ~net.replaying
  BY <1>1, QwenTypes DEF QwenFirstSteps
<1>5. QwenHeard(app', audio', net')
  BY <1>1, <1>2, <1>3, <1>4, QwenTypes, QwenQuiet DEF QwenPcm
<1> QED
  BY <1>1, <1>5 DEF QwenPcm, QwenPlace

LEMMA QwenDrainJoinedPcm ==
  ASSUME QwenInv, QwenPcm(pc, app, audio, net), Qwen!DrainJoined
  PROVE  QwenPcm(pc', app', audio', net')
<1>1. /\ pc = "join" /\ UNCHANGED <<app, audio>>
      /\ pc' \in {"stop", "try", "verdict"}
      /\ pc' = "try" => ~app.aborted /\ Qwen!ReplayWanted
  BY DEF Qwen!DrainJoined
<1>2. (~app.aborted /\ Qwen!ReplayWanted) \in BOOLEAN
  OBVIOUS
<1>3. /\ net'.link = Qwen!Shut(net.link) /\ net'.failed = net.failed
      /\ net'.replaying = (~app.aborted /\ Qwen!ReplayWanted)
  BY <1>2, QwenTypes DEF Qwen!DrainJoined, QwenNets
<1>4. /\ net'.link.got = net.link.got /\ net'.link.ended = net.link.ended
      /\ net'.link.state = "closed"
  BY <1>3, QwenTypes, QwenLinkOps
<1>5. ~net.replaying
  BY <1>1, QwenTypes DEF QwenFirstSteps
<1>6. Increasing(net.link.got)
  BY <1>5, QwenTypes, HearsInOrder DEF QwenPcm, QwenHeard
<1>7. QwenHeard(app', audio', net')
  BY <1>1, <1>3, <1>4, <1>5, <1>6 DEF QwenPcm, QwenHeard, Hears, InHand
<1> QED
  BY <1>1, <1>3, <1>7 DEF QwenPcm, QwenPlace

\* A chunk of the replay, or its end; a failure gives the connection up.
LEMMA QwenReplaySendPcm ==
  ASSUME QwenInv, QwenPcm(pc, app, audio, net), Qwen!ReplaySend
  PROVE  QwenPcm(pc', app', audio', net')
<1> DEFINE units == ReplayUnits(audio, net.link)
           last == ReplayOver(audio, net.link)
<1>1. pc = "replaySend" /\ UNCHANGED <<app, audio>>
  BY DEF Qwen!ReplaySend
<1>2. units \in Pcm /\ last \in BOOLEAN
  BY QwenTypes, QwenReplayUnits DEF ReplayUnits, ReplayOver
<1>3. PICK s \in Qwen!Sends(net.link, units, last) :
        \/ net' = [net EXCEPT !.link = Qwen!NoLink, !.transport = TRUE] /\ pc' = "try"
        \/ /\ s.ok /\ net' = [net EXCEPT !.link = s.link]
           /\ pc' \in {"replayFinal", "replaySend"}
  BY DEF Qwen!ReplaySend, Qwen!Smaller, Smaller, ReplayUnits, ReplayOver
<1>4. CASE /\ net' = [net EXCEPT !.link = Qwen!NoLink, !.transport = TRUE]
           /\ pc' = "try"
  <2>1. /\ net'.link = Qwen!NoLink /\ net'.replaying = net.replaying
        /\ net'.failed = net.failed
    BY <1>4, QwenTypes DEF QwenNets
  <2>2. net.replaying
    BY <1>1 DEF QwenPcm, QwenPlace
  <2>3. Unused(net'.link)
    BY <2>1, QwenTypes, QwenLinkOps
  <2>4. QwenHeard(app', audio', net')
    BY <1>1, <2>1, <2>2, <2>3, QwenTypes, QwenQuiet DEF QwenPcm
  <2> QED
    BY <1>4, <2>1, <2>2, <2>4 DEF QwenPcm, QwenPlace
<1>5. CASE /\ s.ok /\ net' = [net EXCEPT !.link = s.link]
           /\ pc' \in {"replayFinal", "replaySend"}
  <2> HIDE DEF units, last
  <2>1. /\ s.link \in Links /\ s.link.got = net.link.got \o units /\ s.link.ended = last
        /\ net.link.state = "up"
    BY <1>2, <1>3, <1>5, QwenTypes, QwenSent
  <2>2. /\ net'.link = s.link /\ net'.replaying = net.replaying
        /\ net'.failed = net.failed
    BY <1>5, QwenTypes DEF QwenNets
  <2>3. net.replaying
    BY <1>1 DEF QwenPcm, QwenPlace
  <2>4. HearsReplay(audio, net.link)
    BY <2>1, <2>3 DEF QwenPcm, QwenHeard
  <2>5. HearsReplay(audio, s.link)
    BY <2>1, <2>4, QwenTypes, HearsReplayMore DEF units, last
  <2>6. Increasing(s.link.got)
    <3>1. s.link.got \in Pcm /\ audio.replay \in Pcm
      BY <2>1, QwenTypes DEF Links, AudioStates
    <3>2. PieceOf(s.link.got, 0, audio.replay) /\ Increasing(audio.replay)
      BY <2>5 DEF QwenPcm, QwenHeard, KeptInOrder, HearsReplay
    <3> QED
      BY <3>1, <3>2, PieceIncreasing
  <2> QED
    BY <1>1, <1>5, <2>2, <2>3, <2>5, <2>6 DEF QwenPcm, QwenHeard, QwenPlace
<1> QED
  BY <1>3, <1>4, <1>5

LEMMA QwenReplayFailedPcm ==
  ASSUME QwenInv, QwenPcm(pc, app, audio, net), Qwen!ReplayFailed
  PROVE  QwenPcm(pc', app', audio', net')
<1>1. /\ net' = [net EXCEPT !.link = Qwen!NoLink, !.transport = TRUE]
      /\ pc = "replayFinal" /\ pc' = "try" /\ UNCHANGED <<app, audio>>
  BY DEF Qwen!ReplayFailed
<1>2. /\ net'.link = Qwen!NoLink /\ net'.replaying = net.replaying
      /\ net'.failed = net.failed
  BY <1>1, QwenTypes DEF QwenNets
<1>3. net.replaying /\ Unused(net'.link)
  BY <1>1, <1>2, QwenTypes, QwenLinkOps DEF QwenPcm, QwenPlace
<1>4. QwenHeard(app', audio', net')
  BY <1>1, <1>2, <1>3, QwenTypes, QwenQuiet DEF QwenPcm
<1> QED
  BY <1>1, <1>2, <1>3, <1>4 DEF QwenPcm, QwenPlace

LEMMA QwenReplayFinishedPcm ==
  ASSUME QwenInv, QwenPcm(pc, app, audio, net), Qwen!ReplayFinished
  PROVE  QwenPcm(pc', app', audio', net')
<1>1. pc = "replayFinal" /\ pc' = "verdict" /\ UNCHANGED <<app, audio>>
  BY DEF Qwen!ReplayFinished
<1>2. net'.link = Qwen!Shut(net.link) /\ net'.replaying = net.replaying
  BY QwenTypes DEF Qwen!ReplayFinished, QwenNets
<1>3. /\ net'.link.got = net.link.got /\ net'.link.ended = net.link.ended
      /\ net'.link.state = "closed"
  BY <1>2, QwenTypes, QwenLinkOps
<1>4. net.replaying
  BY <1>1 DEF QwenPcm, QwenPlace
<1>5. QwenHeard(app', audio', net')
  BY <1>1, <1>2, <1>3, <1>4, QwenTypes, QwenQuiet DEF QwenPcm
<1> QED
  BY <1>1, <1>5 DEF QwenPcm, QwenPlace

\* The receiver thread only listens.
LEMMA QwenDrainPcm ==
  ASSUME QwenInv, QwenPcm(pc, app, audio, net), Qwen!Drain
  PROVE  QwenPcm(pc', app', audio', net')
<1>1. UNCHANGED <<app, audio, pc>>
  BY DEF Qwen!Drain, Qwen!DrainQuits, Qwen!DrainFails, Qwen!DrainCompleted,
     Qwen!DrainFinished
<1>2. /\ net'.link.got = net.link.got /\ net'.link.ended = net.link.ended
      /\ net'.link.state = net.link.state
      /\ net'.replaying = net.replaying /\ net'.failed = net.failed
      /\ net.drainFailed => net'.drainFailed
  <2>1. CASE Qwen!DrainQuits
    BY <2>1, QwenTypes DEF Qwen!DrainQuits, QwenNets
  <2>2. CASE Qwen!DrainFails
    BY <2>2, QwenTypes DEF Qwen!DrainFails, QwenNets
  <2>3. CASE Qwen!DrainCompleted
    <3>1. PICK text \in {<<>>, net.link.got} :
            net' = [net EXCEPT !.completed = TRUE, !.text = text, !.link.told = TRUE]
      BY <2>3 DEF Qwen!DrainCompleted, Qwen!NoText
    <3>2. /\ net'.link = [net.link EXCEPT !.told = TRUE]
          /\ net'.replaying = net.replaying /\ net'.failed = net.failed
          /\ net'.drainFailed = net.drainFailed
      BY <3>1, QwenTypes DEF QwenNets
    <3> QED
      BY <3>2, QwenTypes DEF Links
  <2>4. CASE Qwen!DrainFinished
    BY <2>4, QwenTypes DEF Qwen!DrainFinished, QwenNets
  <2> QED
    BY <2>1, <2>2, <2>3, <2>4 DEF Qwen!Drain
<1>3. QwenHeard(app', audio', net')
  BY <1>1, <1>2, QwenTypes, QwenQuiet DEF QwenPcm
<1> QED
  BY <1>1, <1>2, <1>3 DEF QwenPcm, QwenPlace, Unused

\* The application's steps.
LEMMA QwenAppPcm ==
  ASSUME QwenInv, QwenPcm(pc, app, audio, net),
         TakesNothing(app, app'), audio' = audio, pc' \in {pc, "try", "waitStop", "ended"},
         pc' \in {"try", "waitStop"} => pc = "idle" \/ pc' = pc,
         pc # "idle" => (Open(app') => Open(app)),
         net'.replaying = net.replaying, net'.failed = net.failed,
         net'.drainFailed = net.drainFailed,
         net'.link.got = net.link.got, net'.link.ended = net.link.ended,
         net'.link.state = "up" => net.link.state = "up"
  PROVE  QwenPcm(pc', app', audio', net')
<1>1. /\ TakenInOrder(app, audio) => TakenInOrder(app', audio)
      /\ KeptInOrder(app, audio) => KeptInOrder(app', audio)
      /\ KeptNext(app, audio) => KeptNext(app', audio)
      /\ InHand(app, audio, net.link) => InHand(app', audio, net.link)
      /\ Hears(app, net.link) /\ (Open(app') => Open(app)) => Hears(app', net.link)
  BY TakesNothingLeaves
<1>2. ~net.replaying => Hears(app', net.link)
  <2>1. CASE pc = "idle" /\ ~net.replaying
    <3>1. Unused(net.link)
      BY <2>1 DEF QwenPcm, QwenPlace
    <3> QED
      BY <1>1, <2>1, <3>1, QwenTypes, TakesNothingLeaves
         DEF QwenPcm, QwenHeard, Hears, Unused, TakesNothing
  <2> QED
    BY <1>1, <2>1 DEF QwenPcm, QwenHeard
<1>3. QwenHeard(app', audio', net')
  BY <1>1, <1>2 DEF QwenPcm, QwenHeard, Hears, HearsReplay, InHand
<1> QED
  BY <1>3 DEF QwenPcm, QwenPlace, Unused

LEMMA QwenEnqueuePcm ==
  ASSUME QwenInv, QwenPcm(pc, app, audio, net), Enqueue
  PROVE  QwenPcm(pc', app', audio', net')
<1>1. /\ TakenInOrder(app', audio')
      /\ KeptInOrder(app, audio) => KeptInOrder(app', audio')
      /\ KeptInOrder(app, audio) /\ KeptNext(app, audio) => KeptNext(app', audio')
      /\ app'.mic = app.mic /\ app'.aborted = app.aborted /\ Open(app)
      /\ UNCHANGED <<pc, net>>
  BY QwenTypes, EnqueueOrder DEF QwenPcm, QwenHeard, Open
<1>2. /\ Hears(app, net.link) => Hears(app', net.link)
      /\ HearsReplay(audio, net.link) => HearsReplay(audio', net.link)
      /\ InHand(app, audio, net.link) => InHand(app', audio', net.link)
  BY QwenTypes, EnqueueHears DEF QwenPcm, QwenHeard
<1>3. QwenHeard(app', audio', net')
  BY <1>1, <1>2 DEF QwenPcm, QwenHeard
<1> QED
  BY <1>1, <1>3 DEF QwenPcm, QwenPlace, Open

LEMMA QwenNextPcm ==
  ASSUME QwenInv, QwenPcm(pc, app, audio, net), Qwen!Next
  PROVE  QwenPcm(pc', app', audio', net')
<1>1. CASE Qwen!Worker
  BY <1>1, QwenTryPcm, QwenConnectPcm, QwenConnectOkPcm, QwenConnectFailedPcm,
     QwenWaitsPcm, QwenTakePendingPcm, QwenSampleInputPcm, QwenFlushFullChunkPcm,
     QwenFlushedPcm, QwenLoopLeftPcm, QwenBufferPcm, QwenTakeRestPcm, QwenSendRestPcm,
     QwenSendFinishPcm, QwenFinishFailedPcm, QwenStopDrainPcm, QwenDrainJoinedPcm,
     QwenReplaySendPcm, QwenReplayFailedPcm, QwenReplayFinishedPcm DEF Qwen!Worker
<1>2. CASE Qwen!Drain
  BY <1>2, QwenDrainPcm
<1>3. CASE Qwen!Start
  <2>1. PICK first \in {"try", "waitStop"} : StartAt(first)
    BY <1>3 DEF Qwen!Start, Qwen!StartAt, StartAt
  <2>2. pc = "idle" /\ pc' = first /\ audio' = audio /\ net' = net
    BY <2>1 DEF StartAt
  <2> QED
    BY <2>1, <2>2, QwenTypes, StartTakesNothing, QwenAppPcm
<1>4. CASE Qwen!Abort
  <2>1. AbortWith([net EXCEPT !.link = Qwen!Aborted(net.link)])
    BY <1>4, QwenTypes DEF Qwen!Abort, Qwen!AbortWith, AbortWith, QwenNets
  <2>2. /\ pc' = pc /\ audio' = audio
        /\ net' = [net EXCEPT !.link = Qwen!Aborted(net.link)]
    BY <2>1 DEF AbortWith
  <2>3. /\ net'.link = Qwen!Aborted(net.link) /\ net'.replaying = net.replaying
        /\ net'.failed = net.failed /\ net'.drainFailed = net.drainFailed
    BY <2>2, QwenTypes DEF QwenNets
  <2>4. /\ net'.link.got = net.link.got /\ net'.link.ended = net.link.ended
        /\ net'.link.state = "up" => net.link.state = "up"
    BY <2>3, QwenTypes, QwenLinkOps
  <2>5. TakesNothing(app, app') /\ (Open(app') => Open(app))
    BY <2>1, QwenTypes, ApplicationTakesNothing
  <2> QED
    BY <2>2, <2>3, <2>4, <2>5, QwenAppPcm
<1>5. CASE Qwen!StopInput
  <2>1. StopInput
    BY <1>5, QwenStopInput
  <2>2. TakesNothing(app, app') /\ (Open(app') => Open(app))
    BY <2>1, QwenTypes, ApplicationTakesNothing
  <2> QED
    BY <2>1, <2>2, QwenAppPcm DEF StopInput
<1>6. CASE Qwen!Stopped
  <2>1. Stopped
    BY <1>6, QwenStopped DEF Ended
  <2>2. TakesNothing(app, app') /\ (Open(app') => Open(app))
    BY <2>1, QwenTypes, ApplicationTakesNothing
  <2> QED
    BY <2>1, <2>2, QwenAppPcm DEF Stopped
<1>7. CASE Qwen!Enqueue
  BY <1>7, QwenEnqueue, QwenEnqueuePcm
<1>8. CASE Qwen!Dispatch
  BY <1>8, QwenWaitsPcm DEF Qwen!Dispatch, Dispatch
<1> QED
  BY <1>1, <1>2, <1>3, <1>4, <1>5, <1>6, <1>7, <1>8 DEF Qwen!Next, Qwen!BaseNext

LEMMA QwenInitPcm ==
  ASSUME Qwen!Init
  PROVE  QwenPcm(pc, app, audio, net)
<1>1. /\ app.mic = "idle" /\ app.taken = <<>> /\ app.captured = 0
      /\ audio.pending = <<>> /\ audio.chunk = <<>> /\ audio.replay = <<>>
      /\ net.link = Qwen!NoLink /\ ~net.replaying /\ ~net.failed /\ pc = "idle"
  BY DEF Qwen!Init, Qwen!InitBase, Qwen!InitNet
<1>2. Unused(Qwen!NoLink)
  BY DEF Qwen!NoLink, Unused
<1>3. /\ TakenInOrder(app, audio) /\ KeptInOrder(app, audio) /\ KeptNext(app, audio)
      /\ InHand(app, audio, net.link) /\ Hears(app, net.link)
  BY <1>1, <1>2, NothingYet
<1> QED
  BY <1>1, <1>2, <1>3 DEF QwenPcm, QwenHeard, QwenPlace

---------------------------------------------------------------------------
(***************************************************************************)
(* Doubao.  As Qwen, but for the order of the replay: after a failure the  *)
(* frames in hand are kept behind what was buffered later.                 *)
(***************************************************************************)

DoubaoHeard(ap, au, n) ==
  /\ TakenInOrder(ap, au)
  /\ n.replaying /\ n.link.state = "up" => HearsReplay(au, n.link)
  /\ ~n.replaying => /\ Hears(ap, n.link)
                     /\ ~n.failed => InHand(ap, au, n.link)

DoubaoPlace(p, ap, au, n) ==
  /\ p \in {"idle", "try", "waitStop", "link", "connecting"} /\ ~n.replaying
       => Unused(n.link) /\ ~n.failed
  /\ p \in {"link", "connecting"} => Unused(n.link)
  /\ p \in {"send", "sample", "flush", "last", "finish", "finishSend"} => ~n.failed
  /\ p \in {"replaySend", "replayFinal"} => n.replaying
  /\ p = "buffer" => n.failed
  /\ p = "sent" => ~Open(ap) \/ n.failed \/ n.drainFailed
  /\ p = "rest" => ~Open(ap) \/ n.failed
  /\ p \in {"last", "finish", "finishSend"} => ~Open(ap) /\ au.pending = <<>>
  /\ p \in {"finish", "finishSend"} => au.chunk = <<>>

DoubaoPcm(p, ap, au, n) == DoubaoHeard(ap, au, n) /\ DoubaoPlace(p, ap, au, n)

LEMMA DoubaoTypes ==
  ASSUME DoubaoInv
  PROVE  /\ app \in AppStates /\ audio \in AudioStates /\ net \in DoubaoNets
         /\ SharedType /\ net.link \in Links
         /\ net.replaying \in BOOLEAN /\ net.failed \in BOOLEAN
         /\ net.drainFailed \in BOOLEAN /\ net.input \in BOOLEAN
         /\ pc \in DoubaoFirstSteps => ~net.replaying
         /\ pc = "idle" <=> app.mic = "idle"
  BY DEF DoubaoInv, Shared, SharedType, DoubaoNets, Lifecycle

\* No PCM is moved, and the connection has heard the same, or is a new one.
LEMMA DoubaoQuiet ==
  ASSUME app \in AppStates, audio \in AudioStates, DoubaoHeard(app, audio, net),
         UNCHANGED <<app, audio>>,
         net'.replaying = net.replaying,
         ~net.replaying /\ net.failed => net'.failed,
         \/ /\ net'.link.got = net.link.got /\ net'.link.ended = net.link.ended
            /\ net.replaying /\ net'.link.state = "up" => net.link.state = "up"
         \/ (~net.replaying => Unused(net.link)) /\ Unused(net'.link)
  PROVE  DoubaoHeard(app', audio', net')
<1> DEFINE l == net.link
           m == net'.link
<1> HIDE DEF l, m
<1>1. CASE /\ m.got = l.got /\ m.ended = l.ended
           /\ net.replaying /\ m.state = "up" => l.state = "up"
  BY <1>1 DEF DoubaoHeard, Hears, HearsReplay, InHand, l, m
<1>2. CASE Unused(m) /\ net.replaying
  <2>1. HearsReplay(audio, m)
    BY <1>2, UnusedHears
  <2> QED
    BY <1>2, <2>1 DEF DoubaoHeard, m
<1>3. CASE Unused(m) /\ Unused(l) /\ ~net.replaying
  <2>1. Hears(app, m) /\ Len(m.got) = Len(l.got)
    BY <1>3, UnusedHears DEF Unused
  <2> QED
    BY <1>3, <2>1 DEF DoubaoHeard, InHand, l, m
<1> QED
  BY <1>1, <1>2, <1>3 DEF l, m

LEMMA DoubaoTryPcm ==
  ASSUME DoubaoInv, DoubaoPcm(pc, app, audio, net), Doubao!Try
  PROVE  DoubaoPcm(pc', app', audio', net')
<1>1. /\ net' = [net EXCEPT !.tries = @ + 1, !.link = Doubao!FreshLink]
      /\ pc = "try" /\ pc' = "link" /\ UNCHANGED <<app, audio>>
  BY DEF Doubao!Try
<1>2. Unused(Doubao!FreshLink)
  BY DoubaoTypes, DoubaoLinkOps
<1>3. /\ net'.link = Doubao!FreshLink /\ net'.replaying = net.replaying
      /\ net'.failed = net.failed
  BY <1>1, DoubaoTypes DEF DoubaoNets
<1>4. DoubaoHeard(app', audio', net')
  BY <1>1, <1>2, <1>3, DoubaoTypes, DoubaoQuiet DEF DoubaoPcm, DoubaoPlace
<1> QED
  BY <1>1, <1>2, <1>3, <1>4 DEF DoubaoPcm, DoubaoPlace

LEMMA DoubaoConnectPcm ==
  ASSUME DoubaoInv, DoubaoPcm(pc, app, audio, net), Doubao!Connect
  PROVE  DoubaoPcm(pc', app', audio', net')
<1>1. /\ net' = [net EXCEPT !.link = Doubao!Connecting(@),
                            !.late = IF app.aborted THEN @ + 1 ELSE @]
      /\ pc = "link" /\ pc' = "connecting" /\ UNCHANGED <<app, audio>>
  BY DEF Doubao!Connect
<1>2. /\ net'.link = Doubao!Connecting(net.link) /\ net'.replaying = net.replaying
      /\ net'.failed = net.failed
  BY <1>1, DoubaoTypes DEF DoubaoNets
<1>3. Unused(net.link) /\ Unused(net'.link)
  BY <1>1, <1>2, DoubaoTypes, DoubaoLinkOps DEF Unused, DoubaoPcm, DoubaoPlace
<1>4. DoubaoHeard(app', audio', net')
  BY <1>1, <1>2, <1>3, DoubaoTypes, DoubaoQuiet DEF DoubaoPcm
<1> QED
  BY <1>1, <1>2, <1>3, <1>4 DEF DoubaoPcm, DoubaoPlace

LEMMA DoubaoConnectOkPcm ==
  ASSUME DoubaoInv, DoubaoPcm(pc, app, audio, net), Doubao!ConnectOk
  PROVE  DoubaoPcm(pc', app', audio', net')
<1>1. /\ pc = "connecting" /\ UNCHANGED <<app, audio>>
      /\ \/ /\ net' = [net EXCEPT !.link = Doubao!NoLink]
            /\ pc' = "try"
         \/ /\ net' = [net EXCEPT !.link = Doubao!Connected(@),
                                  !.drain = IF net.replaying THEN @ ELSE "on"]
            /\ pc' = IF net.replaying THEN "replaySend" ELSE "send"
  BY DEF Doubao!ConnectOk
<1>2. /\ net'.link \in {Doubao!NoLink, Doubao!Connected(net.link)}
      /\ net'.replaying = net.replaying /\ net'.failed = net.failed
  BY <1>1, DoubaoTypes DEF DoubaoNets
<1>3. Unused(net.link) /\ Unused(net'.link)
  BY <1>1, <1>2, DoubaoTypes, DoubaoLinkOps DEF Unused, DoubaoPcm, DoubaoPlace
<1>4. DoubaoHeard(app', audio', net')
  BY <1>1, <1>2, <1>3, DoubaoTypes, DoubaoQuiet DEF DoubaoPcm
<1> QED
  BY <1>1, <1>2, <1>3, <1>4 DEF DoubaoPcm, DoubaoPlace

LEMMA DoubaoConnectFailedPcm ==
  ASSUME DoubaoInv, DoubaoPcm(pc, app, audio, net), Doubao!ConnectFailed
  PROVE  DoubaoPcm(pc', app', audio', net')
<1>1. PICK refreshed, tries :
        net' = [net EXCEPT !.link = Doubao!NoLink, !.refreshed = refreshed,
                           !.tries = tries]
  BY DEF Doubao!ConnectFailed
<1>2. pc = "connecting" /\ pc' = "try" /\ UNCHANGED <<app, audio>>
  BY DEF Doubao!ConnectFailed
<1>3. /\ net'.link = Doubao!NoLink /\ net'.replaying = net.replaying
      /\ net'.failed = net.failed
  BY <1>1, DoubaoTypes DEF DoubaoNets
<1>4. Unused(net.link) /\ Unused(net'.link)
  BY <1>2, <1>3, DoubaoTypes, DoubaoLinkOps DEF Unused, DoubaoPcm, DoubaoPlace
<1>5. DoubaoHeard(app', audio', net')
  BY <1>2, <1>3, <1>4, DoubaoTypes, DoubaoQuiet DEF DoubaoPcm
<1> QED
  BY <1>2, <1>3, <1>4, <1>5 DEF DoubaoPcm, DoubaoPlace

\* Waiting, checking and concluding: the connection stays as it is.
LEMMA DoubaoSamePcm ==
  ASSUME DoubaoInv, DoubaoPcm(pc, app, audio, net), UNCHANGED <<app, audio>>,
         net'.link = net.link, net'.replaying = net.replaying,
         ~net.replaying /\ net.failed => net'.failed,
         DoubaoPlace(pc', app', audio', net')
  PROVE  DoubaoPcm(pc', app', audio', net')
<1>1. DoubaoHeard(app', audio', net')
  BY DoubaoTypes, DoubaoQuiet DEF DoubaoPcm
<1> QED
  BY <1>1 DEF DoubaoPcm

LEMMA DoubaoWaitsPcm ==
  ASSUME DoubaoInv, DoubaoPcm(pc, app, audio, net),
         \/ Doubao!NotConnected \/ Doubao!WaitForRecordingStop \/ Doubao!AwaitFinal
         \/ Doubao!ReplayGivenUp \/ Doubao!Decide \/ Dispatch
  PROVE  DoubaoPcm(pc', app', audio', net')
<1>1. /\ UNCHANGED <<app, audio, net>>
      /\ \/ pc = "try" /\ pc' = "waitStop" /\ ~net.replaying
         \/ pc' \in {"quit", "verdict", "dispatch", "stop"}
  BY DEF Doubao!NotConnected, Doubao!NoMoreTries, Doubao!WaitForRecordingStop,
         Doubao!AwaitFinal,
     Doubao!ReplayGivenUp, Doubao!Decide, Doubao!Conclude, Dispatch
<1>2. DoubaoPlace(pc', app', audio', net')
  BY <1>1 DEF DoubaoPcm, DoubaoPlace
<1> QED
  BY <1>1, <1>2, DoubaoSamePcm

LEMMA DoubaoTakePendingPcm ==
  ASSUME DoubaoInv, DoubaoPcm(pc, app, audio, net), Doubao!TakePending
  PROVE  DoubaoPcm(pc', app', audio', net')
<1>1. /\ pc = "send" /\ UNCHANGED <<app, net>>
      /\ \/ (app.aborted \/ net.drainFailed) /\ pc' = "sent" /\ audio' = audio
         \/ pc' = "sample" /\ audio' = Doubao!SwapPending(audio)
  BY DEF Doubao!TakePending
<1>2. ~net.failed /\ ~net.replaying
  BY <1>1, DoubaoTypes DEF DoubaoPcm, DoubaoPlace, DoubaoFirstSteps
<1>3. CASE pc' = "sent" /\ audio' = audio /\ (app.aborted \/ net.drainFailed)
  BY <1>1, <1>2, <1>3 DEF DoubaoPcm, DoubaoHeard, DoubaoPlace, Open
<1>4. CASE pc' = "sample" /\ audio' = Doubao!SwapPending(audio)
  <2>1. audio' = Swap(audio)
    BY <1>4 DEF Doubao!SwapPending, Swap
  <2>2. /\ TakenInOrder(app, audio')
        /\ ChunkAt(app, audio') = ChunkAt(app, audio)
        /\ ChunkNext(app, audio')
    <3>1. /\ TakenInOrder(app, audio) /\ ChunkNext(app, audio)
      BY <1>2 DEF DoubaoPcm, DoubaoHeard, InHand
    <3>2. app \in AppStates /\ audio \in AudioStates
      BY DoubaoTypes
    <3> QED
      BY <2>1, <3>1, <3>2, SwapOrder
  <2> QED
    BY <1>1, <1>2, <1>4, <2>2 DEF DoubaoPcm, DoubaoHeard, DoubaoPlace, InHand
<1> QED
  BY <1>1, <1>3, <1>4

LEMMA DoubaoSampleInputPcm ==
  ASSUME DoubaoInv, DoubaoPcm(pc, app, audio, net), Doubao!SampleInput
  PROVE  DoubaoPcm(pc', app', audio', net')
<1>1. /\ net' = [net EXCEPT !.input = Doubao!Streaming]
      /\ pc = "sample" /\ pc' = "flush" /\ UNCHANGED <<app, audio>>
  BY DEF Doubao!SampleInput
<1>2. /\ net'.link = net.link /\ net'.replaying = net.replaying
      /\ net'.failed = net.failed
  BY <1>1, DoubaoTypes DEF DoubaoNets
<1>3. DoubaoPlace(pc', app', audio', net')
  BY <1>1, <1>2 DEF DoubaoPcm, DoubaoPlace
<1> QED
  BY <1>1, <1>2, <1>3, DoubaoSamePcm

\* A frame goes out: the service has it, or the first attempt has failed.
LEMMA DoubaoSendFrontPcm ==
  ASSUME DoubaoInv, DoubaoHeard(app, audio, net), ~net.replaying, ~net.failed,
         UNCHANGED app, NEW n \in 0..Len(audio.chunk), NEW next, NEW failedAt,
         Doubao!SendFront(n, next, failedAt)
  PROVE  /\ DoubaoHeard(app', audio', net') /\ ~net'.replaying
         /\ audio'.pending = audio.pending
         /\ \/ pc' = next /\ ~net'.failed /\ Len(audio'.chunk) = Len(audio.chunk) - n
            \/ pc' = failedAt /\ net'.failed
<1> DEFINE front == SubSeq(audio.chunk, 1, n)
           kept == Doubao!Keep(audio, front)
<1>0. front \in Pcm
  BY DoubaoTypes, CutPcm DEF AudioStates
<1>1. PICK s \in Doubao!Sends(net.link, front, FALSE) :
        /\ audio' = IF s.ok THEN [kept EXCEPT !.chunk = SubSeq(@, n + 1, Len(@))]
                    ELSE kept
        /\ net' = [net EXCEPT !.link = s.link, !.failed = ~s.ok]
        /\ pc' = IF s.ok THEN next ELSE failedAt
  BY DEF Doubao!SendFront
<1>2. /\ s.link \in Links /\ s.ok \in BOOLEAN
      /\ s.ok => s.link.got = net.link.got \o front /\ s.link.ended = FALSE
      /\ ~s.ok => s.link.got = net.link.got /\ s.link.ended = net.link.ended
  BY <1>0, DoubaoTypes, DoubaoSent
<1>3. /\ Hears(app, net.link) /\ InHand(app, audio, net.link)
      /\ TakenInOrder(app, audio)
  BY DEF DoubaoHeard
<1>4. kept = Keep(audio, front) /\ front = SubSeq(audio.chunk, 1, n)
  BY <1>0, DoubaoTypes, DoubaoKeep
<1>5. /\ net'.link = s.link /\ net'.replaying = net.replaying /\ net'.failed = ~s.ok
  BY <1>1, <1>2, DoubaoTypes DEF DoubaoNets
<1> HIDE DEF kept, front
<1>6. ChunkNext(app, audio) /\ app \in AppStates /\ audio \in AudioStates
  BY <1>3, DoubaoTypes DEF InHand
<1>7. /\ Len(front) = n /\ PieceOf(front, ChunkAt(app, audio), app.taken)
      /\ kept \in AudioStates /\ TakenInOrder(app, kept)
      /\ kept.pending = audio.pending /\ kept.chunk = audio.chunk
  BY <1>3, <1>4, <1>6, FrontKept
<1>8. CASE s.ok
  <2>1. audio' = CutFront(kept, n)
    BY <1>1, <1>8 DEF CutFront
  <2>2. /\ TakenInOrder(app, audio') /\ audio'.pending = audio.pending
        /\ ChunkNext(app, audio') /\ ChunkAt(app, audio') = ChunkAt(app, audio) + n
        /\ Len(audio'.chunk) = Len(audio.chunk) - n
    BY <1>6, <1>7, <2>1, FrontCut
  <2>3. Hears(app, s.link) /\ Len(s.link.got) = Len(net.link.got) + Len(front)
    BY <1>0, <1>2, <1>3, <1>7, <1>8, DoubaoTypes, HearsMore DEF InHand
  <2>4. Len(s.link.got) = ChunkAt(app, audio')
    BY <1>3, <1>7, <2>2, <2>3 DEF InHand
  <2>5. pc' = next
    BY <1>1, <1>8
  <2> QED
    BY <1>5, <1>8, <2>2, <2>3, <2>4, <2>5 DEF DoubaoHeard, InHand
<1>9. CASE ~s.ok
  <2>1. audio' = kept /\ pc' = failedAt
    BY <1>1, <1>9
  <2>2. Hears(app, s.link)
    BY <1>2, <1>3, <1>9 DEF Hears
  <2> QED
    BY <1>5, <1>7, <1>9, <2>1, <2>2 DEF DoubaoHeard
<1> QED
  BY <1>8, <1>9

LEMMA DoubaoFlushFullFramePcm ==
  ASSUME DoubaoInv, DoubaoPcm(pc, app, audio, net), Doubao!FlushFullFrame
  PROVE  DoubaoPcm(pc', app', audio', net')
<1>1. /\ pc = "flush" /\ app' = app /\ Len(audio.chunk) >= ChunkUnits
      /\ Doubao!SendFront(ChunkUnits, "flush", "sent")
  BY DEF Doubao!FlushFullFrame
<1>2. ChunkUnits \in 0..Len(audio.chunk)
  BY <1>1, DoubaoTypes, Lengths, SessionAssumption
<1>3. ~net.replaying /\ ~net.failed
  BY <1>1, DoubaoTypes DEF DoubaoPcm, DoubaoPlace, DoubaoFirstSteps
<1>4. /\ DoubaoHeard(app', audio', net') /\ ~net'.replaying
      /\ \/ pc' = "flush" /\ ~net'.failed
         \/ pc' = "sent" /\ net'.failed
  BY <1>1, <1>2, <1>3, DoubaoSendFrontPcm DEF DoubaoPcm
<1> QED
  BY <1>4 DEF DoubaoPcm, DoubaoPlace

LEMMA DoubaoFlushedPcm ==
  ASSUME DoubaoInv, DoubaoPcm(pc, app, audio, net), Doubao!Flushed
  PROVE  DoubaoPcm(pc', app', audio', net')
<1>1. /\ pc = "flush" /\ UNCHANGED <<app, audio>>
      /\ pc' = IF audio.overflowed \/ ~net.input THEN "sent" ELSE "send"
      /\ net' = [net EXCEPT !.failed = audio.overflowed]
  BY DEF Doubao!Flushed
<1>2. /\ net'.link = net.link /\ net'.replaying = net.replaying
      /\ net'.failed = audio.overflowed
  BY <1>1, DoubaoTypes DEF DoubaoNets
<1>3. ~net.input => ~Open(app)
  BY DEF DoubaoInv, Open
<1>4. ~net.failed
  BY <1>1 DEF DoubaoPcm, DoubaoPlace
<1>5. DoubaoPlace(pc', app', audio', net')
  BY <1>1, <1>2, <1>3, <1>4 DEF DoubaoPlace
<1> QED
  BY <1>1, <1>2, <1>4, <1>5, DoubaoSamePcm

LEMMA DoubaoLoopLeftPcm ==
  ASSUME DoubaoInv, DoubaoPcm(pc, app, audio, net), Doubao!LoopLeft
  PROVE  DoubaoPcm(pc', app', audio', net')
<1>1. /\ pc = "sent" /\ UNCHANGED <<app, audio>>
      /\ net' = [net EXCEPT !.failed = net.failed \/ net.drainFailed]
      /\ pc' = IF app.aborted THEN "quit"
               ELSE IF (net.failed \/ net.drainFailed) /\ Open(app)
               THEN "buffer" ELSE "rest"
  BY DEF Doubao!LoopLeft, Doubao!Streaming, Open
<1>2. /\ net'.link = net.link /\ net'.replaying = net.replaying
      /\ net'.failed = (net.failed \/ net.drainFailed)
  BY <1>1, DoubaoTypes DEF DoubaoNets
<1>3. DoubaoPlace(pc', app', audio', net')
  BY <1>1, <1>2 DEF DoubaoPcm, DoubaoPlace
<1> QED
  BY <1>1, <1>2, <1>3, DoubaoSamePcm

LEMMA DoubaoBufferPcm ==
  ASSUME DoubaoInv, DoubaoPcm(pc, app, audio, net), Doubao!Buffer
  PROVE  DoubaoPcm(pc', app', audio', net')
<1>1. /\ pc = "buffer" /\ UNCHANGED <<app, net>> /\ pc' \in {"buffer", "rest"}
      /\ audio' \in {audio, KeepPending(audio)}
  BY DEF Doubao!Buffer, Doubao!KeepPending, KeepPending, Doubao!Keep, Keep
<1>2. net.failed /\ ~net.replaying
  BY <1>1, DoubaoTypes DEF DoubaoPcm, DoubaoPlace, DoubaoFirstSteps
<1>3. TakenInOrder(app, audio')
  BY <1>1, DoubaoTypes, KeepPendingOrder DEF DoubaoPcm, DoubaoHeard
<1> QED
  BY <1>1, <1>2, <1>3 DEF DoubaoPcm, DoubaoHeard, DoubaoPlace

LEMMA DoubaoTakeRestPcm ==
  ASSUME DoubaoInv, DoubaoPcm(pc, app, audio, net), Doubao!TakeRest
  PROVE  DoubaoPcm(pc', app', audio', net')
<1> DEFINE kept == Keep(audio, audio.chunk)
<1>1. /\ pc = "rest" /\ UNCHANGED <<app, net>>
      /\ \/ net.failed /\ pc' = "quit"
            /\ audio' = [kept EXCEPT !.pending = <<>>, !.overflowed = FALSE]
         \/ ~net.failed /\ pc' = "last" /\ audio' = Swap(audio)
  BY DEF Doubao!TakeRest, Doubao!SwapPending, Swap, Doubao!Keep, Keep
<1>2. ~net.replaying
  BY <1>1, DoubaoTypes DEF DoubaoFirstSteps
<1>3. CASE /\ net.failed /\ pc' = "quit"
           /\ audio' = [kept EXCEPT !.pending = <<>>, !.overflowed = FALSE]
  <2>1. audio' \in AudioStates /\ audio'.pending = <<>>
    <3> DEFINE none == <<>>
    <3>1. /\ kept \in AudioStates /\ none \in Pcm
          /\ audio' = [kept EXCEPT !.pending = none, !.overflowed = FALSE]
      BY <1>3, DoubaoTypes, KeepType DEF AudioStates, Pcm
    <3> HIDE DEF none, kept
    <3>2. audio' \in AudioStates /\ audio'.pending = none
      BY <3>1 DEF AudioStates
    <3> QED
      BY <3>2 DEF none
  <2>2. TakenInOrder(app, audio')
    BY <2>1, DoubaoTypes, NothingPending DEF DoubaoPcm, DoubaoHeard
  <2> QED
    BY <1>1, <1>2, <1>3, <2>2 DEF DoubaoPcm, DoubaoHeard, DoubaoPlace
<1>4. CASE ~net.failed /\ pc' = "last" /\ audio' = Swap(audio)
  <2>1. /\ TakenInOrder(app, audio') /\ ChunkNext(app, audio')
        /\ ChunkAt(app, audio') = ChunkAt(app, audio) /\ audio'.pending = <<>>
    <3>1. TakenInOrder(app, audio) /\ ChunkNext(app, audio)
      BY <1>2, <1>4 DEF DoubaoPcm, DoubaoHeard, InHand
    <3>2. app \in AppStates /\ audio \in AudioStates
      BY DoubaoTypes
    <3> QED
      BY <1>4, <3>1, <3>2, SwapOrder
  <2>2. ~Open(app)
    BY <1>1, <1>4 DEF DoubaoPcm, DoubaoPlace
  <2> QED
    BY <1>1, <1>2, <1>4, <2>1, <2>2 DEF DoubaoPcm, DoubaoHeard, DoubaoPlace, InHand
<1> QED
  BY <1>1, <1>3, <1>4

LEMMA DoubaoSendRestPcm ==
  ASSUME DoubaoInv, DoubaoPcm(pc, app, audio, net), Doubao!SendRest
  PROVE  DoubaoPcm(pc', app', audio', net')
<1> DEFINE n == Smaller(ChunkUnits, Len(audio.chunk))
           next == IF Len(audio.chunk) < ChunkUnits THEN "finish" ELSE "last"
<1>1. /\ pc = "last" /\ app' = app
      /\ Doubao!SendFront(n, next, "quit")
  BY DEF Doubao!SendRest, Doubao!Smaller, Smaller
<1>2. /\ n \in 0..Len(audio.chunk)
      /\ next = "last" \/ (next = "finish" /\ Len(audio.chunk) - n = 0)
  <2> DEFINE m == Len(audio.chunk)
  <2>1. m \in Nat /\ ChunkUnits \in Nat
    BY DoubaoTypes, Lengths, SessionAssumption
  <2>3. n = Smaller(ChunkUnits, m) /\ next = IF m < ChunkUnits THEN "finish" ELSE "last"
    OBVIOUS
  <2> HIDE DEF m, n, next
  <2>2. n \in 0..m /\ (next = "last" \/ (next = "finish" /\ m - n = 0))
    <3>4. CASE m < ChunkUnits
      <4>1. n = m /\ next = "finish"
        <5>1. ~(ChunkUnits < m)
          BY <2>1, <3>4
        <5> QED
          BY <2>3, <3>4, <5>1 DEF Smaller
      <4> QED
        BY <2>1, <4>1
    <3>5. CASE ~(m < ChunkUnits)
      <4>1. n \in {m, ChunkUnits} /\ next = "last"
        BY <2>3, <3>5 DEF Smaller
      <4> QED
        BY <2>1, <3>5, <4>1
    <3> QED
      BY <3>4, <3>5
  <2> QED
    BY <2>2 DEF m
<1>3. ~net.replaying /\ ~net.failed /\ ~Open(app) /\ audio.pending = <<>>
  BY <1>1, DoubaoTypes DEF DoubaoPcm, DoubaoPlace, DoubaoFirstSteps
<1> HIDE DEF n, next
<1>4. /\ DoubaoHeard(app', audio', net') /\ ~net'.replaying
      /\ audio'.pending = audio.pending
      /\ \/ pc' = next /\ ~net'.failed /\ Len(audio'.chunk) = Len(audio.chunk) - n
         \/ pc' = "quit" /\ net'.failed
  BY <1>1, <1>2, <1>3, DoubaoSendFrontPcm DEF DoubaoPcm
<1>5. audio'.chunk \in Pcm
  BY <1>1, DoubaoSendRest DEF DoubaoInv, Shared, SharedType, AudioStates
<1>6. pc' = "finish" => audio'.chunk = <<>>
  BY <1>2, <1>4, <1>5 DEF Pcm
<1> QED
  BY <1>1, <1>2, <1>3, <1>4, <1>6 DEF DoubaoPcm, DoubaoPlace

\* A frame of silence, which stands for no unit, or the end of the session.
LEMMA DoubaoSendNothingPcm ==
  ASSUME DoubaoInv, DoubaoHeard(app, audio, net), ~net.replaying, ~net.failed,
         UNCHANGED <<app, audio>>, NEW last \in BOOLEAN,
         last => net.link.got = app.taken /\ ~Open(app),
         NEW s \in Doubao!Sends(net.link, <<>>, last),
         net' = [net EXCEPT !.link = s.link, !.failed = ~s.ok]
  PROVE  /\ DoubaoHeard(app', audio', net') /\ ~net'.replaying
         /\ net'.failed = ~s.ok
<1>1. <<>> \in Pcm /\ net.link.got \in Pcm /\ net.link.got \o <<>> = net.link.got
  BY DoubaoTypes DEF Links, Pcm
<1>2. /\ s.link \in Links /\ s.ok \in BOOLEAN /\ s.link.got = net.link.got
      /\ s.ok => s.link.ended = last
      /\ ~s.ok => s.link.ended = net.link.ended
  <2>1. /\ s.link \in Links /\ s.ok \in BOOLEAN
        /\ s.ok => s.link.got = net.link.got \o <<>> /\ s.link.ended = last
        /\ ~s.ok => s.link.got = net.link.got /\ s.link.ended = net.link.ended
    BY <1>1, DoubaoTypes, DoubaoSent
  <2> QED
    BY <1>1, <2>1
<1>3. net'.link = s.link /\ net'.replaying = net.replaying /\ net'.failed = ~s.ok
  BY <1>2, DoubaoTypes DEF DoubaoNets
<1>4. Hears(app, net.link) /\ InHand(app, audio, net.link) /\ TakenInOrder(app, audio)
  BY DEF DoubaoHeard
<1>5. Hears(app, s.link)
  BY <1>2, <1>4, DoubaoTypes DEF Hears, Open, AppStates
<1> QED
  BY <1>2, <1>3, <1>4, <1>5 DEF DoubaoHeard, InHand

LEMMA DoubaoSendLastPcm ==
  ASSUME DoubaoInv, DoubaoPcm(pc, app, audio, net), Doubao!SendLast
  PROVE  DoubaoPcm(pc', app', audio', net')
<1>1. pc = "last" /\ UNCHANGED <<app, audio>>
  BY DEF Doubao!SendLast
<1>2. ~net.replaying /\ ~net.failed /\ ~Open(app) /\ audio.pending = <<>>
  BY <1>1, DoubaoTypes DEF DoubaoPcm, DoubaoPlace, DoubaoFirstSteps
<1>3. CASE pc' \in {"quit", "finish"} /\ net' = net /\ (pc' = "quit" \/ audio.chunk = <<>>)
  BY <1>1, <1>2, <1>3 DEF DoubaoPcm, DoubaoHeard, DoubaoPlace
<1>4. ASSUME NEW s \in Doubao!Sends(net.link, <<>>, FALSE),
             net' = [net EXCEPT !.link = s.link, !.failed = ~s.ok],
             pc' = IF s.ok THEN "finish" ELSE "quit", audio.chunk = <<>>
      PROVE  DoubaoPcm(pc', app', audio', net')
  <2>1. /\ DoubaoHeard(app', audio', net') /\ ~net'.replaying
        /\ net'.failed = ~s.ok
    BY <1>1, <1>2, <1>4, DoubaoSendNothingPcm DEF DoubaoPcm
  <2> QED
    BY <1>1, <1>2, <1>4, <2>1 DEF DoubaoPcm, DoubaoPlace
<1>5. app.aborted \/ audio.chunk = <<>>
  BY DEF Doubao!SendLast
<1> QED
  BY <1>3, <1>4, <1>5 DEF Doubao!SendLast

LEMMA DoubaoAnnounceFinishPcm ==
  ASSUME DoubaoInv, DoubaoPcm(pc, app, audio, net), Doubao!AnnounceFinish
  PROVE  DoubaoPcm(pc', app', audio', net')
<1>1. /\ pc = "finish" /\ pc' \in {"quit", "finishSend"} /\ UNCHANGED <<app, audio>>
      /\ net' = net \/ net' = [net EXCEPT !.finishSent = TRUE]
  BY DEF Doubao!AnnounceFinish
<1>2. /\ net'.link = net.link /\ net'.replaying = net.replaying
      /\ net'.failed = net.failed
  BY <1>1, DoubaoTypes DEF DoubaoNets
<1>3. DoubaoPlace(pc', app', audio', net')
  BY <1>1, <1>2 DEF DoubaoPcm, DoubaoPlace
<1> QED
  BY <1>1, <1>2, <1>3, DoubaoSamePcm

\* The end is told when the chunk and the pending buffer are empty.
LEMMA DoubaoSendFinishPcm ==
  ASSUME DoubaoInv, DoubaoPcm(pc, app, audio, net), Doubao!SendFinish
  PROVE  DoubaoPcm(pc', app', audio', net')
<1>1. pc = "finishSend" /\ UNCHANGED <<app, audio>>
  BY DEF Doubao!SendFinish
<1>2. /\ ~net.replaying /\ ~net.failed /\ ~Open(app)
      /\ audio.pending = <<>> /\ audio.chunk = <<>>
  BY <1>1, DoubaoTypes DEF DoubaoPcm, DoubaoPlace, DoubaoFirstSteps
<1>3. Hears(app, net.link) /\ InHand(app, audio, net.link)
  BY <1>2 DEF DoubaoPcm, DoubaoHeard
<1>4. net.link.got = app.taken
  <2>1. Len(net.link.got) = PendingAt(app, audio)
    <3>1. Len(audio.chunk) = 0 /\ PendingAt(app, audio) \in Int
      BY <1>2, DoubaoTypes, Lengths
    <3> QED
      BY <1>3, <3>1 DEF InHand, ChunkAt
  <2> QED
    BY <1>2, <1>3, <2>1, DoubaoTypes, HeardAll
<1>5. PICK s \in Doubao!Sends(net.link, <<>>, TRUE) :
        /\ net' = [net EXCEPT !.link = s.link, !.failed = ~s.ok]
        /\ pc' = IF s.ok THEN "final" ELSE "quit"
  BY DEF Doubao!SendFinish
<1>6. DoubaoHeard(app', audio', net') /\ ~net'.replaying
  BY <1>1, <1>2, <1>4, <1>5, DoubaoSendNothingPcm DEF DoubaoPcm
<1> QED
  BY <1>1, <1>5, <1>6 DEF DoubaoPcm, DoubaoPlace

LEMMA DoubaoFinalFailedPcm ==
  ASSUME DoubaoInv, DoubaoPcm(pc, app, audio, net), Doubao!FinalFailed
  PROVE  DoubaoPcm(pc', app', audio', net')
<1>1. /\ net' = [net EXCEPT !.failed = TRUE]
      /\ pc = "final" /\ pc' = "quit" /\ UNCHANGED <<app, audio>>
  BY DEF Doubao!FinalFailed
<1>2. net'.link = net.link /\ net'.replaying = net.replaying /\ net'.failed
  BY <1>1, DoubaoTypes DEF DoubaoNets
<1>3. DoubaoPlace(pc', app', audio', net')
  BY <1>1 DEF DoubaoPlace
<1> QED
  BY <1>1, <1>2, <1>3, DoubaoSamePcm

LEMMA DoubaoStopDrainPcm ==
  ASSUME DoubaoInv, DoubaoPcm(pc, app, audio, net), Doubao!StopDrain
  PROVE  DoubaoPcm(pc', app', audio', net')
<1>1. pc = "quit" /\ pc' = "join" /\ UNCHANGED <<app, audio>>
  BY DEF Doubao!StopDrain
<1>2. /\ net'.link \in {net.link, Doubao!Aborted(net.link)}
      /\ net'.replaying = net.replaying /\ net'.failed = net.failed
  BY DoubaoTypes DEF Doubao!StopDrain, DoubaoNets
<1>3. net'.link.got = net.link.got /\ net'.link.ended = net.link.ended
  BY <1>2, DoubaoTypes, DoubaoLinkOps
<1>4. ~net.replaying
  BY <1>1, DoubaoTypes DEF DoubaoFirstSteps
<1>5. DoubaoHeard(app', audio', net')
  BY <1>1, <1>2, <1>3, <1>4, DoubaoTypes, DoubaoQuiet DEF DoubaoPcm
<1> QED
  BY <1>1, <1>5 DEF DoubaoPcm, DoubaoPlace

LEMMA DoubaoDrainJoinedPcm ==
  ASSUME DoubaoInv, DoubaoPcm(pc, app, audio, net), Doubao!DrainJoined
  PROVE  DoubaoPcm(pc', app', audio', net')
<1>1. /\ pc = "join" /\ UNCHANGED <<app, audio>>
      /\ pc' \in {"stop", "try", "verdict"}
      /\ pc' = "try" => ~app.aborted /\ Doubao!ReplayWanted
  BY DEF Doubao!DrainJoined
<1>2. (~app.aborted /\ Doubao!ReplayWanted) \in BOOLEAN
  OBVIOUS
<1>3. /\ net'.link = Doubao!Shut(net.link) /\ net'.failed = net.failed
      /\ net'.replaying = (~app.aborted /\ Doubao!ReplayWanted)
  BY <1>2, DoubaoTypes DEF Doubao!DrainJoined, DoubaoNets
<1>4. /\ net'.link.got = net.link.got /\ net'.link.ended = net.link.ended
      /\ net'.link.state = "closed"
  BY <1>3, DoubaoTypes, DoubaoLinkOps
<1>5. ~net.replaying
  BY <1>1, DoubaoTypes DEF DoubaoFirstSteps
<1>6. DoubaoHeard(app', audio', net')
  BY <1>1, <1>3, <1>4, <1>5 DEF DoubaoPcm, DoubaoHeard, Hears, InHand
<1> QED
  BY <1>1, <1>3, <1>6 DEF DoubaoPcm, DoubaoPlace

\* A chunk of the replay, or its end; a failure gives the connection up.
LEMMA DoubaoReplaySendPcm ==
  ASSUME DoubaoInv, DoubaoPcm(pc, app, audio, net), Doubao!ReplaySend
  PROVE  DoubaoPcm(pc', app', audio', net')
<1> DEFINE units == ReplayUnits(audio, net.link)
           last == ReplayOver(audio, net.link)
<1>1. pc = "replaySend" /\ UNCHANGED <<app, audio>>
  BY DEF Doubao!ReplaySend
<1>2. units \in Pcm /\ last \in BOOLEAN
  BY DoubaoTypes, DoubaoReplayUnits DEF ReplayUnits, ReplayOver
<1>3. PICK s \in Doubao!Sends(net.link, units, last) :
        \/ net' = [net EXCEPT !.link = Doubao!NoLink] /\ pc' = "try"
        \/ /\ s.ok /\ net' = [net EXCEPT !.link = s.link]
           /\ pc' \in {"replayFinal", "replaySend"}
  BY DEF Doubao!ReplaySend, Doubao!Smaller, Smaller, ReplayUnits, ReplayOver
<1>4. CASE /\ net' = [net EXCEPT !.link = Doubao!NoLink]
           /\ pc' = "try"
  <2>1. /\ net'.link = Doubao!NoLink /\ net'.replaying = net.replaying
        /\ net'.failed = net.failed
    BY <1>4, DoubaoTypes DEF DoubaoNets
  <2>2. net.replaying
    BY <1>1 DEF DoubaoPcm, DoubaoPlace
  <2>3. Unused(net'.link)
    BY <2>1, DoubaoTypes, DoubaoLinkOps
  <2>4. DoubaoHeard(app', audio', net')
    BY <1>1, <2>1, <2>2, <2>3, DoubaoTypes, DoubaoQuiet DEF DoubaoPcm
  <2> QED
    BY <1>4, <2>1, <2>2, <2>4 DEF DoubaoPcm, DoubaoPlace
<1>5. CASE /\ s.ok /\ net' = [net EXCEPT !.link = s.link]
           /\ pc' \in {"replayFinal", "replaySend"}
  <2> HIDE DEF units, last
  <2>1. /\ s.link \in Links /\ s.link.got = net.link.got \o units /\ s.link.ended = last
        /\ net.link.state = "up"
    BY <1>2, <1>3, <1>5, DoubaoTypes, DoubaoSent
  <2>2. /\ net'.link = s.link /\ net'.replaying = net.replaying
        /\ net'.failed = net.failed
    BY <1>5, DoubaoTypes DEF DoubaoNets
  <2>3. net.replaying
    BY <1>1 DEF DoubaoPcm, DoubaoPlace
  <2>4. HearsReplay(audio, net.link)
    BY <2>1, <2>3 DEF DoubaoPcm, DoubaoHeard
  <2>5. HearsReplay(audio, s.link)
    BY <2>1, <2>4, DoubaoTypes, HearsReplayMore DEF units, last
  <2> QED
    BY <1>1, <1>5, <2>2, <2>3, <2>5 DEF DoubaoPcm, DoubaoHeard, DoubaoPlace
<1> QED
  BY <1>3, <1>4, <1>5

LEMMA DoubaoReplayFailedPcm ==
  ASSUME DoubaoInv, DoubaoPcm(pc, app, audio, net), Doubao!ReplayFailed
  PROVE  DoubaoPcm(pc', app', audio', net')
<1>1. /\ net' = [net EXCEPT !.link = Doubao!NoLink]
      /\ pc = "replayFinal" /\ pc' = "try" /\ UNCHANGED <<app, audio>>
  BY DEF Doubao!ReplayFailed
<1>2. /\ net'.link = Doubao!NoLink /\ net'.replaying = net.replaying
      /\ net'.failed = net.failed
  BY <1>1, DoubaoTypes DEF DoubaoNets
<1>3. net.replaying /\ Unused(net'.link)
  BY <1>1, <1>2, DoubaoTypes, DoubaoLinkOps DEF DoubaoPcm, DoubaoPlace
<1>4. DoubaoHeard(app', audio', net')
  BY <1>1, <1>2, <1>3, DoubaoTypes, DoubaoQuiet DEF DoubaoPcm
<1> QED
  BY <1>1, <1>2, <1>3, <1>4 DEF DoubaoPcm, DoubaoPlace

LEMMA DoubaoReplayFinishedPcm ==
  ASSUME DoubaoInv, DoubaoPcm(pc, app, audio, net), Doubao!ReplayFinished
  PROVE  DoubaoPcm(pc', app', audio', net')
<1>1. pc = "replayFinal" /\ pc' = "verdict" /\ UNCHANGED <<app, audio>>
  BY DEF Doubao!ReplayFinished
<1>2. net'.link = Doubao!Shut(net.link) /\ net'.replaying = net.replaying
  BY DoubaoTypes DEF Doubao!ReplayFinished, DoubaoNets
<1>3. /\ net'.link.got = net.link.got /\ net'.link.ended = net.link.ended
      /\ net'.link.state = "closed"
  BY <1>2, DoubaoTypes, DoubaoLinkOps
<1>4. net.replaying
  BY <1>1 DEF DoubaoPcm, DoubaoPlace
<1>5. DoubaoHeard(app', audio', net')
  BY <1>1, <1>2, <1>3, <1>4, DoubaoTypes, DoubaoQuiet DEF DoubaoPcm
<1> QED
  BY <1>1, <1>5 DEF DoubaoPcm, DoubaoPlace

\* The receiver thread only listens.
LEMMA DoubaoDrainPcm ==
  ASSUME DoubaoInv, DoubaoPcm(pc, app, audio, net), Doubao!Drain
  PROVE  DoubaoPcm(pc', app', audio', net')
<1>1. UNCHANGED <<app, audio, pc>>
  BY DEF Doubao!Drain, Doubao!DrainQuits, Doubao!DrainFails, Doubao!DrainText,
     Doubao!DrainFinished
<1>2. /\ net'.link.got = net.link.got /\ net'.link.ended = net.link.ended
      /\ net'.link.state = net.link.state
      /\ net'.replaying = net.replaying /\ net'.failed = net.failed
      /\ net.drainFailed => net'.drainFailed
  <2>1. CASE Doubao!DrainQuits
    BY <2>1, DoubaoTypes DEF Doubao!DrainQuits, DoubaoNets
  <2>2. CASE Doubao!DrainFails
    BY <2>2, DoubaoTypes DEF Doubao!DrainFails, DoubaoNets
  <2>3. CASE Doubao!DrainText
    <3>1. PICK text \in Doubao!Prefixes(net.link.got), segmentEnd \in BOOLEAN :
            net' = [net EXCEPT !.text = text,
                      !.drain = IF Doubao!LastEvent THEN "done" ELSE @,
                      !.postFinal = @ \/ (segmentEnd /\ net.finishSent),
                      !.link.told = segmentEnd /\ net.link.ended /\ text = net.link.got]
      BY <2>3 DEF Doubao!DrainText
    <3> DEFINE told == segmentEnd /\ net.link.ended /\ text = net.link.got
    <3>2. /\ net'.link = [net.link EXCEPT !.told = told]
          /\ net'.replaying = net.replaying /\ net'.failed = net.failed
          /\ net'.drainFailed = net.drainFailed
      BY <3>1, DoubaoTypes DEF DoubaoNets
    <3> QED
      BY <3>2, DoubaoTypes DEF Links
  <2>4. CASE Doubao!DrainFinished
    BY <2>4, DoubaoTypes DEF Doubao!DrainFinished, DoubaoNets
  <2> QED
    BY <2>1, <2>2, <2>3, <2>4 DEF Doubao!Drain
<1>3. DoubaoHeard(app', audio', net')
  BY <1>1, <1>2, DoubaoTypes, DoubaoQuiet DEF DoubaoPcm
<1> QED
  BY <1>1, <1>2, <1>3 DEF DoubaoPcm, DoubaoPlace, Unused

\* The application's steps.
LEMMA DoubaoAppPcm ==
  ASSUME DoubaoInv, DoubaoPcm(pc, app, audio, net),
         TakesNothing(app, app'), audio' = audio, pc' \in {pc, "try", "waitStop", "ended"},
         pc' \in {"try", "waitStop"} => pc = "idle" \/ pc' = pc,
         pc # "idle" => (Open(app') => Open(app)),
         net'.replaying = net.replaying, net'.failed = net.failed,
         net'.drainFailed = net.drainFailed,
         net'.link.got = net.link.got, net'.link.ended = net.link.ended,
         net'.link.state = "up" => net.link.state = "up"
  PROVE  DoubaoPcm(pc', app', audio', net')
<1>1. /\ TakenInOrder(app, audio) => TakenInOrder(app', audio)
      /\ InHand(app, audio, net.link) => InHand(app', audio, net.link)
      /\ Hears(app, net.link) /\ (Open(app') => Open(app)) => Hears(app', net.link)
  BY TakesNothingLeaves
<1>2. ~net.replaying => Hears(app', net.link)
  <2>1. CASE pc = "idle" /\ ~net.replaying
    <3>1. Unused(net.link)
      BY <2>1 DEF DoubaoPcm, DoubaoPlace
    <3> QED
      BY <1>1, <2>1, <3>1, DoubaoTypes, TakesNothingLeaves
         DEF DoubaoPcm, DoubaoHeard, Hears, Unused, TakesNothing
  <2> QED
    BY <1>1, <2>1 DEF DoubaoPcm, DoubaoHeard
<1>3. DoubaoHeard(app', audio', net')
  BY <1>1, <1>2 DEF DoubaoPcm, DoubaoHeard, Hears, HearsReplay, InHand
<1> QED
  BY <1>3 DEF DoubaoPcm, DoubaoPlace, Unused

LEMMA DoubaoEnqueuePcm ==
  ASSUME DoubaoInv, DoubaoPcm(pc, app, audio, net), Enqueue
  PROVE  DoubaoPcm(pc', app', audio', net')
<1>1. /\ TakenInOrder(app', audio')
      /\ app'.mic = app.mic /\ app'.aborted = app.aborted /\ Open(app)
      /\ UNCHANGED <<pc, net>>
  BY DoubaoTypes, EnqueueOrder DEF DoubaoPcm, DoubaoHeard, Open
<1>2. /\ Hears(app, net.link) => Hears(app', net.link)
      /\ HearsReplay(audio, net.link) => HearsReplay(audio', net.link)
      /\ InHand(app, audio, net.link) => InHand(app', audio', net.link)
  BY DoubaoTypes, EnqueueHears DEF DoubaoPcm, DoubaoHeard
<1>3. DoubaoHeard(app', audio', net')
  BY <1>1, <1>2 DEF DoubaoPcm, DoubaoHeard
<1> QED
  BY <1>1, <1>3 DEF DoubaoPcm, DoubaoPlace, Open

LEMMA DoubaoNextPcm ==
  ASSUME DoubaoInv, DoubaoPcm(pc, app, audio, net), Doubao!Next
  PROVE  DoubaoPcm(pc', app', audio', net')
<1>1. CASE Doubao!Worker
  BY <1>1, DoubaoTryPcm, DoubaoConnectPcm, DoubaoConnectOkPcm, DoubaoConnectFailedPcm,
     DoubaoWaitsPcm, DoubaoTakePendingPcm, DoubaoSampleInputPcm, DoubaoFlushFullFramePcm,
     DoubaoFlushedPcm, DoubaoLoopLeftPcm, DoubaoBufferPcm, DoubaoTakeRestPcm,
     DoubaoSendRestPcm,
     DoubaoSendLastPcm, DoubaoAnnounceFinishPcm, DoubaoSendFinishPcm, DoubaoFinalFailedPcm,
     DoubaoStopDrainPcm, DoubaoDrainJoinedPcm,
     DoubaoReplaySendPcm, DoubaoReplayFailedPcm, DoubaoReplayFinishedPcm DEF Doubao!Worker
<1>2. CASE Doubao!Drain
  BY <1>2, DoubaoDrainPcm
<1>3. CASE Doubao!Start
  <2>1. PICK first \in {"try"} : StartAt(first)
    BY <1>3 DEF Doubao!Start, Doubao!StartAt, StartAt
  <2>2. pc = "idle" /\ pc' = first /\ audio' = audio /\ net' = net
    BY <2>1 DEF StartAt
  <2> QED
    BY <2>1, <2>2, DoubaoTypes, StartTakesNothing, DoubaoAppPcm
<1>4. CASE Doubao!Abort
  <2>1. PICK l \in {net.link, Doubao!Aborted(net.link)} :
          AbortWith([net EXCEPT !.link = l])
    BY <1>4, DoubaoTypes DEF Doubao!Abort, Doubao!AbortWith, AbortWith, DoubaoNets
  <2>2. pc' = pc /\ audio' = audio /\ net' = [net EXCEPT !.link = l]
    BY <2>1 DEF AbortWith
  <2>3. /\ net'.link = l /\ net'.replaying = net.replaying
        /\ net'.failed = net.failed /\ net'.drainFailed = net.drainFailed
    BY <2>2, DoubaoTypes DEF DoubaoNets
  <2>4. /\ net'.link.got = net.link.got /\ net'.link.ended = net.link.ended
        /\ net'.link.state = "up" => net.link.state = "up"
    BY <2>3, DoubaoTypes, DoubaoLinkOps
  <2>5. TakesNothing(app, app') /\ (Open(app') => Open(app))
    BY <2>1, DoubaoTypes, ApplicationTakesNothing
  <2> QED
    BY <2>2, <2>3, <2>4, <2>5, DoubaoAppPcm
<1>5. CASE Doubao!StopInput
  <2>1. StopInput
    BY <1>5, DoubaoStopInput
  <2>2. TakesNothing(app, app') /\ (Open(app') => Open(app))
    BY <2>1, DoubaoTypes, ApplicationTakesNothing
  <2> QED
    BY <2>1, <2>2, DoubaoAppPcm DEF StopInput
<1>6. CASE Doubao!Stopped
  <2>1. Stopped
    BY <1>6, DoubaoStopped DEF Ended
  <2>2. TakesNothing(app, app') /\ (Open(app') => Open(app))
    BY <2>1, DoubaoTypes, ApplicationTakesNothing
  <2> QED
    BY <2>1, <2>2, DoubaoAppPcm DEF Stopped
<1>7. CASE Doubao!Enqueue
  BY <1>7, DoubaoEnqueue, DoubaoEnqueuePcm
<1>8. CASE Doubao!Dispatch
  BY <1>8, DoubaoWaitsPcm DEF Doubao!Dispatch, Dispatch
<1> QED
  BY <1>1, <1>2, <1>3, <1>4, <1>5, <1>6, <1>7, <1>8 DEF Doubao!Next, Doubao!BaseNext

LEMMA DoubaoInitPcm ==
  ASSUME Doubao!Init
  PROVE  DoubaoPcm(pc, app, audio, net)
<1>1. /\ app.mic = "idle" /\ app.taken = <<>> /\ app.captured = 0
      /\ audio.pending = <<>> /\ audio.chunk = <<>> /\ audio.replay = <<>>
      /\ net.link = Doubao!NoLink /\ ~net.replaying /\ ~net.failed /\ pc = "idle"
  BY DEF Doubao!Init, Doubao!InitBase, Doubao!InitNet
<1>2. Unused(Doubao!NoLink)
  BY DEF Doubao!NoLink, Unused
<1>3. /\ TakenInOrder(app, audio)
      /\ InHand(app, audio, net.link) /\ Hears(app, net.link)
  BY <1>1, <1>2, NothingYet
<1> QED
  BY <1>1, <1>2, <1>3 DEF DoubaoPcm, DoubaoHeard, DoubaoPlace

---------------------------------------------------------------------------
(***************************************************************************)
(* Qwen Audio.  The receiver may take a failure back (no speech was no     *)
(* failure), so until the rest is sent the pieces fit whatever failed.     *)
(***************************************************************************)

QwenAudioReplaySteps ==
  {"link", "connecting", "replaySend", "replayFinal", "replayQuit", "replayJoin",
   "replayFailed", "verdict", "dispatch", "stop", "ended"}

QwenAudioHeard(ap, au, n) ==
  /\ TakenInOrder(ap, au)
  /\ n.replaying => HearsReplay(au, n.link)
  /\ ~n.replaying => Hears(ap, n.link)

QwenAudioPlace(p, ap, au, n) ==
  /\ n.replaying => p \in QwenAudioReplaySteps
  /\ p = "replaySend" => n.replaying
  /\ p \in {"idle", "try", "link", "connecting"} => Unused(n.link)
  /\ p \in {"idle", "try", "link", "connecting", "send", "flush", "left", "branch"}
       /\ ~n.replaying => InHand(ap, au, n.link)
  /\ p \in {"left", "branch"} => ~Open(ap) \/ n.failed \/ n.drainFailed
  /\ p \in {"rest", "finish"} => ~Open(ap) /\ au.pending = <<>>
  /\ p \in {"rest", "finish"} /\ ~n.failed => InHand(ap, au, n.link)
  /\ p = "finish" /\ ~n.failed => au.chunk = <<>>

QwenAudioPcm(p, ap, au, n) ==
  QwenAudioHeard(ap, au, n) /\ QwenAudioPlace(p, ap, au, n)

LEMMA QwenAudioTypes ==
  ASSUME QwenAudioInv
  PROVE  /\ app \in AppStates /\ audio \in AudioStates /\ net \in QwenAudioNets
         /\ SharedType /\ net.link \in Links
         /\ net.replaying \in BOOLEAN /\ net.failed \in BOOLEAN
         /\ net.drainFailed \in BOOLEAN /\ net.noSpeech \in BOOLEAN
         /\ net.link.got \in Pcm
         /\ pc = "idle" <=> app.mic = "idle"
  BY DEF QwenAudioInv, Shared, SharedType, QwenAudioNets, Lifecycle, Links

\* No PCM is moved, and the connection has heard the same, or is a new one.
LEMMA QwenAudioQuiet ==
  ASSUME app \in AppStates, audio \in AudioStates, QwenAudioHeard(app, audio, net),
         UNCHANGED <<app, audio>>, net'.replaying = net.replaying,
         \/ net'.link.got = net.link.got /\ net'.link.ended = net.link.ended
         \/ Unused(net'.link)
  PROVE  QwenAudioHeard(app', audio', net')
<1> DEFINE l == net.link
           m == net'.link
<1> HIDE DEF l, m
<1>1. CASE m.got = l.got /\ m.ended = l.ended
  BY <1>1 DEF QwenAudioHeard, Hears, HearsReplay, l, m
<1>2. CASE Unused(m)
  <2>1. Hears(app, m) /\ HearsReplay(audio, m)
    BY <1>2, UnusedHears
  <2> QED
    BY <2>1 DEF QwenAudioHeard, m
<1> QED
  BY <1>1, <1>2 DEF l, m

\* Attempts come and go before anything is sent.
LEMMA QwenAudioConnectsPcm ==
  ASSUME QwenAudioInv, QwenAudioPcm(pc, app, audio, net), UNCHANGED <<app, audio>>,
         pc \in {"idle", "try", "link", "connecting"},
         net'.replaying = net.replaying, Unused(net'.link),
         \/ pc' \in {"try", "send"} /\ ~net.replaying
         \/ pc' \in {"link", "connecting"}
         \/ pc' \in {"replaySend", "replayFailed"} /\ net.replaying
  PROVE  QwenAudioPcm(pc', app', audio', net')
<1>1. QwenAudioHeard(app', audio', net')
  BY QwenAudioTypes, QwenAudioQuiet DEF QwenAudioPcm
<1>2. Len(net'.link.got) = Len(net.link.got)
  BY DEF QwenAudioPcm, QwenAudioPlace, Unused
<1>3. ~net.replaying => InHand(app', audio', net'.link)
  BY <1>2 DEF QwenAudioPcm, QwenAudioPlace, InHand
<1>4. net.replaying => pc' \in QwenAudioReplaySteps
  BY DEF QwenAudioPcm, QwenAudioPlace, QwenAudioReplaySteps
<1> QED
  BY <1>1, <1>3, <1>4 DEF QwenAudioPcm, QwenAudioPlace

LEMMA QwenAudioConnectPcm ==
  ASSUME QwenAudioInv, QwenAudioPcm(pc, app, audio, net),
         \/ QwenAudio!Try \/ QwenAudio!Connect \/ QwenAudio!ConnectOk
         \/ QwenAudio!ConnectFailed
  PROVE  QwenAudioPcm(pc', app', audio', net')
<1>1. CASE QwenAudio!Try
  <2>1. /\ net'.link = QwenAudio!FreshLink /\ net'.replaying = net.replaying
        /\ pc = "try" /\ pc' = "link" /\ UNCHANGED <<app, audio>>
    BY <1>1, QwenAudioTypes DEF QwenAudio!Try, QwenAudioNets
  <2>2. Unused(net'.link)
    BY <2>1, QwenAudioTypes, QwenAudioLinkOps
  <2> QED
    BY <2>1, <2>2, QwenAudioConnectsPcm
<1>2. CASE QwenAudio!Connect
  <2>1. /\ net'.link = QwenAudio!Connecting(net.link) /\ net'.replaying = net.replaying
        /\ pc = "link" /\ pc' = "connecting" /\ UNCHANGED <<app, audio>>
    BY <1>2, QwenAudioTypes DEF QwenAudio!Connect, QwenAudioNets
  <2>2. Unused(net'.link)
    BY <2>1, QwenAudioTypes, QwenAudioLinkOps DEF Unused, QwenAudioPcm, QwenAudioPlace
  <2> QED
    BY <2>1, <2>2, QwenAudioConnectsPcm
<1>3. CASE QwenAudio!ConnectOk
  <2> DEFINE n1 == QwenAudio!NothingHeard(net)
  <2>1. /\ n1 \in QwenAudioNets /\ n1.link = net.link /\ n1.replaying = net.replaying
    BY QwenAudioTypes DEF QwenAudio!NothingHeard, QwenAudioNets
  <2>2. net' = [n1 EXCEPT !.link = QwenAudio!Connected(@), !.drain = "on",
                  !.text = IF net.replaying THEN QwenAudio!NoText ELSE @, !.failed = FALSE]
    BY <1>3 DEF QwenAudio!ConnectOk
  <2> HIDE DEF n1
  <2>3. net'.link = QwenAudio!Connected(net.link) /\ net'.replaying = net.replaying
    BY <2>1, <2>2 DEF QwenAudioNets
  <2>4. /\ pc = "connecting" /\ pc' = IF net.replaying THEN "replaySend" ELSE "send"
        /\ UNCHANGED <<app, audio>>
    BY <1>3 DEF QwenAudio!ConnectOk
  <2>5. Unused(net'.link)
    BY <2>3, <2>4, QwenAudioTypes, QwenAudioLinkOps DEF Unused, QwenAudioPcm, QwenAudioPlace
  <2> QED
    BY <2>3, <2>4, <2>5, QwenAudioConnectsPcm
<1>4. CASE QwenAudio!ConnectFailed
  <2>1. /\ net'.link = QwenAudio!NoLink /\ net'.replaying = net.replaying
        /\ pc = "connecting" /\ UNCHANGED <<app, audio>>
        /\ pc' = IF net.replaying THEN "replayFailed" ELSE "try"
    BY <1>4, QwenAudioTypes DEF QwenAudio!ConnectFailed, QwenAudioNets
  <2>2. Unused(net'.link)
    BY <2>1, QwenAudioTypes, QwenAudioLinkOps
  <2> QED
    BY <2>1, <2>2, QwenAudioConnectsPcm
<1> QED
  BY <1>1, <1>2, <1>3, <1>4

\* Waiting, checking and concluding.
LEMMA QwenAudioPassesPcm ==
  ASSUME QwenAudioInv, QwenAudioPcm(pc, app, audio, net), UNCHANGED <<app, audio>>,
         net'.replaying = net.replaying,
         net'.link.got = net.link.got, net'.link.ended = net.link.ended,
         \/ /\ pc' \in {"buffer", "final", "quit", "join", "cancelled", "unconnected"}
            /\ ~net.replaying
         \/ pc' \in {"stop", "dispatch", "verdict", "replayFinal", "replayQuit",
                     "replayJoin", "replayFailed"}
  PROVE  QwenAudioPcm(pc', app', audio', net')
<1>1. QwenAudioHeard(app', audio', net')
  BY QwenAudioTypes, QwenAudioQuiet DEF QwenAudioPcm
<1> QED
  BY <1>1 DEF QwenAudioPcm, QwenAudioPlace, QwenAudioReplaySteps

LEMMA QwenAudioWaitsPcm ==
  ASSUME QwenAudioInv, QwenAudioPcm(pc, app, audio, net),
         \/ QwenAudio!NotConnected \/ QwenAudio!Finished \/ QwenAudio!NotFinished
         \/ QwenAudio!StopDrain \/ QwenAudio!Cancelled \/ QwenAudio!Decide
         \/ QwenAudio!ReplayWaited \/ QwenAudio!ReplayStopDrain
         \/ QwenAudio!ReplayJoined \/ QwenAudio!ReplayFailed \/ Dispatch
  PROVE  QwenAudioPcm(pc', app', audio', net')
<1>1. /\ UNCHANGED <<app, audio>>
      /\ \/ pc \in {"try", "final", "quit", "cancel"}
            /\ pc' \in {"buffer", "quit", "join", "cancelled"}
         \/ pc' \in {"stop", "dispatch", "verdict", "replayFinal", "replayQuit",
                     "replayJoin", "replayFailed"}
  BY DEF QwenAudio!NotConnected, QwenAudio!Finished, QwenAudio!NotFinished,
     QwenAudio!StopDrain, QwenAudio!Cancelled, QwenAudio!Decide, QwenAudio!ReplayWaited,
     QwenAudio!ReplayStopDrain, QwenAudio!ReplayJoined, QwenAudio!ReplayFailed,
     QwenAudio!Conclude, Dispatch
<1>2. /\ net'.link \in {net.link, QwenAudio!Aborted(net.link), QwenAudio!Shut(net.link)}
      /\ net'.replaying = net.replaying
  <2>1. CASE \/ QwenAudio!NotConnected \/ QwenAudio!NotFinished \/ QwenAudio!ReplayFailed
    BY <2>1, QwenAudioTypes DEF QwenAudio!NotConnected, QwenAudio!NotFinished,
       QwenAudio!ReplayFailed, QwenAudioNets
  <2>2. CASE QwenAudio!Finished \/ QwenAudio!Decide \/ Dispatch
    BY <2>2 DEF QwenAudio!Finished, QwenAudio!Decide, Dispatch
  <2>3. CASE QwenAudio!StopDrain
    BY <2>3, QwenAudioTypes DEF QwenAudio!StopDrain, QwenAudioNets
  <2>4. CASE QwenAudio!Cancelled
    BY <2>4, QwenAudioTypes DEF QwenAudio!Cancelled, QwenAudioNets
  <2>5. CASE QwenAudio!ReplayWaited
    BY <2>5, QwenAudioTypes DEF QwenAudio!ReplayWaited, QwenAudioNets
  <2>6. CASE QwenAudio!ReplayStopDrain
    BY <2>6, QwenAudioTypes DEF QwenAudio!ReplayStopDrain, QwenAudioNets
  <2>7. CASE QwenAudio!ReplayJoined
    BY <2>7, QwenAudioTypes DEF QwenAudio!ReplayJoined, QwenAudioNets
  <2> QED
    BY <2>1, <2>2, <2>3, <2>4, <2>5, <2>6, <2>7
<1>3. net'.link.got = net.link.got /\ net'.link.ended = net.link.ended
  BY <1>2, QwenAudioTypes, QwenAudioLinkOps
<1>4. pc \in {"try", "final", "quit", "cancel"} => ~net.replaying
  BY DEF QwenAudioPcm, QwenAudioPlace, QwenAudioReplaySteps
<1> QED
  BY <1>1, <1>2, <1>3, <1>4, QwenAudioPassesPcm

LEMMA QwenAudioTakePendingPcm ==
  ASSUME QwenAudioInv, QwenAudioPcm(pc, app, audio, net), QwenAudio!TakePending
  PROVE  QwenAudioPcm(pc', app', audio', net')
<1>1. /\ pc = "send" /\ UNCHANGED app
      /\ \/ /\ (app.aborted \/ net.drainFailed) /\ pc' = "left"
            /\ UNCHANGED <<audio, net>>
         \/ /\ audio' = QwenAudio!SwapPending(audio)
            /\ net' = [net EXCEPT !.failed = audio.overflowed]
            /\ pc' = IF audio.overflowed THEN "left" ELSE "flush"
  BY DEF QwenAudio!TakePending
<1>2. /\ ~net.replaying /\ InHand(app, audio, net.link) /\ TakenInOrder(app, audio)
      /\ Hears(app, net.link)
  BY <1>1, QwenAudioTypes
     DEF QwenAudioPcm, QwenAudioHeard, QwenAudioPlace, QwenAudioReplaySteps
<1>3. CASE /\ (app.aborted \/ net.drainFailed) /\ pc' = "left"
           /\ UNCHANGED <<audio, net>>
  BY <1>1, <1>2, <1>3 DEF QwenAudioPcm, QwenAudioHeard, QwenAudioPlace, Open
<1>4. CASE /\ audio' = QwenAudio!SwapPending(audio)
           /\ net' = [net EXCEPT !.failed = audio.overflowed]
           /\ pc' = IF audio.overflowed THEN "left" ELSE "flush"
  <2>1. audio' = Swap(audio)
    BY <1>4 DEF QwenAudio!SwapPending, Swap
  <2>2. /\ TakenInOrder(app, audio') /\ ChunkNext(app, audio')
        /\ ChunkAt(app, audio') = ChunkAt(app, audio)
    <3>1. app \in AppStates /\ audio \in AudioStates /\ ChunkNext(app, audio)
      BY <1>2, QwenAudioTypes DEF InHand
    <3> QED
      BY <1>2, <2>1, <3>1, SwapOrder
  <2>3. /\ net'.link = net.link /\ net'.replaying = net.replaying
        /\ net'.failed = audio.overflowed
    BY <1>4, QwenAudioTypes DEF QwenAudioNets
  <2> QED
    BY <1>1, <1>2, <1>4, <2>2, <2>3 DEF QwenAudioPcm, QwenAudioHeard, QwenAudioPlace, InHand
<1> QED
  BY <1>1, <1>3, <1>4

\* A chunk goes out and is kept, or it cannot be sent and is kept all the same.
LEMMA QwenAudioFlushFullChunkPcm ==
  ASSUME QwenAudioInv, QwenAudioPcm(pc, app, audio, net), QwenAudio!FlushFullChunk
  PROVE  QwenAudioPcm(pc', app', audio', net')
<1>0. PICK n \in 0..Len(audio.chunk) : n = ChunkUnits
  BY QwenAudioTypes, Lengths, SessionAssumption DEF QwenAudio!FlushFullChunk
<1> DEFINE front == SubSeq(audio.chunk, 1, n)
           kept == QwenAudio!Keep(audio, front)
<1>1. pc = "flush" /\ UNCHANGED app
  BY DEF QwenAudio!FlushFullChunk
<1>2. front \in Pcm
  BY QwenAudioTypes, CutPcm DEF AudioStates
<1>3. PICK s \in QwenAudio!Sends(net.link, front, FALSE) :
        IF s.ok
        THEN /\ audio' = [kept EXCEPT !.chunk = SubSeq(@, n + 1, Len(@))]
             /\ net' = [net EXCEPT !.link = s.link]
             /\ pc' = "flush"
        ELSE /\ audio' = kept
             /\ net' = [net EXCEPT !.link = s.link, !.failed = TRUE]
             /\ pc' = "left"
  BY <1>0 DEF QwenAudio!FlushFullChunk, QwenAudio!SendFront
<1>4. /\ s.link \in Links /\ s.ok \in BOOLEAN
      /\ s.ok => s.link.got = net.link.got \o front /\ s.link.ended = FALSE
      /\ ~s.ok => s.link.got = net.link.got /\ s.link.ended = net.link.ended
  BY <1>2, QwenAudioTypes, QwenAudioSent
<1>5. /\ ~net.replaying /\ InHand(app, audio, net.link) /\ TakenInOrder(app, audio)
      /\ Hears(app, net.link)
  BY <1>1, QwenAudioTypes
     DEF QwenAudioPcm, QwenAudioHeard, QwenAudioPlace, QwenAudioReplaySteps
<1>6. kept = Keep(audio, front) /\ front = SubSeq(audio.chunk, 1, n)
  BY <1>2, QwenAudioTypes, QwenAudioKeep
<1> HIDE DEF kept, front
<1>7. /\ net'.link = s.link /\ net'.replaying = net.replaying
      /\ ~s.ok => net'.failed
  BY <1>3, <1>4, QwenAudioTypes DEF QwenAudioNets
<1>8. ChunkNext(app, audio) /\ app \in AppStates /\ audio \in AudioStates
  BY <1>5, QwenAudioTypes DEF InHand
<1>9. /\ Len(front) = n /\ PieceOf(front, ChunkAt(app, audio), app.taken)
      /\ kept \in AudioStates /\ TakenInOrder(app, kept)
      /\ kept.pending = audio.pending /\ kept.chunk = audio.chunk
  <2>1. TakenInOrder(app, audio) /\ front = SubSeq(audio.chunk, 1, n)
    BY <1>5, <1>6
  <2>2. Len(front) = n
    BY <1>8, <2>1, FrontKept
  <2>3. PieceOf(front, ChunkAt(app, audio), app.taken)
    BY <1>8, <2>1, FrontKept
  <2>4. Keep(audio, front) \in AudioStates /\ TakenInOrder(app, Keep(audio, front))
    BY <1>8, <2>1, FrontKept
  <2>5. /\ Keep(audio, front).pending = audio.pending
        /\ Keep(audio, front).chunk = audio.chunk
    BY <1>8, <2>1, FrontKept
  <2> QED
    BY <1>6, <2>2, <2>3, <2>4, <2>5
<1>10. CASE s.ok
  <2>1. audio' = CutFront(kept, n) /\ pc' = "flush"
    BY <1>3, <1>10 DEF CutFront
  <2>2. /\ TakenInOrder(app, audio') /\ ChunkNext(app, audio')
        /\ ChunkAt(app, audio') = ChunkAt(app, audio) + n
    BY <1>8, <1>9, <2>1, FrontCut
  <2>3. Hears(app, s.link) /\ Len(s.link.got) = Len(net.link.got) + Len(front)
    BY <1>2, <1>4, <1>5, <1>9, <1>10, QwenAudioTypes, HearsMore DEF InHand
  <2>4. Len(s.link.got) = ChunkAt(app, audio')
    BY <1>5, <1>9, <2>2, <2>3 DEF InHand
  <2> QED
    BY <1>1, <1>5, <1>7, <2>1, <2>2, <2>3, <2>4
       DEF QwenAudioPcm, QwenAudioHeard, QwenAudioPlace, InHand
<1>11. CASE ~s.ok
  <2>1. audio' = kept /\ pc' = "left"
    BY <1>3, <1>11
  <2>2. Hears(app, s.link)
    BY <1>4, <1>5, <1>11 DEF Hears
  <2>3. InHand(app, kept, s.link)
    BY <1>4, <1>5, <1>9, <1>11 DEF InHand, ChunkNext, ChunkAt, PendingAt
  <2> QED
    BY <1>1, <1>5, <1>7, <1>9, <1>11, <2>1, <2>2, <2>3
       DEF QwenAudioPcm, QwenAudioHeard, QwenAudioPlace
<1> QED
  BY <1>4, <1>10, <1>11

LEMMA QwenAudioFlushedPcm ==
  ASSUME QwenAudioInv, QwenAudioPcm(pc, app, audio, net), QwenAudio!Flushed
  PROVE  QwenAudioPcm(pc', app', audio', net')
<1>1. /\ pc = "flush" /\ UNCHANGED <<app, audio, net>>
      /\ pc' = IF net.drainFailed \/ ~Open(app) THEN "left" ELSE "send"
  BY DEF QwenAudio!Flushed, QwenAudio!Streaming, Open
<1> QED
  BY <1>1 DEF QwenAudioPcm, QwenAudioHeard, QwenAudioPlace, QwenAudioReplaySteps

LEMMA QwenAudioLoopLeftPcm ==
  ASSUME QwenAudioInv, QwenAudioPcm(pc, app, audio, net), QwenAudio!LoopLeft
  PROVE  QwenAudioPcm(pc', app', audio', net')
<1>1. /\ pc = "left" /\ UNCHANGED <<app, audio>>
      /\ net' = [net EXCEPT !.failed = (@ \/ net.drainFailed) /\ ~net.noSpeech]
      /\ pc' = IF app.aborted THEN "cancel" ELSE "branch"
  BY DEF QwenAudio!LoopLeft
<1>2. /\ net'.link = net.link /\ net'.replaying = net.replaying
      /\ net'.drainFailed = net.drainFailed
      /\ net'.failed = ((net.failed \/ net.drainFailed) /\ ~net.noSpeech)
  BY <1>1, QwenAudioTypes DEF QwenAudioNets
<1>3. net.noSpeech => net.drainFailed
  BY <1>1 DEF QwenAudioInv
<1>4. ~net.replaying
  BY <1>1 DEF QwenAudioPcm, QwenAudioPlace, QwenAudioReplaySteps
<1> QED
  BY <1>1, <1>2, <1>3, <1>4 DEF QwenAudioPcm, QwenAudioHeard, QwenAudioPlace

LEMMA QwenAudioBranchPcm ==
  ASSUME QwenAudioInv, QwenAudioPcm(pc, app, audio, net), QwenAudio!Branch
  PROVE  QwenAudioPcm(pc', app', audio', net')
<1> DEFINE keep == work.recover /\ audio.kept
           kept == IF keep THEN QwenAudio!Keep(audio, audio.chunk) ELSE audio
<1>1. /\ pc = "branch" /\ UNCHANGED app
      /\ \/ /\ net.failed \/ net.drainFailed
            /\ net' = [net EXCEPT !.keep = keep]
            /\ audio' = [kept EXCEPT !.chunk = <<>>] /\ pc' = "buffer"
         \/ /\ ~net.failed /\ ~net.drainFailed
            /\ net' = [net EXCEPT !.failed = audio.overflowed]
            /\ audio' = Swap(audio) /\ pc' = "rest"
  BY DEF QwenAudio!Branch, QwenAudio!SwapPending, Swap
<1>2. /\ ~net.replaying /\ InHand(app, audio, net.link) /\ TakenInOrder(app, audio)
      /\ Hears(app, net.link)
  BY <1>1, QwenAudioTypes
     DEF QwenAudioPcm, QwenAudioHeard, QwenAudioPlace, QwenAudioReplaySteps
<1>3. CASE /\ net' = [net EXCEPT !.keep = keep]
           /\ audio' = [kept EXCEPT !.chunk = <<>>] /\ pc' = "buffer"
  <2>1. net'.link = net.link /\ net'.replaying = net.replaying
    BY <1>3, QwenAudioTypes DEF QwenAudioNets
  <2>2. kept \in {audio, Keep(audio, audio.chunk)} /\ audio.chunk \in Pcm
    BY QwenAudioTypes, QwenAudioKeep DEF AudioStates
  <2>3. kept \in AudioStates /\ kept.pending = audio.pending
    BY <2>2, QwenAudioTypes, KeepType
  <2> HIDE DEF kept
  <2>4. audio'.pending = audio.pending
    BY <1>3, <2>3 DEF AudioStates
  <2>5. TakenInOrder(app', audio')
    BY <1>1, <1>2, <2>4 DEF TakenInOrder, PendingAt
  <2> QED
    BY <1>1, <1>2, <1>3, <2>1, <2>5 DEF QwenAudioPcm, QwenAudioHeard, QwenAudioPlace
<1>4. CASE /\ ~net.failed /\ ~net.drainFailed
           /\ net' = [net EXCEPT !.failed = audio.overflowed]
           /\ audio' = Swap(audio) /\ pc' = "rest"
  <2>1. net'.link = net.link /\ net'.replaying = net.replaying
    BY <1>4, QwenAudioTypes DEF QwenAudioNets
  <2>2. /\ TakenInOrder(app, audio') /\ ChunkNext(app, audio')
        /\ ChunkAt(app, audio') = ChunkAt(app, audio) /\ audio'.pending = <<>>
    <3>1. app \in AppStates /\ audio \in AudioStates /\ ChunkNext(app, audio)
      BY <1>2, QwenAudioTypes DEF InHand
    <3> QED
      BY <1>2, <1>4, <3>1, SwapOrder
  <2>3. ~Open(app)
    BY <1>1, <1>4 DEF QwenAudioPcm, QwenAudioPlace
  <2>4. InHand(app, audio', net.link)
    BY <1>2, <2>2 DEF InHand
  <2> QED
    BY <1>1, <1>2, <1>4, <2>1, <2>2, <2>3, <2>4
       DEF QwenAudioPcm, QwenAudioHeard, QwenAudioPlace
<1> QED
  BY <1>1, <1>3, <1>4

LEMMA QwenAudioBufferPcm ==
  ASSUME QwenAudioInv, QwenAudioPcm(pc, app, audio, net), QwenAudio!Buffer
  PROVE  QwenAudioPcm(pc', app', audio', net')
<1>1. /\ pc = "buffer" /\ UNCHANGED <<app, net>>
      /\ pc' \in {"buffer", "unconnected", "quit"}
      /\ \/ audio' = KeepPending(audio)
         \/ audio' = [audio EXCEPT !.pending = <<>>]
  BY DEF QwenAudio!Buffer, QwenAudio!KeepPending, KeepPending, QwenAudio!Keep, Keep
<1>2. /\ ~net.replaying /\ TakenInOrder(app, audio) /\ Hears(app, net.link)
  BY <1>1 DEF QwenAudioPcm, QwenAudioHeard, QwenAudioPlace, QwenAudioReplaySteps
<1>3. TakenInOrder(app, audio')
  <2>1. CASE audio' = KeepPending(audio)
    BY <1>2, <2>1, QwenAudioTypes, KeepPendingOrder
  <2>2. CASE audio' = [audio EXCEPT !.pending = <<>>]
    <3> DEFINE none == <<>>
    <3>1. none \in Pcm /\ audio' = [audio EXCEPT !.pending = none]
      BY <2>2 DEF Pcm
    <3> HIDE DEF none
    <3>2. audio' \in AudioStates /\ audio'.pending = none
      BY <3>1, QwenAudioTypes DEF AudioStates
    <3>3. audio' \in AudioStates /\ audio'.pending = <<>>
      BY <3>2 DEF none
    <3> QED
      BY <1>2, <3>3, QwenAudioTypes, NothingPending
  <2> QED
    BY <1>1, <2>1, <2>2
<1> QED
  BY <1>1, <1>2, <1>3 DEF QwenAudioPcm, QwenAudioHeard, QwenAudioPlace

LEMMA QwenAudioUnconnectedPcm ==
  ASSUME QwenAudioInv, QwenAudioPcm(pc, app, audio, net), QwenAudio!Unconnected
  PROVE  QwenAudioPcm(pc', app', audio', net')
<1>1. /\ pc = "unconnected" /\ UNCHANGED <<app, audio>>
      /\ \/ /\ net' = [net EXCEPT !.replaying = TRUE, !.link = QwenAudio!FreshLink]
            /\ pc' = "link"
         \/ net' = net /\ pc' \in {"stop", "dispatch"}
  BY DEF QwenAudio!Unconnected, QwenAudio!Conclude
<1>2. CASE /\ net' = [net EXCEPT !.replaying = TRUE, !.link = QwenAudio!FreshLink]
           /\ pc' = "link"
  <2>1. net'.link = QwenAudio!FreshLink /\ net'.replaying
    BY <1>2, QwenAudioTypes DEF QwenAudioNets
  <2>2. Unused(net'.link)
    BY <2>1, QwenAudioTypes, QwenAudioLinkOps
  <2>3. HearsReplay(audio, net'.link)
    BY <2>2, QwenAudioTypes, UnusedHears
  <2> QED
    BY <1>1, <1>2, <2>1, <2>2, <2>3
       DEF QwenAudioPcm, QwenAudioHeard, QwenAudioPlace, QwenAudioReplaySteps
<1>3. CASE net' = net /\ pc' \in {"stop", "dispatch"}
  BY <1>1, <1>3, QwenAudioPassesPcm
<1> QED
  BY <1>1, <1>2, <1>3

\* The last chunk.
LEMMA QwenAudioSendRestPcm ==
  ASSUME QwenAudioInv, QwenAudioPcm(pc, app, audio, net), QwenAudio!SendRest
  PROVE  QwenAudioPcm(pc', app', audio', net')
<1> DEFINE units == audio.chunk
           kept == QwenAudio!Keep(audio, units)
<1>1. pc = "rest" /\ UNCHANGED app /\ pc' = "finish"
  BY DEF QwenAudio!SendRest
<1>2. /\ ~net.replaying /\ ~Open(app) /\ audio.pending = <<>>
      /\ Hears(app, net.link) /\ TakenInOrder(app, audio)
  BY <1>1 DEF QwenAudioPcm, QwenAudioHeard, QwenAudioPlace, QwenAudioReplaySteps
<1>3. CASE /\ net.failed \/ audio.chunk = <<>>
           /\ audio' = [audio EXCEPT !.chunk = <<>>] /\ net' = net
  <2> DEFINE none == <<>>
  <2>1. none \in Pcm /\ audio' = [audio EXCEPT !.chunk = none]
    BY <1>3 DEF Pcm
  <2> HIDE DEF none
  <2>2. audio' \in AudioStates /\ audio'.chunk = none /\ audio'.pending = audio.pending
    BY <2>1, QwenAudioTypes DEF AudioStates
  <2>3. audio'.chunk = <<>> /\ audio'.pending = <<>>
    BY <1>2, <2>2 DEF none
  <2>4. TakenInOrder(app, audio')
    BY <1>2, <2>2, <2>3, QwenAudioTypes, NothingPending
  <2>5. ~net.failed => InHand(app, audio', net.link)
    <3>1. audio.chunk = <<>> => audio'.chunk = audio.chunk /\ audio'.pending = audio.pending
      BY <1>2, <2>3
    <3> QED
      BY <1>1, <1>3, <3>1
         DEF QwenAudioPcm, QwenAudioPlace, InHand, ChunkNext, ChunkAt, PendingAt
  <2> QED
    BY <1>1, <1>2, <1>3, <2>3, <2>4, <2>5 DEF QwenAudioPcm, QwenAudioHeard, QwenAudioPlace
<1>4. CASE \E s \in QwenAudio!Sends(net.link, units, FALSE) :
             /\ ~net.failed /\ audio' = [kept EXCEPT !.chunk = <<>>]
             /\ net' = [net EXCEPT !.link = s.link, !.failed = ~s.ok]
  <2>1. PICK s \in QwenAudio!Sends(net.link, units, FALSE) :
          /\ ~net.failed /\ audio' = [kept EXCEPT !.chunk = <<>>]
          /\ net' = [net EXCEPT !.link = s.link, !.failed = ~s.ok]
    BY <1>4
  <2>2. units \in Pcm /\ net.link \in Links
    BY QwenAudioTypes DEF AudioStates
  <2>3. /\ s.link \in Links /\ s.ok \in BOOLEAN
        /\ s.ok => s.link.got = net.link.got \o units /\ s.link.ended = FALSE
        /\ ~s.ok => s.link.got = net.link.got /\ s.link.ended = net.link.ended
    BY <2>2, QwenAudioTypes, QwenAudioSent
  <2>4. net'.link = s.link /\ net'.replaying = net.replaying /\ net'.failed = ~s.ok
    BY <2>1, <2>3, QwenAudioTypes DEF QwenAudioNets
  <2>5. kept \in AudioStates /\ kept.pending = <<>>
    BY <1>2, <2>2, QwenAudioTypes, QwenAudioKeep, KeepType
  <2>6. audio' \in AudioStates /\ audio'.chunk = <<>> /\ audio'.pending = <<>>
    <3> DEFINE none == <<>>
    <3>1. none \in Pcm /\ audio' = [kept EXCEPT !.chunk = none]
      BY <2>1 DEF Pcm
    <3> HIDE DEF none, kept
    <3>2. audio' \in AudioStates /\ audio'.chunk = none /\ audio'.pending = kept.pending
      BY <2>5, <3>1 DEF AudioStates
    <3> QED
      BY <2>5, <3>2 DEF none
  <2>7. TakenInOrder(app, audio') /\ PendingAt(app, audio') = Len(app.taken)
    BY <1>2, <2>6, QwenAudioTypes, NothingPending
  <2>8. InHand(app, audio, net.link)
    BY <1>1, <2>1 DEF QwenAudioPcm, QwenAudioPlace
  <2> HIDE DEF units, kept
  <2>9. CASE s.ok
    <3>1. units = audio.chunk
      BY DEF units
    <3>2. PieceOf(units, Len(net.link.got), app.taken)
      BY <2>8, <3>1 DEF InHand, ChunkNext
    <3>3. Hears(app, s.link) /\ Len(s.link.got) = Len(net.link.got) + Len(units)
      BY <1>2, <2>2, <2>3, <2>9, <3>2, QwenAudioTypes, HearsMore
    <3>4. /\ Len(units) \in Nat /\ Len(app.taken) \in Nat /\ app.taken \in Pcm
          /\ PendingAt(app, audio) \in Int /\ PendingAt(app, audio) = Len(app.taken)
      <4>1. PendingAt(app, audio) = Len(app.taken)
        BY <1>2, QwenAudioTypes, NothingPending
      <4> QED
        BY <3>1, <4>1, QwenAudioTypes, Lengths
    <3>5. Len(s.link.got) = Len(app.taken)
      BY <2>8, <3>1, <3>3, <3>4 DEF InHand, ChunkAt
    <3>6. ChunkAt(app, audio') = Len(app.taken)
      <4>1. Len(audio'.chunk) = 0
        BY <2>6
      <4> QED
        BY <2>7, <3>4, <4>1 DEF ChunkAt
    <3>7. ChunkNext(app, audio')
      BY <2>6, <3>4, <3>6, PieceEmpty DEF ChunkNext
    <3>8. InHand(app, audio', s.link)
      BY <3>5, <3>6, <3>7 DEF InHand
    <3> QED
      BY <1>1, <1>2, <2>4, <2>6, <2>7, <2>9, <3>3, <3>8
         DEF QwenAudioPcm, QwenAudioHeard, QwenAudioPlace
  <2>10. CASE ~s.ok
    <3>1. Hears(app, s.link)
      BY <1>2, <2>3, <2>10 DEF Hears
    <3> QED
      BY <1>1, <1>2, <2>4, <2>6, <2>7, <2>10, <3>1
         DEF QwenAudioPcm, QwenAudioHeard, QwenAudioPlace
  <2> QED
    BY <2>3, <2>9, <2>10
<1> QED
  BY <1>3, <1>4 DEF QwenAudio!SendRest

\* The end is told when the chunk and the pending buffer are empty.
LEMMA QwenAudioSendFinishPcm ==
  ASSUME QwenAudioInv, QwenAudioPcm(pc, app, audio, net), QwenAudio!SendFinish
  PROVE  QwenAudioPcm(pc', app', audio', net')
<1>1. /\ pc = "finish" /\ UNCHANGED <<app, audio>>
      /\ \/ /\ pc' = "quit"
            /\ net' = net \/ net' = [net EXCEPT !.finishSent = TRUE]
         \/ /\ ~net.failed
            /\ \E s \in QwenAudio!Sends(net.link, <<>>, TRUE) :
                 /\ net' = [net EXCEPT !.link = s.link, !.finishSent = s.ok,
                                       !.failed = ~s.ok]
                 /\ pc' = IF s.ok THEN "final" ELSE "quit"
  BY DEF QwenAudio!SendFinish
<1>2. ~net.replaying /\ ~Open(app) /\ audio.pending = <<>> /\ Hears(app, net.link)
      /\ TakenInOrder(app, audio)
  BY <1>1 DEF QwenAudioPcm, QwenAudioHeard, QwenAudioPlace, QwenAudioReplaySteps
<1>3. CASE /\ pc' = "quit"
           /\ net' = net \/ net' = [net EXCEPT !.finishSent = TRUE]
  <2>1. net'.link = net.link /\ net'.replaying = net.replaying
    BY <1>3, QwenAudioTypes DEF QwenAudioNets
  <2> QED
    BY <1>1, <1>2, <1>3, <2>1, QwenAudioPassesPcm
<1>4. ASSUME ~net.failed, NEW s \in QwenAudio!Sends(net.link, <<>>, TRUE),
             net' = [net EXCEPT !.link = s.link, !.finishSent = s.ok, !.failed = ~s.ok],
             pc' \in {"final", "quit"}
      PROVE  QwenAudioPcm(pc', app', audio', net')
  <2>1. /\ audio.chunk = <<>> /\ InHand(app, audio, net.link)
    BY <1>1, <1>4 DEF QwenAudioPcm, QwenAudioPlace
  <2>2. Len(net.link.got) = PendingAt(app, audio)
    <3>1. Len(audio.chunk) = 0 /\ PendingAt(app, audio) \in Int
      BY <2>1, QwenAudioTypes, Lengths
    <3> QED
      BY <2>1, <3>1 DEF InHand, ChunkAt
  <2>3. net.link.got = app.taken
    BY <1>2, <2>2, QwenAudioTypes, HeardAll
  <2>4. /\ s.link \in Links /\ s.ok \in BOOLEAN /\ s.link.got = net.link.got
        /\ ~s.ok => s.link.ended = net.link.ended
    <3>1. <<>> \in Pcm /\ net.link.got \o <<>> = net.link.got
      BY QwenAudioTypes DEF Pcm
    <3>2. /\ s.link \in Links /\ s.ok \in BOOLEAN
          /\ s.ok => s.link.got = net.link.got \o <<>>
          /\ ~s.ok => s.link.got = net.link.got /\ s.link.ended = net.link.ended
      BY <1>4, <3>1, QwenAudioTypes, QwenAudioSent
    <3> QED
      BY <3>1, <3>2
  <2>5. net'.link = s.link /\ net'.replaying = net.replaying
    BY <1>4, <2>4, QwenAudioTypes DEF QwenAudioNets
  <2>6. Hears(app, s.link)
    BY <1>2, <2>3, <2>4, QwenAudioTypes DEF Hears, Open, AppStates
  <2> QED
    BY <1>1, <1>2, <1>4, <2>5, <2>6 DEF QwenAudioPcm, QwenAudioHeard, QwenAudioPlace
<1> QED
  BY <1>1, <1>3, <1>4

LEMMA QwenAudioDrainJoinedPcm ==
  ASSUME QwenAudioInv, QwenAudioPcm(pc, app, audio, net), QwenAudio!DrainJoined
  PROVE  QwenAudioPcm(pc', app', audio', net')
<1>1. PICK again \in BOOLEAN :
        /\ \E failed, text :
             net' = [net EXCEPT !.link = IF again THEN QwenAudio!FreshLink
                                         ELSE QwenAudio!Shut(@),
                                !.replaying = again, !.failed = failed, !.text = text]
        /\ pc' = IF again THEN "link" ELSE "verdict"
  BY DEF QwenAudio!DrainJoined, QwenAudio!ReplayWanted
<1>2. pc = "join" /\ UNCHANGED <<app, audio>>
  BY DEF QwenAudio!DrainJoined
<1>3. ~net.replaying
  BY <1>2 DEF QwenAudioPcm, QwenAudioPlace, QwenAudioReplaySteps
<1>4. /\ net'.replaying = again
      /\ net'.link = IF again THEN QwenAudio!FreshLink ELSE QwenAudio!Shut(net.link)
  BY <1>1, QwenAudioTypes DEF QwenAudioNets
<1>5. CASE again
  <2>1. Unused(net'.link)
    BY <1>4, <1>5, QwenAudioTypes, QwenAudioLinkOps
  <2>2. HearsReplay(audio, net'.link)
    BY <2>1, QwenAudioTypes, UnusedHears
  <2> QED
    BY <1>1, <1>2, <1>4, <1>5, <2>1, <2>2
       DEF QwenAudioPcm, QwenAudioHeard, QwenAudioPlace, QwenAudioReplaySteps
<1>6. CASE ~again
  <2>1. net'.link.got = net.link.got /\ net'.link.ended = net.link.ended
    BY <1>4, <1>6, QwenAudioTypes, QwenAudioLinkOps
  <2>2. net'.replaying = net.replaying
    BY <1>3, <1>4, <1>6, QwenAudioTypes
  <2> QED
    BY <1>1, <1>2, <1>3, <1>6, <2>1, <2>2, QwenAudioPassesPcm
<1> QED
  BY <1>5, <1>6

\* A chunk of the replay, or its end.
LEMMA QwenAudioReplaySendPcm ==
  ASSUME QwenAudioInv, QwenAudioPcm(pc, app, audio, net), QwenAudio!ReplaySend
  PROVE  QwenAudioPcm(pc', app', audio', net')
<1> DEFINE units == ReplayUnits(audio, net.link)
           last == ReplayOver(audio, net.link)
<1>1. /\ pc = "replaySend" /\ UNCHANGED <<app, audio>>
      /\ pc' \in {"replaySend", "replayFinal", "replayQuit"}
  BY DEF QwenAudio!ReplaySend
<1>2. units \in Pcm /\ last \in BOOLEAN
  BY QwenAudioTypes, QwenAudioReplayUnits DEF ReplayUnits, ReplayOver
<1>3. \/ net' = net
      \/ \E s \in QwenAudio!Sends(net.link, units, last) :
            net' = [net EXCEPT !.link = s.link]
  BY DEF QwenAudio!ReplaySend, QwenAudio!Smaller, Smaller, ReplayUnits, ReplayOver
<1>4. net.replaying /\ HearsReplay(audio, net.link) /\ TakenInOrder(app, audio)
  BY <1>1 DEF QwenAudioPcm, QwenAudioHeard, QwenAudioPlace
<1>5. CASE net' = net
  BY <1>1, <1>4, <1>5
     DEF QwenAudioPcm, QwenAudioHeard, QwenAudioPlace, QwenAudioReplaySteps
<1>6. CASE \E s \in QwenAudio!Sends(net.link, units, last) :
             net' = [net EXCEPT !.link = s.link]
  <2> HIDE DEF units, last
  <2>1. PICK s \in QwenAudio!Sends(net.link, units, last) :
          net' = [net EXCEPT !.link = s.link]
    BY <1>6
  <2>2. /\ s.link \in Links /\ s.ok \in BOOLEAN
        /\ s.ok => s.link.got = net.link.got \o units /\ s.link.ended = last
        /\ ~s.ok => s.link.got = net.link.got /\ s.link.ended = net.link.ended
    BY <1>2, QwenAudioTypes, QwenAudioSent
  <2>3. net'.link = s.link /\ net'.replaying = net.replaying
    BY <2>1, QwenAudioTypes DEF QwenAudioNets
  <2>5. HearsReplay(audio, s.link)
    <3>1. CASE s.ok
      BY <1>4, <2>2, <3>1, QwenAudioTypes, HearsReplayMore DEF units, last
    <3>2. CASE ~s.ok
      BY <1>4, <2>2, <3>2 DEF HearsReplay
    <3> QED
      BY <2>2, <3>1, <3>2
  <2> QED
    BY <1>1, <1>4, <2>3, <2>5
       DEF QwenAudioPcm, QwenAudioHeard, QwenAudioPlace, QwenAudioReplaySteps
<1> QED
  BY <1>3, <1>5, <1>6

\* The receiver thread only listens.
LEMMA QwenAudioDrainPcm ==
  ASSUME QwenAudioInv, QwenAudioPcm(pc, app, audio, net), QwenAudio!Drain
  PROVE  QwenAudioPcm(pc', app', audio', net')
<1>1. UNCHANGED <<app, audio, pc>>
  BY DEF QwenAudio!Drain, QwenAudio!DrainQuits, QwenAudio!DrainTransport,
     QwenAudio!DrainTaskFailed, QwenAudio!DrainText, QwenAudio!DrainTaskFinished,
     QwenAudio!DrainNoSpeech
<1>2. /\ net'.link.got = net.link.got /\ net'.link.ended = net.link.ended
      /\ net'.replaying = net.replaying /\ net'.failed = net.failed
      /\ net.drainFailed => net'.drainFailed
  <2>1. CASE QwenAudio!DrainQuits
    BY <2>1, QwenAudioTypes DEF QwenAudio!DrainQuits, QwenAudioNets
  <2>2. CASE QwenAudio!DrainTransport
    BY <2>2, QwenAudioTypes DEF QwenAudio!DrainTransport, QwenAudioNets
  <2>3. CASE QwenAudio!DrainTaskFailed
    BY <2>3, QwenAudioTypes DEF QwenAudio!DrainTaskFailed, QwenAudioNets
  <2>4. CASE QwenAudio!DrainText
    <3>1. PICK text \in QwenAudio!Prefixes(net.link.got), sentenceEnd \in BOOLEAN :
            net' = [net EXCEPT !.text = text,
                      !.drain = IF net.drainStop \/ app.aborted THEN "done" ELSE @,
                      !.committed = IF sentenceEnd /\ ~net.replaying THEN text ELSE @,
                      !.link.told = net.link.ended /\ text = net.link.got]
      BY <2>4 DEF QwenAudio!DrainText
    <3> DEFINE told == net.link.ended /\ text = net.link.got
    <3>2. /\ net'.link = [net.link EXCEPT !.told = told]
          /\ net'.replaying = net.replaying /\ net'.failed = net.failed
          /\ net'.drainFailed = net.drainFailed
      BY <3>1, QwenAudioTypes DEF QwenAudioNets
    <3> QED
      BY <3>2, QwenAudioTypes DEF Links
  <2>5. CASE QwenAudio!DrainTaskFinished
    BY <2>5, QwenAudioTypes DEF QwenAudio!DrainTaskFinished, QwenAudioNets
  <2>6. CASE QwenAudio!DrainNoSpeech
    BY <2>6, QwenAudioTypes DEF QwenAudio!DrainNoSpeech, QwenAudioNets
  <2> QED
    BY <2>1, <2>2, <2>3, <2>4, <2>5, <2>6 DEF QwenAudio!Drain
<1>3. QwenAudioHeard(app', audio', net')
  BY <1>1, <1>2, QwenAudioTypes, QwenAudioQuiet DEF QwenAudioPcm
<1> QED
  BY <1>1, <1>2, <1>3 DEF QwenAudioPcm, QwenAudioPlace, Unused, InHand

\* The application's steps.
LEMMA QwenAudioAppPcm ==
  ASSUME QwenAudioInv, QwenAudioPcm(pc, app, audio, net),
         TakesNothing(app, app'), audio' = audio,
         \/ pc' = pc \/ pc' = "ended"
         \/ pc = "idle" /\ pc' \in {"try", "buffer"},
         pc # "idle" => (Open(app') => Open(app)),
         net'.replaying = net.replaying, net'.failed = net.failed,
         net'.drainFailed = net.drainFailed,
         net'.link.got = net.link.got, net'.link.ended = net.link.ended
  PROVE  QwenAudioPcm(pc', app', audio', net')
<1>1. /\ TakenInOrder(app, audio) => TakenInOrder(app', audio)
      /\ InHand(app, audio, net.link) => InHand(app', audio, net.link)
      /\ Hears(app, net.link) /\ (Open(app') => Open(app)) => Hears(app', net.link)
  BY TakesNothingLeaves
<1>2. ~net.replaying => Hears(app', net.link)
  <2>1. CASE pc = "idle" /\ ~net.replaying
    <3>1. Unused(net.link)
      BY <2>1 DEF QwenAudioPcm, QwenAudioPlace
    <3> QED
      BY <1>1, <2>1, <3>1, QwenAudioTypes, TakesNothingLeaves
         DEF QwenAudioPcm, QwenAudioHeard, Hears, Unused, TakesNothing
  <2> QED
    BY <1>1, <2>1 DEF QwenAudioPcm, QwenAudioHeard
<1>3. QwenAudioHeard(app', audio', net')
  BY <1>1, <1>2 DEF QwenAudioPcm, QwenAudioHeard, Hears, HearsReplay
<1>4. InHand(app, audio, net.link) => InHand(app', audio', net'.link)
  BY <1>1 DEF InHand
<1>5. net'.replaying => pc' \in QwenAudioReplaySteps
  BY DEF QwenAudioPcm, QwenAudioPlace, QwenAudioReplaySteps
<1> QED
  BY <1>3, <1>4, <1>5 DEF QwenAudioPcm, QwenAudioPlace, Unused

LEMMA QwenAudioEnqueuePcm ==
  ASSUME QwenAudioInv, QwenAudioPcm(pc, app, audio, net), Enqueue
  PROVE  QwenAudioPcm(pc', app', audio', net')
<1>1. /\ TakenInOrder(app', audio')
      /\ app'.mic = app.mic /\ app'.aborted = app.aborted /\ Open(app)
      /\ UNCHANGED <<pc, net>>
  BY QwenAudioTypes, EnqueueOrder DEF QwenAudioPcm, QwenAudioHeard, Open
<1>2. /\ Hears(app, net.link) => Hears(app', net.link)
      /\ HearsReplay(audio, net.link) => HearsReplay(audio', net.link)
      /\ InHand(app, audio, net.link) => InHand(app', audio', net.link)
  BY QwenAudioTypes, EnqueueHears DEF QwenAudioPcm, QwenAudioHeard
<1>3. QwenAudioHeard(app', audio', net')
  BY <1>1, <1>2 DEF QwenAudioPcm, QwenAudioHeard
<1> QED
  BY <1>1, <1>2, <1>3 DEF QwenAudioPcm, QwenAudioPlace, Open

LEMMA QwenAudioNextPcm ==
  ASSUME QwenAudioInv, QwenAudioPcm(pc, app, audio, net), QwenAudio!Next
  PROVE  QwenAudioPcm(pc', app', audio', net')
<1>1. CASE QwenAudio!Worker
  BY <1>1, QwenAudioConnectPcm, QwenAudioWaitsPcm, QwenAudioTakePendingPcm,
     QwenAudioFlushFullChunkPcm, QwenAudioFlushedPcm, QwenAudioLoopLeftPcm,
     QwenAudioBranchPcm, QwenAudioBufferPcm, QwenAudioUnconnectedPcm,
     QwenAudioSendRestPcm, QwenAudioSendFinishPcm, QwenAudioDrainJoinedPcm,
     QwenAudioReplaySendPcm DEF QwenAudio!Worker
<1>2. CASE QwenAudio!Drain
  BY <1>2, QwenAudioDrainPcm
<1>3. CASE QwenAudio!Start
  <2>1. PICK first \in {"try", "buffer"} : StartAt(first)
    BY <1>3 DEF QwenAudio!Start, QwenAudio!StartAt, StartAt
  <2>2. pc = "idle" /\ pc' = first /\ audio' = audio /\ net' = net
    BY <2>1 DEF StartAt
  <2> QED
    BY <2>1, <2>2, QwenAudioTypes, StartTakesNothing, QwenAudioAppPcm
<1>4. CASE QwenAudio!Abort
  <2>1. AbortWith([net EXCEPT !.link = QwenAudio!Aborted(net.link)])
    BY <1>4, QwenAudioTypes
       DEF QwenAudio!Abort, QwenAudio!AbortWith, AbortWith, QwenAudioNets
  <2>2. /\ pc' = pc /\ audio' = audio
        /\ net' = [net EXCEPT !.link = QwenAudio!Aborted(net.link)]
    BY <2>1 DEF AbortWith
  <2>3. /\ net'.link = QwenAudio!Aborted(net.link) /\ net'.replaying = net.replaying
        /\ net'.failed = net.failed /\ net'.drainFailed = net.drainFailed
    BY <2>2, QwenAudioTypes DEF QwenAudioNets
  <2>4. net'.link.got = net.link.got /\ net'.link.ended = net.link.ended
    BY <2>3, QwenAudioTypes, QwenAudioLinkOps
  <2>5. TakesNothing(app, app') /\ (Open(app') => Open(app))
    BY <2>1, QwenAudioTypes, ApplicationTakesNothing
  <2> QED
    BY <2>2, <2>3, <2>4, <2>5, QwenAudioAppPcm
<1>5. CASE QwenAudio!StopInput
  <2>1. StopInput
    BY <1>5, QwenAudioStopInput
  <2>2. TakesNothing(app, app') /\ (Open(app') => Open(app))
    BY <2>1, QwenAudioTypes, ApplicationTakesNothing
  <2> QED
    BY <2>1, <2>2, QwenAudioAppPcm DEF StopInput
<1>6. CASE QwenAudio!Stopped
  <2>1. Stopped
    BY <1>6, QwenAudioStopped DEF Ended
  <2>2. TakesNothing(app, app') /\ (Open(app') => Open(app))
    BY <2>1, QwenAudioTypes, ApplicationTakesNothing
  <2> QED
    BY <2>1, <2>2, QwenAudioAppPcm DEF Stopped
<1>7. CASE QwenAudio!Enqueue
  BY <1>7, QwenAudioEnqueue, QwenAudioEnqueuePcm
<1>8. CASE QwenAudio!Dispatch
  BY <1>8, QwenAudioWaitsPcm DEF QwenAudio!Dispatch, Dispatch
<1> QED
  BY <1>1, <1>2, <1>3, <1>4, <1>5, <1>6, <1>7, <1>8 DEF QwenAudio!Next, QwenAudio!BaseNext

LEMMA QwenAudioInitPcm ==
  ASSUME QwenAudio!Init
  PROVE  QwenAudioPcm(pc, app, audio, net)
<1>1. /\ app.mic = "idle" /\ app.taken = <<>> /\ app.captured = 0
      /\ audio.pending = <<>> /\ audio.chunk = <<>> /\ audio.replay = <<>>
      /\ net.link = QwenAudio!NoLink /\ ~net.replaying /\ ~net.failed /\ pc = "idle"
  BY DEF QwenAudio!Init, QwenAudio!InitBase, QwenAudio!InitNet
<1>2. Unused(QwenAudio!NoLink)
  BY DEF QwenAudio!NoLink, Unused
<1>3. /\ TakenInOrder(app, audio) /\ InHand(app, audio, net.link) /\ Hears(app, net.link)
  BY <1>1, <1>2, NothingYet
<1> QED
  BY <1>1, <1>2, <1>3 DEF QwenAudioPcm, QwenAudioHeard, QwenAudioPlace
---------------------------------------------------------------------------
(***************************************************************************)
(* Qwen Free.  The worker moves up to a chunk at a time, and loses what it *)
(* holds only when it gives the first attempt up.  The end is told after a *)
(* drain that began when the recording had stopped.                        *)
(***************************************************************************)

\* The first attempt as long as it sends.
QwenFreeFirst ==
  {"idle", "prepare", "try", "link", "open", "connecting", "waitStop", "loop",
   "frames", "drain", "chunkFrames", "sendChunk", "drained", "drainedFrames",
   "tailFrames", "sendStop"}

QwenFreeReplaySteps ==
  {"replayJoin", "try", "link", "open", "connecting", "replaySend",
   "replayFrames", "replayFinalFrames", "replayOver", "claim", "emit", "post",
   "quit", "join", "stop", "ended"}

\* What the service has heard.
QwenFreeHeard(ap, au, n) ==
  /\ TakenInOrder(ap, au) /\ KeptInOrder(ap, au)
  /\ ChunkNext(ap, au) /\ KeptNext(ap, au)
  /\ n.replaying => /\ Increasing(n.link.got)
                    /\ n.link.state = "up" => HearsReplay(au, n.link)
  /\ ~n.replaying => Hears(ap, n.link)

\* Where the worker may be during a replay, and what leads to it.
QwenFreeReplayPlace(p, n) ==
  /\ n.replaying => p \in QwenFreeReplaySteps
  /\ p \in {"replayJoin", "replaySend", "replayFrames", "replayFinalFrames"}
       => n.replaying
  /\ n.replaying \/ n.terminal # "none" \/ n.back = "quit"
  /\ p \in {"claim", "emit", "post"} /\ n.replaying => n.back = "quit"

\* What the worker relies on where it is.
QwenFreePlace(p, ap, au, n) ==
  /\ QwenFreeReplayPlace(p, n)
  /\ p \notin {"chunkFrames", "sendChunk"} => au.chunk = <<>>
  /\ p \in {"link", "open", "connecting"} => Unused(n.link)
  /\ p \in {"idle", "prepare", "waitStop", "try"} /\ ~n.replaying => Unused(n.link)
  /\ p \in QwenFreeFirst /\ n.terminal = "none" /\ ~n.replaying
       => Len(n.link.got) = ChunkAt(ap, au)
  /\ n.tail => ap.mic = "stopped"
  /\ p \in {"tailFrames", "sendStop"} => n.tail
  /\ p \in {"sendChunk", "sendStop"} => n.terminal = "none"
  /\ p \in {"drained", "tailFrames", "sendStop"} /\ n.tail /\ n.terminal = "none"
       => au.pending = <<>>

QwenFreePcm(p, ap, au, n) == QwenFreeHeard(ap, au, n) /\ QwenFreePlace(p, ap, au, n)

LEMMA QwenFreeTypes ==
  ASSUME QwenFreeInv
  PROVE  /\ app \in AppStates /\ audio \in AudioStates /\ net \in QwenFreeNets
         /\ SharedType /\ ChunkFits /\ net.link \in Links /\ net.link.got \in Pcm
         /\ net.replaying \in BOOLEAN /\ net.tail \in BOOLEAN
         /\ net.back \in {"quit", "terminal", "drained", "replayOver"}
         /\ pc = "idle" <=> app.mic = "idle"
  BY DEF QwenFreeInv, Shared, SharedType, QwenFreeNets, Lifecycle, Links

\* The parts of the provider's state the invariant does not speak of may change.
QwenFreeSameNet ==
  /\ net'.replaying = net.replaying /\ net'.terminal = net.terminal
  /\ net'.back = net.back /\ net'.tail = net.tail
  /\ net'.link.got = net.link.got /\ net'.link.ended = net.link.ended

\* No PCM is moved, and the connection has heard the same, or is a new one.
LEMMA QwenFreeQuiet ==
  ASSUME app \in AppStates, audio \in AudioStates, QwenFreeHeard(app, audio, net),
         UNCHANGED <<app, audio>>,
         net'.replaying = net.replaying,
         \/ /\ net'.link.got = net.link.got /\ net'.link.ended = net.link.ended
            /\ net.replaying /\ net'.link.state = "up" => net.link.state = "up"
         \/ Unused(net'.link)
  PROVE  QwenFreeHeard(app', audio', net')
<1> DEFINE l == net.link
           m == net'.link
<1> HIDE DEF l, m
<1>1. CASE /\ m.got = l.got /\ m.ended = l.ended
           /\ net.replaying /\ m.state = "up" => l.state = "up"
  BY <1>1 DEF QwenFreeHeard, Hears, HearsReplay, l, m
<1>2. CASE Unused(m)
  <2>1. Hears(app, m) /\ HearsReplay(audio, m) /\ Increasing(m.got)
    BY <1>2, UnusedHears DEF Unused, Increasing
  <2> QED
    BY <1>2, <2>1 DEF QwenFreeHeard, m
<1> QED
  BY <1>1, <1>2 DEF l, m

\* Waiting, checking and concluding.
LEMMA QwenFreeSamePcm ==
  ASSUME QwenFreeInv, QwenFreePcm(pc, app, audio, net), UNCHANGED <<app, audio>>,
         QwenFreeSameNet,
         net.replaying /\ net'.link.state = "up" => net.link.state = "up",
         QwenFreePlace(pc', app', audio', net')
  PROVE  QwenFreePcm(pc', app', audio', net')
<1>1. QwenFreeHeard(app', audio', net')
  BY QwenFreeTypes, QwenFreeQuiet DEF QwenFreePcm, QwenFreeSameNet
<1> QED
  BY <1>1 DEF QwenFreePcm

\* Steps that only lead elsewhere.
LEMMA QwenFreeWaitsPcm ==
  ASSUME QwenFreeInv, QwenFreePcm(pc, app, audio, net),
         \/ QwenFree!Prepare \/ QwenFree!ResetCancellation \/ QwenFree!NotConnected
         \/ QwenFree!WaitForRecordingStop \/ QwenFree!HandleTerminalOutcome
         \/ QwenFree!Recover \/ QwenFree!ReplayNotConnected \/ QwenFree!ReplayTimedOut
  PROVE  QwenFreePcm(pc', app', audio', net')
<1>1. /\ UNCHANGED <<app, audio, net>>
      /\ \/ pc = "prepare" /\ pc' \in {"quit", "try", "waitStop"}
         \/ pc = "link" /\ pc' \in {"try", "open"}
         \/ pc = "try" /\ ~net.replaying /\ pc' = "waitStop"
         \/ pc = "waitStop" /\ pc' \in {"quit", "claim"}
         \/ pc = "terminal" /\ pc' \in {"recover", "quit", "buffer"}
         \/ pc = "recover" /\ pc' = "buffer"
         \/ pc = "try" /\ net.replaying /\ pc' = "replayOver"
         \/ pc = "replayFinalFrames" /\ pc' = "replayOver"
  BY DEF QwenFree!Prepare, QwenFree!ResetCancellation, QwenFree!NotConnected,
     QwenFree!WaitForRecordingStop, QwenFree!HandleTerminalOutcome, QwenFree!Recover,
     QwenFree!ReplayNotConnected, QwenFree!ReplayTimedOut, QwenFree!NoMoreTries,
     QwenFree!Claim
<1>2. QwenFreeReplayPlace(pc', net')
  BY <1>1 DEF QwenFreePcm, QwenFreePlace, QwenFreeReplayPlace, QwenFreeReplaySteps
<1>3. QwenFreePlace(pc', app', audio', net')
  BY <1>1, <1>2
     DEF QwenFreePcm, QwenFreePlace, QwenFreeReplayPlace, QwenFreeReplaySteps,
     QwenFreeFirst
<1> QED
  BY <1>1, <1>3, QwenFreeSamePcm DEF QwenFreeSameNet

\* EmitFinal and what leads to it go on at net.back.
LEMMA QwenFreeEmitsPcm ==
  ASSUME QwenFreeInv, QwenFreePcm(pc, app, audio, net),
         QwenFree!PostProcess \/ QwenFree!EmitFinal \/ QwenFree!PostFinal
  PROVE  QwenFreePcm(pc', app', audio', net')
<1>1. /\ UNCHANGED <<app, audio>>
      /\ pc \in {"claim", "emit", "post"} /\ pc' \in {"emit", "post", net.back}
  BY DEF QwenFree!PostProcess, QwenFree!EmitFinal, QwenFree!PostFinal
<1>2. QwenFreeSameNet /\ net'.link = net.link
  <2>1. net' = net \/ net' = [net EXCEPT !.emitted = TRUE]
    BY DEF QwenFree!PostProcess, QwenFree!EmitFinal, QwenFree!PostFinal
  <2> QED
    BY <2>1, QwenFreeTypes DEF QwenFreeNets, QwenFreeSameNet
<1>3. QwenFreeReplayPlace(pc', net') /\ audio'.chunk = <<>>
  BY <1>1, <1>2, QwenFreeTypes
     DEF QwenFreePcm, QwenFreePlace, QwenFreeReplayPlace, QwenFreeReplaySteps,
     QwenFreeSameNet
<1>4. pc' \in {"emit", "post", "quit", "terminal", "drained", "replayOver"}
  BY <1>1, QwenFreeTypes
<1>5. pc' = "drained" /\ ~net.replaying => net.terminal # "none"
  BY <1>1, QwenFreeTypes DEF QwenFreePcm, QwenFreePlace, QwenFreeReplayPlace
<1>6. net'.tail => app'.mic = "stopped"
  BY <1>1, <1>2 DEF QwenFreePcm, QwenFreePlace, QwenFreeSameNet
<1>7. QwenFreePlace(pc', app', audio', net')
  <2>1. pc' = "drained" => net'.terminal # "none"
    BY <1>2, <1>3, <1>5 DEF QwenFreeReplayPlace, QwenFreeReplaySteps, QwenFreeSameNet
  <2> QED
    BY <1>3, <1>4, <1>6, <2>1 DEF QwenFreePlace, QwenFreeFirst
<1> QED
  BY <1>1, <1>2, <1>7, QwenFreeSamePcm

(***************************************************************************)
(* Connecting.                                                             *)
(***************************************************************************)

LEMMA QwenFreeTryPcm ==
  ASSUME QwenFreeInv, QwenFreePcm(pc, app, audio, net), QwenFree!Try
  PROVE  QwenFreePcm(pc', app', audio', net')
<1>1. /\ net' = [net EXCEPT !.tries = @ + 1, !.link = QwenFree!FreshLink]
      /\ pc = "try" /\ pc' = "link" /\ UNCHANGED <<app, audio>>
  BY DEF QwenFree!Try
<1>2. /\ net'.link = QwenFree!FreshLink /\ net'.replaying = net.replaying
      /\ net'.terminal = net.terminal /\ net'.back = net.back /\ net'.tail = net.tail
  BY <1>1, QwenFreeTypes DEF QwenFreeNets
<1>3. Unused(net'.link)
  BY <1>2, QwenFreeTypes, QwenFreeLinkOps
<1>4. QwenFreeHeard(app', audio', net')
  BY <1>1, <1>2, <1>3, QwenFreeTypes, QwenFreeQuiet DEF QwenFreePcm
<1>5. ~net.replaying => net'.link.got = net.link.got
  BY <1>1, <1>3 DEF QwenFreePcm, QwenFreePlace, Unused
<1> QED
  BY <1>1, <1>2, <1>3, <1>4, <1>5
     DEF QwenFreePcm, QwenFreePlace, QwenFreeReplayPlace, QwenFreeReplaySteps,
     QwenFreeFirst

LEMMA QwenFreeOpenPcm ==
  ASSUME QwenFreeInv, QwenFreePcm(pc, app, audio, net), QwenFree!Open
  PROVE  QwenFreePcm(pc', app', audio', net')
<1>1. /\ net' = [net EXCEPT !.link = QwenFree!Connecting(@),
                            !.late = IF app.aborted THEN @ + 1 ELSE @]
      /\ pc = "open" /\ pc' = "connecting" /\ UNCHANGED <<app, audio>>
  BY DEF QwenFree!Open
<1>2. /\ net'.link = QwenFree!Connecting(net.link) /\ net'.replaying = net.replaying
      /\ net'.terminal = net.terminal /\ net'.back = net.back /\ net'.tail = net.tail
  BY <1>1, QwenFreeTypes DEF QwenFreeNets
<1>3. Unused(net.link) /\ Unused(net'.link)
  BY <1>1, <1>2, QwenFreeTypes, QwenFreeLinkOps DEF Unused, QwenFreePcm, QwenFreePlace
<1>4. QwenFreeHeard(app', audio', net')
  BY <1>1, <1>2, <1>3, QwenFreeTypes, QwenFreeQuiet DEF QwenFreePcm
<1> QED
  BY <1>1, <1>2, <1>3, <1>4
     DEF QwenFreePcm, QwenFreePlace, QwenFreeReplayPlace, QwenFreeReplaySteps,
     QwenFreeFirst, Unused

LEMMA QwenFreeConnectOkPcm ==
  ASSUME QwenFreeInv, QwenFreePcm(pc, app, audio, net), QwenFree!ConnectOk
  PROVE  QwenFreePcm(pc', app', audio', net')
<1>1. /\ net' = [net EXCEPT !.link = QwenFree!Connected(@), !.recv = "on",
                            !.recvStop = FALSE]
      /\ pc = "connecting" /\ pc' = IF net.replaying THEN "replaySend" ELSE "loop"
      /\ UNCHANGED <<app, audio>>
  BY DEF QwenFree!ConnectOk
<1>2. /\ net'.link = QwenFree!Connected(net.link) /\ net'.replaying = net.replaying
      /\ net'.terminal = net.terminal /\ net'.back = net.back /\ net'.tail = net.tail
  BY <1>1, QwenFreeTypes DEF QwenFreeNets
<1>3. Unused(net.link) /\ Unused(net'.link)
  BY <1>1, <1>2, QwenFreeTypes, QwenFreeLinkOps DEF Unused, QwenFreePcm, QwenFreePlace
<1>4. QwenFreeHeard(app', audio', net')
  BY <1>1, <1>2, <1>3, QwenFreeTypes, QwenFreeQuiet DEF QwenFreePcm
<1> QED
  BY <1>1, <1>2, <1>3, <1>4
     DEF QwenFreePcm, QwenFreePlace, QwenFreeReplayPlace, QwenFreeReplaySteps,
     QwenFreeFirst, Unused

LEMMA QwenFreeConnectFailedPcm ==
  ASSUME QwenFreeInv, QwenFreePcm(pc, app, audio, net), QwenFree!ConnectFailed
  PROVE  QwenFreePcm(pc', app', audio', net')
<1>1. PICK retryable \in BOOLEAN :
        net' = [net EXCEPT !.link = QwenFree!NoLink,
                           !.tries = IF retryable THEN @ ELSE QwenFree!MaxTries]
  BY DEF QwenFree!ConnectFailed
<1>2. pc = "connecting" /\ pc' = "try" /\ UNCHANGED <<app, audio>>
  BY DEF QwenFree!ConnectFailed
<1>3. /\ net'.link = QwenFree!NoLink /\ net'.replaying = net.replaying
      /\ net'.terminal = net.terminal /\ net'.back = net.back /\ net'.tail = net.tail
  BY <1>1, QwenFreeTypes DEF QwenFreeNets
<1>4. Unused(net.link) /\ Unused(net'.link)
  BY <1>2, <1>3, QwenFreeTypes, QwenFreeLinkOps DEF Unused, QwenFreePcm, QwenFreePlace
<1>5. QwenFreeHeard(app', audio', net')
  BY <1>2, <1>3, <1>4, QwenFreeTypes, QwenFreeQuiet DEF QwenFreePcm
<1> QED
  BY <1>2, <1>3, <1>4, <1>5
     DEF QwenFreePcm, QwenFreePlace, QwenFreeReplayPlace, QwenFreeReplaySteps,
     QwenFreeFirst, Unused

(***************************************************************************)
(* ProcessReceivedFrames.                                                  *)
(***************************************************************************)

\* The chunk in hand is given up.
LEMMA QwenFreeChunkLost ==
  ASSUME app \in AppStates, audio \in AudioStates, QwenFreeHeard(app, audio, net),
         app' = app, audio' = EmptyChunk(audio), net'.replaying = net.replaying,
         net'.link.got = net.link.got, net'.link.ended = net.link.ended,
         net'.link.state = "up" => net.link.state = "up"
  PROVE  QwenFreeHeard(app', audio', net') /\ audio'.chunk = <<>>
<1>1. TakenInOrder(app, audio) /\ KeptInOrder(app, audio)
  BY DEF QwenFreeHeard
<1>2. /\ TakenInOrder(app, audio') /\ ChunkNext(app, audio')
      /\ audio'.chunk = <<>> /\ audio'.replay = audio.replay
      /\ KeptInOrder(app, audio') /\ KeptNext(app, audio')
  BY <1>1, ChunkEmptied
<1>3. net.replaying => /\ Increasing(net'.link.got)
                       /\ net'.link.state = "up" => HearsReplay(audio', net'.link)
  BY <1>2 DEF QwenFreeHeard, HearsReplay
<1>4. ~net.replaying => Hears(app, net'.link)
  BY DEF QwenFreeHeard, Hears
<1> QED
  BY <1>2, <1>3, <1>4 DEF QwenFreeHeard

\* Where a call of it leads to.
LEMMA QwenFreeReturns ==
  ASSUME NEW terminal \in BOOLEAN, pc \in QwenFree!FramePcs,
         QwenFree!ReturnFromFrames(pc, terminal)
  PROVE  /\ ~terminal =>
              \/ pc = "frames" /\ pc' = "drain"
              \/ pc = "chunkFrames" /\ pc' = "sendChunk"
              \/ pc = "drainedFrames" /\ pc' \in {"drain", "loop"}
              \/ pc = "tailFrames" /\ pc' = "sendStop"
              \/ pc = "finalFrames" /\ pc' = "finalFrames"
              \/ pc = "replayFrames" /\ pc' = "replaySend"
              \/ pc = "replayFinalFrames" /\ pc' = "replayFinalFrames"
         /\ terminal =>
              \/ pc \in {"frames", "drainedFrames", "tailFrames", "finalFrames"}
                   /\ pc' = "terminal"
              \/ pc = "chunkFrames" /\ pc' = "drained"
              \/ pc \in {"replayFrames", "replayFinalFrames"} /\ pc' = "replayOver"
         /\ audio' = IF pc = "chunkFrames" /\ terminal THEN EmptyChunk(audio) ELSE audio
<1>1. pc \in {"frames", "chunkFrames", "drainedFrames", "tailFrames",
              "finalFrames", "replayFrames", "replayFinalFrames"}
  BY QwenFreePlaces
<1>2. audio' = IF pc = "chunkFrames" /\ terminal THEN EmptyChunk(audio) ELSE audio
  BY DEF QwenFree!ReturnFromFrames, EmptyChunk
<1>3. ASSUME terminal
      PROVE  \/ pc \in {"frames", "drainedFrames", "tailFrames", "finalFrames"}
                  /\ pc' = "terminal"
             \/ pc = "chunkFrames" /\ pc' = "drained"
             \/ pc \in {"replayFrames", "replayFinalFrames"} /\ pc' = "replayOver"
  BY <1>1, <1>3 DEF QwenFree!ReturnFromFrames, QwenFree!TerminalPc
<1>4. ASSUME ~terminal
      PROVE  \/ pc = "frames" /\ pc' = "drain"
             \/ pc = "chunkFrames" /\ pc' = "sendChunk"
             \/ pc = "drainedFrames" /\ pc' \in {"drain", "loop"}
             \/ pc = "tailFrames" /\ pc' = "sendStop"
             \/ pc = "finalFrames" /\ pc' = "finalFrames"
             \/ pc = "replayFrames" /\ pc' = "replaySend"
             \/ pc = "replayFinalFrames" /\ pc' = "replayFinalFrames"
  BY <1>1, <1>4 DEF QwenFree!ReturnFromFrames, QwenFree!NextPc
<1> QED
  BY <1>2, <1>3, <1>4

LEMMA QwenFreeReturnPcm ==
  ASSUME QwenFreeInv, QwenFreePcm(pc, app, audio, net), NEW terminal \in BOOLEAN,
         pc \in QwenFree!FramePcs, QwenFree!ReturnFromFrames(pc, terminal), app' = app,
         net'.link = net.link, net'.replaying = net.replaying, net'.back = net.back,
         terminal => net'.terminal # "none",
         ~terminal => net.terminal = "none" /\ net'.terminal = "none",
         net'.tail => net.tail \/ (pc = "drainedFrames" /\ app.mic = "stopped"),
         net.tail => net'.tail
  PROVE  QwenFreePcm(pc', app', audio', net')
<1> DEFINE gone == pc = "chunkFrames" /\ terminal
<1>1. audio' = IF gone THEN EmptyChunk(audio) ELSE audio
  BY QwenFreeReturns
<1>2. QwenFreeHeard(app', audio', net')
  <2>1. CASE gone
    BY <1>1, <2>1, QwenFreeTypes, QwenFreeChunkLost DEF QwenFreePcm
  <2>2. CASE ~gone
    BY <1>1, <2>2, QwenFreeTypes, QwenFreeQuiet DEF QwenFreePcm
  <2> QED
    BY <2>1, <2>2
<1>3. net'.tail => app'.mic = "stopped"
  BY DEF QwenFreePcm, QwenFreePlace
<1>4. CASE terminal
  <2>1. /\ pc' \in {"terminal", "drained", "replayOver"}
        /\ pc' = "replayOver" => pc \in {"replayFrames", "replayFinalFrames"}
        /\ pc' # "replayOver" => pc \notin {"replayFrames", "replayFinalFrames"}
    BY <1>4, QwenFreeReturns
  <2>2. net.replaying => pc' = "replayOver"
    <3>1. net.replaying => pc \in {"replayFrames", "replayFinalFrames"}
      <4>1. pc \in {"frames", "chunkFrames", "drainedFrames", "tailFrames",
                    "finalFrames", "replayFrames", "replayFinalFrames"}
        BY QwenFreePlaces
      <4> QED
        BY <4>1 DEF QwenFreePcm, QwenFreePlace, QwenFreeReplayPlace,
           QwenFreeReplaySteps
    <3> QED
      BY <2>1, <3>1
  <2>3. audio'.chunk = <<>>
    <3>1. CASE gone
      BY <1>1, <3>1, QwenFreeTypes, QwenFreeChunkLost DEF QwenFreePcm
    <3>2. CASE ~gone
      <4>1. pc \notin {"chunkFrames", "sendChunk"}
        <5>1. pc # "sendChunk"
          BY QwenFreePlaces
        <5> QED
          BY <1>4, <3>2, <5>1
      <4> QED
        BY <1>1, <3>2, <4>1 DEF QwenFreePcm, QwenFreePlace
    <3> QED
      BY <3>1, <3>2
  <2>4. QwenFreeReplayPlace(pc', net')
    BY <1>4, <2>1, <2>2 DEF QwenFreeReplayPlace, QwenFreeReplaySteps
  <2>5. QwenFreePlace(pc', app', audio', net')
    BY <1>3, <1>4, <2>1, <2>3, <2>4 DEF QwenFreePlace, QwenFreeFirst
  <2> QED
    BY <1>2, <2>5 DEF QwenFreePcm
<1>5. CASE ~terminal
  <2>1. /\ \/ pc = "frames" /\ pc' = "drain"
           \/ pc = "chunkFrames" /\ pc' = "sendChunk"
           \/ pc = "drainedFrames" /\ pc' \in {"drain", "loop"}
           \/ pc = "tailFrames" /\ pc' = "sendStop"
           \/ pc = "finalFrames" /\ pc' = "finalFrames"
           \/ pc = "replayFrames" /\ pc' = "replaySend"
           \/ pc = "replayFinalFrames" /\ pc' = "replayFinalFrames"
        /\ audio' = audio
    BY <1>1, <1>5, QwenFreeReturns
  <2>2. net.terminal = "none" /\ net'.terminal = "none"
    BY <1>5
  <2>3. QwenFreeReplayPlace(pc', net')
    BY <2>1, <2>2
       DEF QwenFreePcm, QwenFreePlace, QwenFreeReplayPlace, QwenFreeReplaySteps
  <2>4. QwenFreePlace(pc', app', audio', net')
    <3>1. pc' \in QwenFreeFirst => pc \in QwenFreeFirst
      BY <2>1 DEF QwenFreeFirst
    <3>2. pc' \in QwenFreeFirst /\ ~net'.replaying
            => Len(net'.link.got) = ChunkAt(app', audio')
      BY <2>1, <2>2, <3>1 DEF QwenFreePcm, QwenFreePlace
    <3> QED
      BY <1>3, <2>1, <2>2, <2>3, <3>2 DEF QwenFreePcm, QwenFreePlace
  <2> QED
    BY <1>2, <2>4 DEF QwenFreePcm
<1> QED
  BY <1>4, <1>5

LEMMA QwenFreeTakePartialPcm ==
  ASSUME QwenFreeInv, QwenFreePcm(pc, app, audio, net), QwenFree!TakePartial
  PROVE  QwenFreePcm(pc', app', audio', net')
<1>1. net' = [net EXCEPT !.frames = Tail(net.frames), !.partial = QwenFree!FrameText]
  BY QwenFreeTypes DEF QwenFree!TakePartial, QwenFree!FrameTaken, QwenFreeNets
<1>2. pc' = pc /\ UNCHANGED <<app, audio>>
  BY DEF QwenFree!TakePartial
<1>3. QwenFreeSameNet /\ net'.link = net.link
  BY <1>1, QwenFreeTypes DEF QwenFreeNets, QwenFreeSameNet
<1>4. QwenFreePlace(pc', app', audio', net')
  BY <1>2, <1>3 DEF QwenFreePcm, QwenFreePlace, QwenFreeReplayPlace, QwenFreeSameNet
<1> QED
  BY <1>2, <1>3, <1>4, QwenFreeSamePcm

LEMMA QwenFreeTakeFailurePcm ==
  ASSUME QwenFreeInv, QwenFreePcm(pc, app, audio, net), QwenFree!TakeFailure
  PROVE  QwenFreePcm(pc', app', audio', net')
<1> DEFINE retryable == QwenFree!Frame.kind = "failed"
<1>1. net' = [net EXCEPT !.frames = Tail(net.frames), !.terminal = "failed",
                         !.retryable = retryable]
  BY QwenFreeTypes DEF QwenFree!TakeFailure, QwenFree!FrameTaken, QwenFreeNets
<1> HIDE DEF retryable
<1>2. /\ pc \in QwenFree!FramePcs /\ QwenFree!ReturnFromFrames(pc, TRUE) /\ app' = app
  BY DEF QwenFree!TakeFailure, QwenFree!HasFrame
<1>3. /\ net'.link = net.link /\ net'.replaying = net.replaying
      /\ net'.back = net.back /\ net'.tail = net.tail /\ net'.terminal = "failed"
  BY <1>1, QwenFreeTypes DEF QwenFreeNets
<1> QED
  BY <1>2, <1>3, QwenFreeReturnPcm

\* The call of EmitFinal drops the chunk, wherever it was made.
LEMMA QwenFreeTakeFinalPcm ==
  ASSUME QwenFreeInv, QwenFreePcm(pc, app, audio, net), QwenFree!TakeFinal
  PROVE  QwenFreePcm(pc', app', audio', net')
<1> DEFINE dispatched == ~net.replaying /\ QwenFree!FrameText # QwenFree!NoText
           kind == IF QwenFree!Frame.text = QwenFree!NoText THEN "empty" ELSE "text"
<1>1. /\ pc \in QwenFree!FramePcs /\ app' = app /\ app.mic = "stopped"
  BY DEF QwenFree!TakeFinal, QwenFree!HasFrame, QwenFree!FinalCounts
<1>2. CASE dispatched
  <2> DEFINE back == QwenFree!TerminalPc[pc]
  <2>1. net' = [net EXCEPT !.frames = Tail(net.frames), !.partial = QwenFree!FrameText,
                           !.terminal = kind, !.back = back]
    BY <1>2, QwenFreeTypes DEF QwenFree!TakeFinal, QwenFree!FrameTaken, QwenFreeNets
  <2>2. kind # "none"
    OBVIOUS
  <2> HIDE DEF kind, back
  <2>3. /\ net'.link = net.link /\ net'.replaying = net.replaying
        /\ net'.tail = net.tail /\ net'.terminal = kind
    BY <2>1, QwenFreeTypes DEF QwenFreeNets
  <2>4. pc' = "claim" /\ audio' = EmptyChunk(audio) /\ ~net.replaying
    BY <1>2 DEF QwenFree!TakeFinal, QwenFree!Claim, EmptyChunk
  <2>5. QwenFreeHeard(app', audio', net') /\ audio'.chunk = <<>>
    BY <1>1, <2>3, <2>4, QwenFreeTypes, QwenFreeChunkLost DEF QwenFreePcm
  <2> QED
    BY <1>1, <2>2, <2>3, <2>4, <2>5
       DEF QwenFreePcm, QwenFreePlace, QwenFreeReplayPlace, QwenFreeFirst
<1>3. CASE ~dispatched
  <2>1. net' = [net EXCEPT !.frames = Tail(net.frames), !.partial = QwenFree!FrameText,
                           !.terminal = kind]
    BY <1>3, QwenFreeTypes DEF QwenFree!TakeFinal, QwenFree!FrameTaken, QwenFreeNets
  <2>2. QwenFree!ReturnFromFrames(pc, TRUE)
    BY <1>3 DEF QwenFree!TakeFinal
  <2>3. kind # "none"
    OBVIOUS
  <2> HIDE DEF kind
  <2>4. /\ net'.link = net.link /\ net'.replaying = net.replaying
        /\ net'.back = net.back /\ net'.tail = net.tail /\ net'.terminal = kind
    BY <2>1, QwenFreeTypes DEF QwenFreeNets
  <2> QED
    BY <1>1, <2>2, <2>3, <2>4, QwenFreeReturnPcm
<1> QED
  BY <1>2, <1>3

LEMMA QwenFreeNoMoreFramesPcm ==
  ASSUME QwenFreeInv, QwenFreePcm(pc, app, audio, net), QwenFree!NoMoreFrames
  PROVE  QwenFreePcm(pc', app', audio', net')
<1> DEFINE terminal == net.terminal # "none"
           atTail == pc = "drainedFrames" /\ app.mic = "stopped" /\ net.terminal = "none"
<1>1. /\ pc \in QwenFree!FramePcs /\ QwenFree!ReturnFromFrames(pc, terminal)
      /\ app' = app /\ net' = [net EXCEPT !.tail = net.tail \/ atTail]
  BY QwenFreeTypes DEF QwenFree!NoMoreFrames, QwenFreeNets
<1>2. /\ net'.link = net.link /\ net'.replaying = net.replaying
      /\ net'.back = net.back /\ net'.tail = (net.tail \/ atTail)
      /\ net'.terminal = net.terminal
  BY <1>1, QwenFreeTypes DEF QwenFreeNets
<1>3. terminal \in BOOLEAN
  OBVIOUS
<1>4. terminal => net'.terminal # "none"
  BY <1>2
<1>5. ~terminal => net.terminal = "none" /\ net'.terminal = "none"
  BY <1>2
<1> HIDE DEF terminal
<1> QED
  BY <1>1, <1>2, <1>3, <1>4, <1>5, QwenFreeReturnPcm

(***************************************************************************)
(* The first attempt.                                                      *)
(***************************************************************************)

\* Every way out of it asks little: the chunk is gone.
LEMMA QwenFreeGivenUpPcm ==
  ASSUME QwenFreePcm(pc, app, audio, net), ~net.replaying, app' = app,
         QwenFreeHeard(app', audio', net'), audio'.chunk = <<>>,
         net'.replaying = net.replaying, net'.terminal = net.terminal,
         net'.back = net.back, net'.tail = net.tail,
         pc' \in {"quit", "recover", "finalFrames", "decide"}
  PROVE  QwenFreePcm(pc', app', audio', net')
  BY DEF QwenFreePcm, QwenFreePlace, QwenFreeReplayPlace, QwenFreeFirst

LEMMA QwenFreeGivesUpNet ==
  ASSUME net \in QwenFreeNets, NEW link \in Links,
         QwenFree!GiveUpSending([net EXCEPT !.link = link])
  PROVE  /\ pc' \in {"quit", "recover"} /\ net'.link = link
         /\ net'.replaying = net.replaying /\ net'.terminal = net.terminal
         /\ net'.back = net.back /\ net'.tail = net.tail
<1> DEFINE mid == [net EXCEPT !.link = link]
<1>1. mid \in QwenFreeNets /\ mid.link = link /\ mid.replaying = net.replaying
      /\ mid.terminal = net.terminal /\ mid.back = net.back /\ mid.tail = net.tail
  BY DEF QwenFreeNets
<1>2. net' = [mid EXCEPT !.retryable = TRUE] /\ pc' \in {"quit", "recover"}
  BY DEF QwenFree!GiveUpSending
<1> HIDE DEF mid
<1> QED
  BY <1>1, <1>2 DEF QwenFreeNets

LEMMA QwenFreePumpNet ==
  ASSUME net \in QwenFreeNets, NEW place, NEW allow \in BOOLEAN, NEW link \in Links,
         QwenFree!PumpAt(place, allow, link)
  PROVE  /\ pc' = place /\ net'.link = link
         /\ net'.replaying = net.replaying /\ net'.terminal = net.terminal
         /\ net'.back = net.back /\ net'.tail = net.tail
  BY DEF QwenFree!PumpAt, QwenFreeNets

LEMMA QwenFreeFramesNet ==
  ASSUME net \in QwenFreeNets, NEW place, NEW allow \in BOOLEAN,
         QwenFree!FramesAt(place, allow)
  PROVE  pc' = place /\ QwenFreeSameNet /\ net'.link = net.link
<1>1. net.link \in Links
  BY DEF QwenFreeNets
<1> QED
  BY <1>1, QwenFreePumpNet DEF QwenFree!FramesAt, QwenFreeSameNet

LEMMA QwenFreeGivesUpSame ==
  ASSUME net \in QwenFreeNets, QwenFree!GiveUpSending(net)
  PROVE  pc' \in {"quit", "recover"} /\ QwenFreeSameNet /\ net'.link = net.link
<1>1. net' = [net EXCEPT !.retryable = TRUE] /\ pc' \in {"quit", "recover"}
  BY DEF QwenFree!GiveUpSending
<1> QED
  BY <1>1 DEF QwenFreeNets, QwenFreeSameNet

LEMMA QwenFreeLoopPcm ==
  ASSUME QwenFreeInv, QwenFreePcm(pc, app, audio, net),
         QwenFree!Loop \/ QwenFree!FinalTimedOut
  PROVE  QwenFreePcm(pc', app', audio', net')
<1>1. /\ UNCHANGED <<app, audio>>
      /\ \/ pc = "loop" /\ pc' = "quit" /\ net' = net
         \/ pc = "loop" /\ QwenFree!FramesAt("frames", QwenFree!Recording)
         \/ pc = "finalFrames" /\ QwenFree!GiveUpSending(net)
  BY DEF QwenFree!Loop, QwenFree!FinalTimedOut
<1>2. /\ QwenFreeSameNet /\ net'.link = net.link
      /\ \/ pc = "loop" /\ pc' \in {"quit", "frames"}
         \/ pc = "finalFrames" /\ pc' \in {"quit", "recover"}
  <2>1. CASE pc = "loop" /\ pc' = "quit" /\ net' = net
    BY <2>1 DEF QwenFreeSameNet
  <2>2. CASE pc = "loop" /\ QwenFree!FramesAt("frames", QwenFree!Recording)
    <3>1. QwenFree!Recording \in BOOLEAN
      BY DEF QwenFree!Recording
    <3> QED
      BY <2>2, <3>1, QwenFreeTypes, QwenFreeFramesNet
  <2>3. CASE pc = "finalFrames" /\ QwenFree!GiveUpSending(net)
    BY <2>3, QwenFreeTypes, QwenFreeGivesUpSame
  <2> QED
    BY <1>1, <2>1, <2>2, <2>3
<1>3. ~net.replaying
  BY <1>2 DEF QwenFreePcm, QwenFreePlace, QwenFreeReplayPlace, QwenFreeReplaySteps
<1>4. QwenFreePlace(pc', app', audio', net')
  BY <1>1, <1>2, <1>3
     DEF QwenFreePcm, QwenFreePlace, QwenFreeReplayPlace, QwenFreeFirst,
     QwenFreeSameNet
<1> QED
  BY <1>1, <1>2, <1>4, QwenFreeSamePcm

\* SendStop only follows a drain that began after the recording had stopped.
LEMMA QwenFreeDrainedPcm ==
  ASSUME QwenFreeInv, QwenFreePcm(pc, app, audio, net), QwenFree!Drained
  PROVE  QwenFreePcm(pc', app', audio', net')
<1>1. /\ UNCHANGED <<app, audio>> /\ pc = "drained"
      /\ IF net.tail THEN QwenFree!FramesAt("tailFrames", FALSE)
         ELSE QwenFree!FramesAt("drainedFrames", QwenFree!Recording)
  BY DEF QwenFree!Drained
<1>2. QwenFree!Recording \in BOOLEAN
  BY DEF QwenFree!Recording
<1>3. /\ QwenFreeSameNet /\ net'.link = net.link
      /\ pc' = IF net.tail THEN "tailFrames" ELSE "drainedFrames"
  BY <1>1, <1>2, QwenFreeTypes, QwenFreeFramesNet
<1>4. ~net.replaying
  BY <1>1 DEF QwenFreePcm, QwenFreePlace, QwenFreeReplayPlace, QwenFreeReplaySteps
<1>5. QwenFreePlace(pc', app', audio', net')
  BY <1>1, <1>3, <1>4
     DEF QwenFreePcm, QwenFreePlace, QwenFreeReplayPlace, QwenFreeFirst,
     QwenFreeSameNet
<1> QED
  BY <1>1, <1>3, <1>5, QwenFreeSamePcm

LEMMA QwenFreeDrainPcmPcm ==
  ASSUME QwenFreeInv, QwenFreePcm(pc, app, audio, net), QwenFree!DrainPcm
  PROVE  QwenFreePcm(pc', app', audio', net')
<1>1. /\ app' = app /\ pc = "drain"
      /\ \/ QwenFree!GiveUpSending(net) /\ audio' = audio
         \/ pc' = "drained" /\ audio.pending = <<>> /\ UNCHANGED <<audio, net>>
         \/ /\ audio' = QwenFree!DrainToChunk(audio)
            /\ QwenFree!FramesAt("chunkFrames", QwenFree!Recording)
  BY DEF QwenFree!DrainPcm
<1>2. ~net.replaying
  BY <1>1 DEF QwenFreePcm, QwenFreePlace, QwenFreeReplayPlace, QwenFreeReplaySteps
<1>3. CASE QwenFree!GiveUpSending(net) /\ audio' = audio
  <2>1. pc' \in {"quit", "recover"} /\ QwenFreeSameNet /\ net'.link = net.link
    BY <1>3, QwenFreeTypes, QwenFreeGivesUpSame
  <2>2. QwenFreePlace(pc', app', audio', net')
    BY <1>1, <1>2, <1>3, <2>1
       DEF QwenFreePcm, QwenFreePlace, QwenFreeReplayPlace, QwenFreeFirst,
       QwenFreeSameNet
  <2> QED
    BY <1>1, <1>3, <2>1, <2>2, QwenFreeSamePcm
<1>4. CASE pc' = "drained" /\ audio.pending = <<>> /\ UNCHANGED <<audio, net>>
  <2>1. QwenFreePlace(pc', app', audio', net')
    BY <1>1, <1>2, <1>4
       DEF QwenFreePcm, QwenFreePlace, QwenFreeReplayPlace, QwenFreeFirst
  <2> QED
    BY <1>1, <1>4, <2>1, QwenFreeSamePcm DEF QwenFreeSameNet
<1>5. CASE /\ audio' = QwenFree!DrainToChunk(audio)
           /\ QwenFree!FramesAt("chunkFrames", QwenFree!Recording)
  <2>0. QwenFree!Recording \in BOOLEAN
    BY DEF QwenFree!Recording
  <2>1. pc' = "chunkFrames" /\ QwenFreeSameNet /\ net'.link = net.link
    BY <1>5, <2>0, QwenFreeTypes, QwenFreeFramesNet
  <2>2. audio' = DrainToChunk(audio)
    BY <1>5, QwenFreeTypes, QwenFreeBase
  <2>3. /\ TakenInOrder(app, audio) /\ KeptInOrder(app, audio)
        /\ ChunkNext(app, audio) /\ KeptNext(app, audio)
    BY DEF QwenFreePcm, QwenFreeHeard
  <2>4. /\ TakenInOrder(app, audio') /\ KeptInOrder(app, audio')
        /\ ChunkAt(app, audio') = ChunkAt(app, audio)
        /\ ChunkNext(app, audio') /\ KeptNext(app, audio')
    BY <2>2, <2>3, QwenFreeTypes, DrainOrder
  <2>5. Hears(app, net'.link)
    BY <1>2, <2>1 DEF QwenFreePcm, QwenFreeHeard
  <2>6. QwenFreeHeard(app', audio', net')
    BY <1>1, <1>2, <2>1, <2>4, <2>5 DEF QwenFreeHeard, QwenFreeSameNet
  <2>7. QwenFreePlace(pc', app', audio', net')
    BY <1>1, <1>2, <2>1, <2>4
       DEF QwenFreePcm, QwenFreePlace, QwenFreeReplayPlace, QwenFreeFirst,
       QwenFreeSameNet
  <2> QED
    BY <2>6, <2>7 DEF QwenFreePcm
<1> QED
  BY <1>1, <1>3, <1>4, <1>5

LEMMA QwenFreeSendChunkPcm ==
  ASSUME QwenFreeInv, QwenFreePcm(pc, app, audio, net), QwenFree!SendChunk
  PROVE  QwenFreePcm(pc', app', audio', net')
<1> DEFINE units == audio.chunk
           a == Keep(audio, units)
<1>0. app \in AppStates /\ audio \in AudioStates /\ units \in Pcm
  BY QwenFreeTypes, Lengths
<1>1. /\ pc = "sendChunk" /\ app' = app
      /\ audio' = [QwenFree!Keep(audio, units) EXCEPT !.chunk = <<>>]
  BY DEF QwenFree!SendChunk
<1>2. ~net.replaying
  BY <1>1 DEF QwenFreePcm, QwenFreePlace, QwenFreeReplayPlace, QwenFreeReplaySteps
<1>3. /\ TakenInOrder(app, audio) /\ KeptInOrder(app, audio)
      /\ ChunkNext(app, audio) /\ KeptNext(app, audio) /\ Hears(app, net.link)
      /\ net.terminal = "none" => Len(net.link.got) = ChunkAt(app, audio)
  BY <1>1, <1>2 DEF QwenFreePcm, QwenFreeHeard, QwenFreePlace, QwenFreeFirst
<1>4. audio' = EmptyChunk(a)
  BY <1>0, <1>1, QwenFreeBase DEF EmptyChunk
<1>5. /\ PieceOf(units, ChunkAt(app, audio), app.taken)
      /\ ChunkAt(app, audio) + Len(units) = PendingAt(app, audio)
      /\ a \in AudioStates /\ TakenInOrder(app, a)
      /\ PendingAt(app, a) = PendingAt(app, audio)
      /\ KeptInOrder(app, a)
  BY <1>0, <1>3, ChunkGone
<1> HIDE DEF a
<1>6. /\ TakenInOrder(app, audio') /\ ChunkNext(app, audio') /\ audio'.chunk = <<>>
      /\ ChunkAt(app, audio') = PendingAt(app, audio)
      /\ KeptInOrder(app, audio') /\ KeptNext(app, audio')
  BY <1>0, <1>4, <1>5, ChunkEmptied
<1>7. PICK s \in QwenFree!Sends(net.link, units, FALSE) :
        IF s.ok /\ ~app.aborted
        THEN net' = [net EXCEPT !.link = s.link] /\ pc' = "drain"
        ELSE QwenFree!GiveUpSending([net EXCEPT !.link = s.link])
  BY DEF QwenFree!SendChunk
<1> HIDE DEF units
<1>8. /\ s.link \in Links /\ s.ok \in BOOLEAN
      /\ s.ok => s.link.got = net.link.got \o units /\ s.link.ended = FALSE
      /\ ~s.ok => s.link.got = net.link.got /\ s.link.ended = net.link.ended
  BY <1>0, QwenFreeTypes, QwenFreeSent
\* The loop goes round only while no frame has ended the recognition.
<1>9. net.terminal = "none"
  BY <1>1 DEF QwenFreePcm, QwenFreePlace
<1>10. /\ Hears(app, s.link)
       /\ s.ok => Len(s.link.got) = ChunkAt(app, audio')
  <2>1. CASE s.ok
    <3>1. PieceOf(units, Len(net.link.got), app.taken)
      BY <1>3, <1>5, <1>9
    <3>2. /\ Hears(app, s.link)
          /\ Len(s.link.got) = Len(net.link.got) + Len(units)
      BY <1>0, <1>3, <1>8, <2>1, <3>1, QwenFreeTypes, GotMore
    <3> QED
      BY <1>3, <1>5, <1>6, <1>9, <3>2
  <2>2. CASE ~s.ok
    BY <1>3, <1>8, <2>2 DEF Hears
  <2> QED
    BY <2>1, <2>2
<1>11. CASE s.ok /\ ~app.aborted
  <2>1. net' = [net EXCEPT !.link = s.link] /\ pc' = "drain"
    BY <1>7, <1>11
  <2>2. /\ net'.link = s.link /\ net'.replaying = net.replaying
        /\ net'.terminal = net.terminal /\ net'.back = net.back
        /\ net'.tail = net.tail
    BY <1>8, <2>1, QwenFreeTypes DEF QwenFreeNets
  <2>3. QwenFreeHeard(app', audio', net')
    BY <1>1, <1>2, <1>6, <1>10, <2>2 DEF QwenFreeHeard
  <2>4. QwenFreePlace(pc', app', audio', net')
    BY <1>1, <1>2, <1>6, <1>10, <1>11, <2>1, <2>2
       DEF QwenFreePcm, QwenFreePlace, QwenFreeReplayPlace
  <2> QED
    BY <2>3, <2>4 DEF QwenFreePcm
<1>12. CASE ~(s.ok /\ ~app.aborted)
  <2>1. QwenFree!GiveUpSending([net EXCEPT !.link = s.link])
    BY <1>7, <1>12
  <2>2. /\ net'.link = s.link /\ net'.replaying = net.replaying
        /\ net'.terminal = net.terminal /\ net'.back = net.back
        /\ net'.tail = net.tail /\ pc' \in {"quit", "recover"}
    BY <1>8, <2>1, QwenFreeTypes, QwenFreeGivesUpNet
  <2>3. QwenFreeHeard(app', audio', net')
    BY <1>1, <1>2, <1>6, <1>10, <2>2 DEF QwenFreeHeard
  <2> QED
    BY <1>1, <1>2, <1>6, <2>2, <2>3, QwenFreeGivenUpPcm
<1> QED
  BY <1>11, <1>12

\* SendStop follows the last unit of the recording.
LEMMA QwenFreeSendStopPcm ==
  ASSUME QwenFreeInv, QwenFreePcm(pc, app, audio, net), QwenFree!SendStop
  PROVE  QwenFreePcm(pc', app', audio', net')
<1> DEFINE none == <<>>
<1>0. app \in AppStates /\ audio \in AudioStates /\ none \in Pcm
  BY QwenFreeTypes DEF Pcm
<1>1. pc = "sendStop" /\ UNCHANGED <<app, audio>>
  BY DEF QwenFree!SendStop
<1>2. /\ ~net.replaying /\ net.tail /\ net.terminal = "none" /\ app.mic = "stopped"
      /\ audio.pending = <<>> /\ audio.chunk = <<>>
      /\ Hears(app, net.link) /\ Len(net.link.got) = ChunkAt(app, audio)
  BY <1>1
     DEF QwenFreePcm, QwenFreeHeard, QwenFreePlace, QwenFreeReplayPlace,
     QwenFreeReplaySteps, QwenFreeFirst
<1>3. net.link.got = app.taken
  <2>1. Len(audio.chunk) = 0 /\ PendingAt(app, audio) \in Int
    BY <1>0, <1>2, Lengths
  <2>2. Len(net.link.got) = PendingAt(app, audio)
    BY <1>2, <2>1 DEF ChunkAt
  <2> QED
    BY <1>0, <1>2, <2>2, QwenFreeTypes, GotAll
<1>4. net.link.got \o none = net.link.got
  BY QwenFreeTypes DEF Pcm
<1> HIDE DEF none
<1>5. PICK s \in QwenFree!Sends(net.link, none, TRUE) :
        IF s.ok /\ ~app.aborted
        THEN QwenFree!PumpAt("finalFrames", TRUE, s.link)
        ELSE QwenFree!GiveUpSending([net EXCEPT !.link = s.link])
  BY DEF QwenFree!SendStop, none
<1>6. /\ s.link \in Links /\ s.ok \in BOOLEAN /\ s.link.got = net.link.got
      /\ s.ok \/ s.link.ended = net.link.ended
  BY <1>0, <1>4, <1>5, QwenFreeTypes, QwenFreeSent
<1>7. Hears(app, s.link)
  <2>1. CASE s.ok
    BY <1>2, <1>3, <1>6, <2>1 DEF Hears
  <2>2. CASE ~s.ok
    BY <1>2, <1>6, <2>2 DEF Hears
  <2> QED
    BY <2>1, <2>2
<1>8. /\ net'.link = s.link /\ net'.replaying = net.replaying
      /\ net'.terminal = net.terminal /\ net'.back = net.back /\ net'.tail = net.tail
      /\ pc' \in {"finalFrames", "quit", "recover"}
  <2>1. CASE QwenFree!PumpAt("finalFrames", TRUE, s.link)
    BY <1>6, <2>1, QwenFreeTypes, QwenFreePumpNet
  <2>2. CASE QwenFree!GiveUpSending([net EXCEPT !.link = s.link])
    BY <1>6, <2>2, QwenFreeTypes, QwenFreeGivesUpNet
  <2> QED
    BY <1>5, <2>1, <2>2
<1>9. QwenFreeHeard(app', audio', net')
  BY <1>1, <1>2, <1>7, <1>8 DEF QwenFreePcm, QwenFreeHeard
<1> QED
  BY <1>1, <1>2, <1>8, <1>9, QwenFreeGivenUpPcm

\* BufferUntilStopped keeps what is pending; an overflow ends the replay buffer.
LEMMA QwenFreeBufferPcm ==
  ASSUME QwenFreeInv, QwenFreePcm(pc, app, audio, net), QwenFree!Buffer
  PROVE  QwenFreePcm(pc', app', audio', net')
<1> DEFINE a == KeepPending(audio)
<1>0. app \in AppStates /\ audio \in AudioStates
  BY QwenFreeTypes
<1>1. /\ pc = "buffer" /\ UNCHANGED <<app, net>>
      /\ pc' \in {"buffer", "quit", "decide"}
      /\ audio' = [a EXCEPT !.kept = @ /\ ~audio.overflowed]
  BY <1>0, QwenFreeBase DEF QwenFree!Buffer, QwenFree!BufferPending
<1>2. ~net.replaying /\ audio.chunk = <<>> /\ TakenInOrder(app, audio)
      /\ KeptInOrder(app, audio) /\ Hears(app, net.link)
  BY <1>1
     DEF QwenFreePcm, QwenFreeHeard, QwenFreePlace, QwenFreeReplayPlace,
     QwenFreeReplaySteps
<1>3. /\ a \in AudioStates /\ TakenInOrder(app, a) /\ a.pending = <<>>
      /\ a.chunk = <<>> /\ KeptInOrder(app, a)
  BY <1>0, <1>2, KeepPendingOrder
<1> HIDE DEF a
<1>4. EmptyChunk(audio') = audio' /\ audio' \in AudioStates
      /\ audio'.pending = a.pending /\ audio'.replay = a.replay /\ audio'.chunk = <<>>
  <2>1. (a.kept /\ ~audio.overflowed) \in BOOLEAN
    OBVIOUS
  <2>2. /\ audio' \in AudioStates
        /\ audio'.pending = a.pending /\ audio'.replay = a.replay
        /\ audio'.chunk = a.chunk
    BY <1>1, <1>3, <2>1 DEF AudioStates
  <2>3. [audio' EXCEPT !.chunk = audio'.chunk] = audio'
    BY <2>2 DEF AudioStates
  <2> QED
    BY <1>3, <2>2, <2>3 DEF EmptyChunk
<1>5. TakenInOrder(app, audio') /\ KeptInOrder(app, audio')
  BY <1>3, <1>4 DEF TakenInOrder, KeptInOrder, PendingAt
<1>6. ChunkNext(app, audio') /\ KeptNext(app, audio')
  <2> DEFINE b == audio'
  <2>1. b \in AudioStates /\ TakenInOrder(app, b) /\ b = EmptyChunk(b)
        /\ KeptInOrder(app, b)
    BY <1>4, <1>5
  <2> HIDE DEF b
  <2>2. ChunkNext(app, b) /\ KeptNext(app, b)
    BY <1>0, <2>1, ChunkEmptied
  <2> QED
    BY <2>2 DEF b
<1>7. QwenFreeHeard(app', audio', net')
  BY <1>1, <1>2, <1>5, <1>6 DEF QwenFreeHeard
<1> QED
  BY <1>1, <1>2, <1>4, <1>7
     DEF QwenFreePcm, QwenFreePlace, QwenFreeReplayPlace, QwenFreeFirst

(***************************************************************************)
(* The replay.                                                             *)
(***************************************************************************)

LEMMA QwenFreeDecidePcm ==
  ASSUME QwenFreeInv, QwenFreePcm(pc, app, audio, net), QwenFree!Decide
  PROVE  QwenFreePcm(pc', app', audio', net')
<1>1. /\ pc = "decide" /\ UNCHANGED <<app, audio>>
      /\ \/ /\ net' = [net EXCEPT !.replaying = TRUE, !.recvStop = TRUE, !.tries = 0,
                         !.link = QwenFree!Shut(@), !.terminal = "none",
                         !.partial = QwenFree!NoText]
            /\ pc' = "replayJoin"
         \/ net' = [net EXCEPT !.back = "quit"] /\ pc' = "claim"
  BY DEF QwenFree!Decide, QwenFree!Claim
<1>2. ~net.replaying
  BY <1>1 DEF QwenFreePcm, QwenFreePlace, QwenFreeReplayPlace, QwenFreeReplaySteps
<1>3. CASE /\ net' = [net EXCEPT !.replaying = TRUE, !.recvStop = TRUE, !.tries = 0,
                         !.link = QwenFree!Shut(@), !.terminal = "none",
                         !.partial = QwenFree!NoText]
           /\ pc' = "replayJoin"
  <2>1. /\ net'.link = QwenFree!Shut(net.link) /\ net'.replaying
        /\ net'.tail = net.tail
    BY <1>3, QwenFreeTypes DEF QwenFreeNets
  <2>2. net'.link.got = net.link.got /\ net'.link.state = "closed"
    BY <2>1, QwenFreeTypes, QwenFreeLinkOps
  <2>3. Increasing(net.link.got)
    BY <1>2, QwenFreeTypes, GotInOrder DEF QwenFreePcm, QwenFreeHeard
  <2>4. QwenFreeHeard(app', audio', net')
    BY <1>1, <2>1, <2>2, <2>3 DEF QwenFreePcm, QwenFreeHeard
  <2> QED
    BY <1>1, <1>3, <2>1, <2>4
       DEF QwenFreePcm, QwenFreePlace, QwenFreeReplayPlace, QwenFreeReplaySteps
<1>4. CASE net' = [net EXCEPT !.back = "quit"] /\ pc' = "claim"
  <2>1. /\ net'.link = net.link /\ net'.replaying = net.replaying
        /\ net'.tail = net.tail /\ net'.back = "quit"
    BY <1>4, QwenFreeTypes DEF QwenFreeNets
  <2>2. QwenFreeHeard(app', audio', net')
    BY <1>1, <2>1, QwenFreeTypes, QwenFreeQuiet DEF QwenFreePcm
  <2> QED
    BY <1>1, <1>2, <1>4, <2>1, <2>2
       DEF QwenFreePcm, QwenFreePlace, QwenFreeReplayPlace, QwenFreeFirst
<1> QED
  BY <1>1, <1>3, <1>4

LEMMA QwenFreeReplayReceiverJoinedPcm ==
  ASSUME QwenFreeInv, QwenFreePcm(pc, app, audio, net), QwenFree!ReplayReceiverJoined
  PROVE  QwenFreePcm(pc', app', audio', net')
<1>1. /\ pc = "replayJoin" /\ pc' = "try" /\ UNCHANGED <<app, audio>>
      /\ net' = [net EXCEPT !.frames = <<>>]
  BY DEF QwenFree!ReplayReceiverJoined
<1>2. QwenFreeSameNet /\ net'.link = net.link
  BY <1>1, QwenFreeTypes DEF QwenFreeNets, QwenFreeSameNet
<1>3. net.replaying
  BY <1>1 DEF QwenFreePcm, QwenFreePlace, QwenFreeReplayPlace
<1>4. QwenFreePlace(pc', app', audio', net')
  BY <1>1, <1>2, <1>3
     DEF QwenFreePcm, QwenFreePlace, QwenFreeReplayPlace, QwenFreeReplaySteps,
     QwenFreeSameNet
<1> QED
  BY <1>1, <1>2, <1>4, QwenFreeSamePcm

LEMMA QwenFreeReplayUnits ==
  ASSUME net \in QwenFreeNets, audio \in AudioStates
  PROVE  ReplayUnits(audio, net.link) \in Pcm
<1>1. Len(net.link.got) \in Nat /\ Len(audio.replay) \in Nat /\ audio.replay \in Pcm
  BY PcmTypes DEF QwenFreeNets, Links, AudioStates
<1> QED
  BY <1>1, CutTypes, SessionAssumption DEF Smaller, ReplayUnits

\* A chunk of the replay, or its end.
LEMMA QwenFreeReplaySendPcm ==
  ASSUME QwenFreeInv, QwenFreePcm(pc, app, audio, net), QwenFree!ReplaySend
  PROVE  QwenFreePcm(pc', app', audio', net')
<1> DEFINE units == ReplayUnits(audio, net.link)
           last == ReplayOver(audio, net.link)
           next == IF last THEN "replayFinalFrames" ELSE "replayFrames"
<1>1. pc = "replaySend" /\ UNCHANGED <<app, audio>>
  BY DEF QwenFree!ReplaySend
<1>2. last \in BOOLEAN
  BY DEF ReplayOver
<1>u. units \in Pcm
  BY QwenFreeTypes, QwenFreeReplayUnits
<1>3. PICK s \in QwenFree!Sends(net.link, units, last) :
        \/ net' = [net EXCEPT !.link = s.link] /\ pc' = "replayOver"
        \/ s.ok /\ QwenFree!PumpAt(next, last, s.link)
  BY DEF QwenFree!ReplaySend, QwenFree!Smaller, Smaller, ReplayUnits, ReplayOver
<1>n. next \in {"replayFinalFrames", "replayFrames"}
  OBVIOUS
<1> HIDE DEF units, last, next
<1>4. /\ s.link \in Links /\ s.ok \in BOOLEAN
      /\ s.ok => /\ s.link.got = net.link.got \o units /\ s.link.ended = last
                 /\ net.link.state = "up"
      /\ ~s.ok => /\ s.link.got = net.link.got /\ s.link.ended = net.link.ended
                  /\ s.link.state = "up" => net.link.state = "up"
  BY <1>2, <1>u, QwenFreeTypes, QwenFreeSent
<1>5. /\ net'.link = s.link /\ net'.replaying = net.replaying
      /\ net'.terminal = net.terminal /\ net'.back = net.back /\ net'.tail = net.tail
      /\ pc' \in {"replayOver", "replayFinalFrames", "replayFrames"}
  <2>1. CASE net' = [net EXCEPT !.link = s.link] /\ pc' = "replayOver"
    BY <1>4, <2>1, QwenFreeTypes DEF QwenFreeNets
  <2>2. CASE QwenFree!PumpAt(next, last, s.link)
    BY <1>2, <1>4, <1>n, <2>2, QwenFreeTypes, QwenFreePumpNet
  <2> QED
    BY <1>3, <2>1, <2>2
<1>6. net.replaying /\ audio.chunk = <<>>
  BY <1>1 DEF QwenFreePcm, QwenFreePlace, QwenFreeReplayPlace
<1>7. /\ Increasing(s.link.got)
      /\ s.link.state = "up" => HearsReplay(audio, s.link)
  <2>1. CASE s.ok
    <3>1. HearsReplay(audio, net.link)
      BY <1>4, <1>6, <2>1 DEF QwenFreePcm, QwenFreeHeard
    <3>2. HearsReplay(audio, s.link)
      BY <1>4, <2>1, <3>1, QwenFreeTypes, HearsReplayMore DEF units, last
    <3>3. s.link.got \in Pcm /\ audio.replay \in Pcm
      BY <1>4, QwenFreeTypes DEF Links, AudioStates
    <3>4. PieceOf(s.link.got, 0, audio.replay) /\ Increasing(audio.replay)
      BY <3>2 DEF QwenFreePcm, QwenFreeHeard, KeptInOrder, HearsReplay
    <3> QED
      BY <3>2, <3>3, <3>4, PieceIncreasing
  <2>2. CASE ~s.ok
    BY <1>4, <1>6, <2>2 DEF QwenFreePcm, QwenFreeHeard, HearsReplay
  <2> QED
    BY <2>1, <2>2
<1>8. QwenFreeHeard(app', audio', net')
  BY <1>1, <1>5, <1>6, <1>7 DEF QwenFreePcm, QwenFreeHeard
<1>9. QwenFreeReplayPlace(pc', net')
  BY <1>1, <1>5, <1>6
     DEF QwenFreePcm, QwenFreePlace, QwenFreeReplayPlace, QwenFreeReplaySteps
<1> QED
  BY <1>1, <1>5, <1>6, <1>8, <1>9 DEF QwenFreePcm, QwenFreePlace

LEMMA QwenFreeReplayOverPcm ==
  ASSUME QwenFreeInv, QwenFreePcm(pc, app, audio, net), QwenFree!ReplayOver
  PROVE  QwenFreePcm(pc', app', audio', net')
<1>1. /\ pc = "replayOver" /\ pc' = "claim" /\ UNCHANGED <<app, audio>>
      /\ net' = [net EXCEPT !.back = "quit"]
  BY DEF QwenFree!ReplayOver, QwenFree!Claim
<1>2. /\ net'.link = net.link /\ net'.replaying = net.replaying
      /\ net'.tail = net.tail /\ net'.back = "quit"
  BY <1>1, QwenFreeTypes DEF QwenFreeNets
<1>3. QwenFreeHeard(app', audio', net')
  BY <1>1, <1>2, QwenFreeTypes, QwenFreeQuiet DEF QwenFreePcm
<1>4. QwenFreeReplayPlace(pc', net')
  BY <1>1, <1>2 DEF QwenFreeReplayPlace, QwenFreeReplaySteps
<1> QED
  BY <1>1, <1>2, <1>3, <1>4 DEF QwenFreePcm, QwenFreePlace, QwenFreeFirst

\* The receiver thread only listens, and the worker waits for its end.
LEMMA QwenFreeReceivesPcm ==
  ASSUME QwenFreeInv, QwenFreePcm(pc, app, audio, net), QwenFree!Drain
  PROVE  QwenFreePcm(pc', app', audio', net')
<1>1. UNCHANGED <<app, audio, pc>>
  BY DEF QwenFree!Drain, QwenFree!ReceiverQuits, QwenFree!ReceiveText,
     QwenFree!ReceiveFailure
<1>2. QwenFreeSameNet /\ net'.link.state = net.link.state
  <2>1. CASE QwenFree!ReceiverQuits
    BY <2>1, QwenFreeTypes DEF QwenFree!ReceiverQuits, QwenFreeNets, QwenFreeSameNet
  <2>2. CASE QwenFree!ReceiveText
    <3>1. PICK kind \in {"partial", "final"}, text \in {QwenFree!NoText, net.link.got} :
            net' = [net EXCEPT
                      !.frames = Append(@, [kind |-> kind, text |-> text]),
                      !.link.told = kind = "final" /\ net.link.ended]
      BY <2>2 DEF QwenFree!ReceiveText
    <3> DEFINE told == kind = "final" /\ net.link.ended
               more == Append(net.frames, [kind |-> kind, text |-> text])
    <3>2. net' = [net EXCEPT !.frames = more, !.link = [net.link EXCEPT !.told = told]]
      BY <3>1, QwenFreeTypes DEF QwenFreeNets
    <3> HIDE DEF told, more
    <3>3. /\ net'.link = [net.link EXCEPT !.told = told]
          /\ net'.replaying = net.replaying /\ net'.terminal = net.terminal
          /\ net'.back = net.back /\ net'.tail = net.tail
      BY <3>2, QwenFreeTypes DEF QwenFreeNets
    <3> QED
      BY <3>3, QwenFreeTypes DEF Links, QwenFreeSameNet
  <2>3. CASE QwenFree!ReceiveFailure
    <3>1. PICK kind \in {"failed", "refused"} :
            net' = [net EXCEPT
                      !.frames = Append(@, [kind |-> kind, text |-> QwenFree!NoText]),
                      !.recv = "done"]
      BY <2>3 DEF QwenFree!ReceiveFailure
    <3> QED
      BY <3>1, QwenFreeTypes DEF QwenFreeNets, QwenFreeSameNet
  <2> QED
    BY <2>1, <2>2, <2>3 DEF QwenFree!Drain
<1>3. QwenFreePlace(pc', app', audio', net')
  BY <1>1, <1>2
     DEF QwenFreePcm, QwenFreePlace, QwenFreeReplayPlace, QwenFreeSameNet, Unused
<1> QED
  BY <1>1, <1>2, <1>3, QwenFreeSamePcm

LEMMA QwenFreeStopReceiverPcm ==
  ASSUME QwenFreeInv, QwenFreePcm(pc, app, audio, net),
         QwenFree!StopReceiver \/ QwenFree!ReceiverJoined
  PROVE  QwenFreePcm(pc', app', audio', net')
<1>1. /\ UNCHANGED <<app, audio>>
      /\ \/ pc = "quit" /\ pc' = "join"
         \/ pc = "join" /\ pc' = "stop"
  BY DEF QwenFree!StopReceiver, QwenFree!ReceiverJoined
<1>2. /\ net'.replaying = net.replaying /\ net'.terminal = net.terminal
      /\ net'.back = net.back /\ net'.tail = net.tail
      /\ net'.link \in {net.link, QwenFree!Shut(net.link)}
  <2>1. CASE QwenFree!StopReceiver
    <3>1. net' = [net EXCEPT !.recvStop = TRUE, !.link = QwenFree!Shut(net.link)]
      BY <2>1, QwenFreeTypes DEF QwenFree!StopReceiver, QwenFreeNets
    <3> QED
      BY <3>1, QwenFreeTypes DEF QwenFreeNets
  <2>2. CASE QwenFree!ReceiverJoined
    <3>1. net' = [net EXCEPT !.frames = <<>>]
      BY <2>2 DEF QwenFree!ReceiverJoined
    <3> QED
      BY <3>1, QwenFreeTypes DEF QwenFreeNets
  <2> QED
    BY <2>1, <2>2
<1>3. /\ QwenFreeSameNet
      /\ net'.link.state = "up" => net.link.state = "up"
  <2>1. /\ net'.link.got = net.link.got /\ net'.link.ended = net.link.ended
        /\ net'.link.state = "up" => net.link.state = "up"
    BY <1>2, QwenFreeTypes, QwenFreeLinkOps
  <2> QED
    BY <1>2, <2>1 DEF QwenFreeSameNet
<1>4. QwenFreePlace(pc', app', audio', net')
  BY <1>1, <1>2
     DEF QwenFreePcm, QwenFreePlace, QwenFreeReplayPlace, QwenFreeReplaySteps,
     QwenFreeFirst
<1> QED
  BY <1>1, <1>3, <1>4, QwenFreeSamePcm

\* The application's steps.
LEMMA QwenFreeAppPcm ==
  ASSUME QwenFreeInv, QwenFreePcm(pc, app, audio, net),
         TakesNothing(app, app'), audio' = audio,
         \/ pc' = pc
         \/ pc = "idle" /\ pc' = "prepare"
         \/ pc = "stop" /\ pc' = "ended",
         pc # "idle" => (Open(app') => Open(app)),
         net.tail => app'.mic = "stopped", QwenFreeSameNet,
         net'.link.state = "up" => net.link.state = "up"
  PROVE  QwenFreePcm(pc', app', audio', net')
<1>1. /\ TakenInOrder(app, audio) => TakenInOrder(app', audio)
      /\ KeptInOrder(app, audio) => KeptInOrder(app', audio)
      /\ ChunkNext(app, audio) => ChunkNext(app', audio)
      /\ KeptNext(app, audio) => KeptNext(app', audio)
      /\ ChunkAt(app', audio) = ChunkAt(app, audio)
      /\ Hears(app, net.link) /\ (Open(app') => Open(app)) => Hears(app', net.link)
  BY TakesNothingLeaves
<1>2. ~net.replaying => Hears(app', net.link)
  <2>1. CASE pc = "idle" /\ ~net.replaying
    <3>1. Unused(net.link)
      BY <2>1 DEF QwenFreePcm, QwenFreePlace
    <3> QED
      BY <2>1, <3>1 DEF QwenFreePcm, QwenFreeHeard, Hears, Unused, TakesNothing
  <2> QED
    BY <1>1, <2>1 DEF QwenFreePcm, QwenFreeHeard
<1>3. QwenFreeHeard(app', audio', net')
  BY <1>1, <1>2
     DEF QwenFreePcm, QwenFreeHeard, Hears, HearsReplay, QwenFreeSameNet
<1>4. QwenFreeReplayPlace(pc', net')
  BY DEF QwenFreePcm, QwenFreePlace, QwenFreeReplayPlace, QwenFreeReplaySteps,
     QwenFreeSameNet
<1>5. QwenFreePlace(pc', app', audio', net')
  <2>1. /\ net'.replaying = net.replaying /\ net'.terminal = net.terminal
        /\ net'.tail = net.tail /\ net'.link.got = net.link.got
        /\ Unused(net.link) => Unused(net'.link)
    BY DEF QwenFreeSameNet, Unused
  <2>2. \/ pc' = pc
        \/ pc = "idle" /\ pc' = "prepare"
        \/ pc = "stop" /\ pc' = "ended"
    OBVIOUS
  <2>3. pc' \notin {"chunkFrames", "sendChunk"} => audio'.chunk = <<>>
    BY <2>2 DEF QwenFreePcm, QwenFreePlace
  <2>4. pc' \in QwenFreeFirst => pc \in QwenFreeFirst
    BY <2>2 DEF QwenFreeFirst
  <2> QED
    BY <1>1, <1>4, <2>1, <2>2, <2>3, <2>4 DEF QwenFreePcm, QwenFreePlace
<1> QED
  BY <1>3, <1>5 DEF QwenFreePcm

LEMMA QwenFreeEnqueuePcm ==
  ASSUME QwenFreeInv, QwenFreePcm(pc, app, audio, net), Enqueue
  PROVE  QwenFreePcm(pc', app', audio', net')
<1>1. /\ TakenInOrder(app', audio')
      /\ KeptInOrder(app, audio) => KeptInOrder(app', audio')
      /\ KeptInOrder(app, audio) /\ KeptNext(app, audio) => KeptNext(app', audio')
      /\ ChunkNext(app, audio) => ChunkNext(app', audio')
      /\ ChunkAt(app', audio') = ChunkAt(app, audio)
      /\ audio'.chunk = audio.chunk
      /\ app'.mic = app.mic /\ app.mic = "open"
      /\ UNCHANGED <<pc, net>>
  BY QwenFreeTypes, EnqueueOrder DEF QwenFreePcm, QwenFreeHeard
<1>2. /\ Hears(app, net.link) => Hears(app', net.link)
      /\ HearsReplay(audio, net.link) => HearsReplay(audio', net.link)
  BY QwenFreeTypes, EnqueueHears DEF QwenFreePcm, QwenFreeHeard
<1>3. QwenFreeHeard(app', audio', net')
  BY <1>1, <1>2 DEF QwenFreePcm, QwenFreeHeard
<1>4. ~net.tail
  BY <1>1 DEF QwenFreePcm, QwenFreePlace
<1> QED
  BY <1>1, <1>3, <1>4 DEF QwenFreePcm, QwenFreePlace

LEMMA QwenFreeWorkerPcm ==
  ASSUME QwenFreeInv, QwenFreePcm(pc, app, audio, net), QwenFree!Worker
  PROVE  QwenFreePcm(pc', app', audio', net')
  BY QwenFreeWaitsPcm, QwenFreeEmitsPcm, QwenFreeTryPcm, QwenFreeOpenPcm,
     QwenFreeConnectOkPcm, QwenFreeConnectFailedPcm, QwenFreeTakePartialPcm,
     QwenFreeTakeFailurePcm, QwenFreeTakeFinalPcm, QwenFreeNoMoreFramesPcm,
     QwenFreeLoopPcm, QwenFreeDrainedPcm, QwenFreeDrainPcmPcm, QwenFreeSendChunkPcm,
     QwenFreeSendStopPcm, QwenFreeBufferPcm, QwenFreeDecidePcm,
     QwenFreeReplayReceiverJoinedPcm, QwenFreeReplaySendPcm, QwenFreeReplayOverPcm,
     QwenFreeStopReceiverPcm
  DEF QwenFree!Worker

LEMMA QwenFreeNextPcm ==
  ASSUME QwenFreeInv, QwenFreePcm(pc, app, audio, net), QwenFree!Next
  PROVE  QwenFreePcm(pc', app', audio', net')
<1>1. CASE QwenFree!Worker
  BY <1>1, QwenFreeWorkerPcm
<1>2. CASE QwenFree!Drain
  BY <1>2, QwenFreeReceivesPcm
<1>3. CASE QwenFree!Start
  <2>1. PICK first \in {"prepare"} : StartAt(first)
    BY <1>3 DEF QwenFree!Start, QwenFree!StartAt, StartAt
  <2>2. pc = "idle" /\ pc' = "prepare" /\ audio' = audio /\ net' = net
    BY <2>1 DEF StartAt
  <2>3. ~net.tail
    BY <2>2, QwenFreeTypes DEF QwenFreePcm, QwenFreePlace
  <2>4. TakesNothing(app, app')
    BY <2>1, QwenFreeTypes, StartTakesNothing
  <2> QED
    BY <2>2, <2>3, <2>4, QwenFreeAppPcm DEF QwenFreeSameNet
<1>4. CASE QwenFree!Abort
  <2> DEFINE closed == [net EXCEPT !.link = QwenFree!Aborted(net.link), !.recvStop = TRUE]
  <2>1. AbortWith(closed)
    BY <1>4, QwenFreeTypes
       DEF QwenFree!Abort, QwenFree!AbortWith, AbortWith, QwenFreeNets
  <2>2. pc' = pc /\ audio' = audio /\ net' = closed /\ app'.mic = app.mic
    BY <2>1, QwenFreeTypes DEF AbortWith, AppStates
  <2>3. /\ net'.link = QwenFree!Aborted(net.link) /\ net'.replaying = net.replaying
        /\ net'.terminal = net.terminal /\ net'.back = net.back
        /\ net'.tail = net.tail
    BY <2>2, QwenFreeTypes DEF QwenFreeNets
  <2>4. /\ net'.link.got = net.link.got /\ net'.link.ended = net.link.ended
        /\ net'.link.state = "up" => net.link.state = "up"
    BY <2>3, QwenFreeTypes, QwenFreeLinkOps
  <2> HIDE DEF closed
  <2>5. TakesNothing(app, app') /\ (Open(app') => Open(app))
    BY <2>1, QwenFreeTypes, ApplicationTakesNothing
  <2>6. net.tail => app'.mic = "stopped"
    BY <2>2 DEF QwenFreePcm, QwenFreePlace
  <2>7. QwenFreeSameNet
    BY <2>3, <2>4 DEF QwenFreeSameNet
  <2> QED
    BY <2>2, <2>4, <2>5, <2>6, <2>7, QwenFreeAppPcm
<1>5. CASE QwenFree!StopInput
  <2>1. StopInput
    BY <1>5, QwenFreeStopInput
  <2>2. TakesNothing(app, app') /\ (Open(app') => Open(app))
    BY <2>1, QwenFreeTypes, ApplicationTakesNothing
  <2>3. app'.mic = "stopped" /\ UNCHANGED <<audio, pc, net>>
    BY <2>1, QwenFreeTypes DEF StopInput, AppStates
  <2> QED
    BY <2>2, <2>3, QwenFreeAppPcm DEF QwenFreeSameNet
<1>6. CASE QwenFree!Stopped
  <2>1. Stopped
    BY <1>6, QwenFreeStopped DEF Ended
  <2>2. TakesNothing(app, app') /\ (Open(app') => Open(app))
    BY <2>1, QwenFreeTypes, ApplicationTakesNothing
  <2>3. /\ app'.mic = app.mic /\ UNCHANGED <<audio, net>>
        /\ pc = "stop" /\ pc' = "ended"
    BY <2>1, QwenFreeTypes DEF Stopped, AppStates
  <2>4. net.tail => app'.mic = "stopped"
    BY <2>3 DEF QwenFreePcm, QwenFreePlace
  <2> QED
    BY <2>2, <2>3, <2>4, QwenFreeAppPcm DEF QwenFreeSameNet
<1>7. CASE QwenFree!Enqueue
  BY <1>7, QwenFreeEnqueue, QwenFreeEnqueuePcm
<1>8. ~QwenFree!Dispatch
  BY DEF QwenFree!Dispatch, QwenFreeInv, QwenFreeSteps, QwenFreeLateSteps
<1> QED
  BY <1>1, <1>2, <1>3, <1>4, <1>5, <1>6, <1>7, <1>8
     DEF QwenFree!Next, QwenFree!BaseNext

LEMMA QwenFreeInitPcm ==
  ASSUME QwenFree!Init
  PROVE  QwenFreePcm(pc, app, audio, net)
<1>1. /\ app.mic = "idle" /\ app.taken = <<>> /\ app.captured = 0
      /\ audio.pending = <<>> /\ audio.chunk = <<>> /\ audio.replay = <<>>
      /\ net.link = QwenFree!NoLink /\ ~net.replaying /\ ~net.tail
      /\ net.terminal = "none" /\ net.back = "quit" /\ pc = "idle"
  BY DEF QwenFree!Init, QwenFree!InitBase, QwenFree!InitNet
<1>2. Unused(QwenFree!NoLink)
  BY DEF QwenFree!NoLink, Unused
<1>3. /\ TakenInOrder(app, audio) /\ KeptInOrder(app, audio)
      /\ ChunkNext(app, audio) /\ KeptNext(app, audio)
      /\ InHand(app, audio, net.link) /\ Hears(app, net.link)
  BY <1>1, <1>2, NothingYet
<1>4. QwenFreePlace(pc, app, audio, net)
  BY <1>1, <1>2, <1>3
     DEF QwenFreePlace, QwenFreeReplayPlace, QwenFreeReplaySteps, QwenFreeFirst, InHand
<1> QED
  BY <1>1, <1>3, <1>4 DEF QwenFreePcm, QwenFreeHeard

---------------------------------------------------------------------------
(***************************************************************************)
(* All providers.                                                          *)
(***************************************************************************)

\* The inductive invariant, next to Inv: what moves and what was heard.
PcmInv ==
  /\ Provider("volc") => VolcPcm(pc, app, audio, net)
  /\ Provider("qwen") => QwenPcm(pc, app, audio, net)
  /\ Provider("qwenAudio") => QwenAudioPcm(pc, app, audio, net)
  /\ Provider("doubao") => DoubaoPcm(pc, app, audio, net)
  /\ Provider("qwenFree") => QwenFreePcm(pc, app, audio, net)

LEMMA InitPcm ==
  ASSUME Init
  PROVE  PcmInv
<1>1. CASE Volcengine!Init
  <2>1. net.provider = "volc"
    BY <1>1, VolcInit DEF VolcInv, VolcNets
  <2> QED
    BY <1>1, <2>1, VolcInitPcm DEF PcmInv, Provider
<1>2. CASE Qwen!Init
  <2>1. net.provider = "qwen"
    BY <1>2, QwenInit DEF QwenInv, QwenNets
  <2> QED
    BY <1>2, <2>1, QwenInitPcm DEF PcmInv, Provider
<1>3. CASE QwenAudio!Init
  <2>1. net.provider = "qwenAudio"
    BY <1>3, QwenAudioInit DEF QwenAudioInv, QwenAudioNets
  <2> QED
    BY <1>3, <2>1, QwenAudioInitPcm DEF PcmInv, Provider
<1>4. CASE Doubao!Init
  <2>1. net.provider = "doubao"
    BY <1>4, DoubaoInit DEF DoubaoInv, DoubaoNets
  <2> QED
    BY <1>4, <2>1, DoubaoInitPcm DEF PcmInv, Provider
<1>5. CASE QwenFree!Init
  <2>1. net.provider = "qwenFree"
    BY <1>5, QwenFreeInit DEF QwenFreeInv, QwenFreeNets
  <2> QED
    BY <1>5, <2>1, QwenFreeInitPcm DEF PcmInv, Provider
<1> QED
  BY <1>1, <1>2, <1>3, <1>4, <1>5 DEF Init

LEMMA NextPcm ==
  ASSUME Inv, PcmInv, Next
  PROVE  PcmInv'
<1>1. CASE Provider("volc") /\ Volcengine!Next
  <2>1. VolcPcm(pc', app', audio', net')
    BY <1>1, WhichProvider, VolcNextPcm DEF PcmInv
  <2>2. net'.provider = "volc"
    BY <1>1, WhichProvider, VolcNext DEF VolcInv, VolcNets
  <2> QED
    BY <2>1, <2>2 DEF PcmInv, Provider
<1>2. CASE Provider("qwen") /\ Qwen!Next
  <2>1. QwenPcm(pc', app', audio', net')
    BY <1>2, WhichProvider, QwenNextPcm DEF PcmInv
  <2>2. net'.provider = "qwen"
    BY <1>2, WhichProvider, QwenNext DEF QwenInv, QwenNets
  <2> QED
    BY <2>1, <2>2 DEF PcmInv, Provider
<1>3. CASE Provider("qwenAudio") /\ QwenAudio!Next
  <2>1. QwenAudioPcm(pc', app', audio', net')
    BY <1>3, WhichProvider, QwenAudioNextPcm DEF PcmInv
  <2>2. net'.provider = "qwenAudio"
    BY <1>3, WhichProvider, QwenAudioNext DEF QwenAudioInv, QwenAudioNets
  <2> QED
    BY <2>1, <2>2 DEF PcmInv, Provider
<1>4. CASE Provider("doubao") /\ Doubao!Next
  <2>1. DoubaoPcm(pc', app', audio', net')
    BY <1>4, WhichProvider, DoubaoNextPcm DEF PcmInv
  <2>2. net'.provider = "doubao"
    BY <1>4, WhichProvider, DoubaoNext DEF DoubaoInv, DoubaoNets
  <2> QED
    BY <2>1, <2>2 DEF PcmInv, Provider
<1>5. CASE Provider("qwenFree") /\ QwenFree!Next
  <2>1. QwenFreePcm(pc', app', audio', net')
    BY <1>5, WhichProvider, QwenFreeNextPcm DEF PcmInv
  <2>2. net'.provider = "qwenFree"
    BY <1>5, WhichProvider, QwenFreeNext DEF QwenFreeInv, QwenFreeNets
  <2> QED
    BY <2>1, <2>2 DEF PcmInv, Provider
<1> QED
  BY <1>1, <1>2, <1>3, <1>4, <1>5 DEF Next

LEMMA StutterPcm ==
  ASSUME PcmInv, UNCHANGED vars
  PROVE  PcmInv'
  BY DEF vars, PcmInv, Provider

\* As long as its connection can be used, what a service has heard, the chunk in
\* hand and the pending units are consecutive pieces of the recording, at the steps
\* of each worker that PcmInv names.  After a failure no more than an order is left,
\* of what is kept and what is still to be kept (KeptInOrder), and for the replays
\* of Doubao and Qwen Audio nothing is said of what the service hears.
THEOREM PcmInvariance == Spec => []PcmInv
<1>1. Init => PcmInv
  BY InitPcm
<1>2. Inv /\ PcmInv /\ [Next]_vars => PcmInv'
  BY NextPcm, StutterPcm
<1> QED
  BY <1>1, <1>2, Invariance, PTL DEF Spec

LEMMA ReplayInOrder ==
  ASSUME NEW ap \in AppStates, NEW au \in AudioStates, NEW l, l.got \in Pcm,
         KeptInOrder(ap, au), HearsReplay(au, l)
  PROVE  Increasing(l.got)
<1>1. au.replay \in Pcm /\ Increasing(au.replay) /\ PieceOf(l.got, 0, au.replay)
  BY DEF AudioStates, KeptInOrder, HearsReplay
<1> QED
  BY <1>1, PieceIncreasing

LEMMA HeardIsInOrder ==
  ASSUME Inv, PcmInv
  PROVE  HeardInOrder
<1>1. CASE Provider("volc")
  <2>1. VolcInv /\ VolcPcm(pc, app, audio, net)
    BY <1>1, WhichProvider DEF PcmInv
  <2>2. Increasing(net.main.got)
    BY <2>1, VolcPcmTypes, GotInOrder DEF VolcPcm, VolcHeardPcm
  <2>3. Increasing(net.retry.got)
    BY <2>1, VolcPcmTypes, ReplayInOrder DEF VolcPcm, VolcHeardPcm
  <2> QED
    BY <1>1, <2>2, <2>3 DEF HeardInOrder, Heard
<1>2. CASE Provider("qwen")
  <2>1. QwenInv /\ QwenPcm(pc, app, audio, net)
    BY <1>2, WhichProvider DEF PcmInv
  <2>2. Increasing(net.link.got)
    BY <2>1, QwenTypes, HearsInOrder DEF QwenPcm, QwenHeard
  <2> QED
    BY <1>2, <2>2 DEF HeardInOrder, Heard, Provider
<1>3. CASE Provider("qwenAudio")
  <2>1. QwenAudioInv /\ QwenAudioPcm(pc, app, audio, net)
    BY <1>3, WhichProvider DEF PcmInv
  <2>2. ~net.replaying => Increasing(net.link.got)
    BY <2>1, QwenAudioTypes, HearsInOrder DEF QwenAudioPcm, QwenAudioHeard
  <2> QED
    BY <1>3, <2>2 DEF HeardInOrder, Heard, Provider
<1>4. CASE Provider("doubao")
  <2>1. DoubaoInv /\ DoubaoPcm(pc, app, audio, net)
    BY <1>4, WhichProvider DEF PcmInv
  <2>2. ~net.replaying => Increasing(net.link.got)
    BY <2>1, DoubaoTypes, HearsInOrder DEF DoubaoPcm, DoubaoHeard
  <2> QED
    BY <1>4, <2>2 DEF HeardInOrder, Heard, Provider
<1>5. CASE Provider("qwenFree")
  <2>1. QwenFreeInv /\ QwenFreePcm(pc, app, audio, net)
    BY <1>5, WhichProvider DEF PcmInv
  <2>2. Increasing(net.link.got)
    BY <2>1, QwenFreeTypes, HearsInOrder DEF QwenFreePcm, QwenFreeHeard
  <2> QED
    BY <1>5, <2>2 DEF HeardInOrder, Heard, Provider
<1> QED
  BY <1>1, <1>2, <1>3, <1>4, <1>5 DEF Inv, VolcInv, VolcNets, QwenInv, QwenNets,
     QwenAudioInv, QwenAudioNets, DoubaoInv, DoubaoNets, QwenFreeInv, QwenFreeNets,
     Provider

LEMMA EndIsAll ==
  ASSUME Inv, PcmInv
  PROVE  EndedMeansAll
<1>1. CASE Provider("volc")
  BY <1>1 DEF PcmInv, VolcPcm, VolcHeardPcm, Hears, HearsReplay, EndedMeansAll
<1>2. CASE Provider("qwen")
  BY <1>2
     DEF PcmInv, QwenPcm, QwenHeard, Hears, HearsReplay, EndedMeansAll, Provider
<1>3. CASE Provider("qwenAudio")
  BY <1>3
     DEF PcmInv, QwenAudioPcm, QwenAudioHeard, Hears, HearsReplay, EndedMeansAll,
     Provider
<1>4. CASE Provider("doubao")
  BY <1>4
     DEF PcmInv, DoubaoPcm, DoubaoHeard, Hears, HearsReplay, EndedMeansAll, Provider
<1>5. CASE Provider("qwenFree")
  BY <1>5
     DEF PcmInv, QwenFreePcm, QwenFreeHeard, Hears, HearsReplay, EndedMeansAll, Provider
<1> QED
  BY <1>1, <1>2, <1>3, <1>4, <1>5 DEF Inv, VolcInv, VolcNets, QwenInv, QwenNets,
     QwenAudioInv, QwenAudioNets, DoubaoInv, DoubaoNets, QwenFreeInv, QwenFreeNets,
     Provider

\* The service of the first attempt of every provider, and of a replay of
\* Volcengine, Qwen and Qwen Free, hears every unit at most once and in order, also
\* after a send that failed: HeardInOrder, for recordings, chunks and buffers of any
\* size.  A replay of Doubao or Qwen Audio is not part of it, see Heard.
THEOREM ServiceHearsInOrder == Spec => []HeardInOrder
<1>1. Inv /\ PcmInv => HeardInOrder
  BY HeardIsInOrder
<1> QED
  BY <1>1, Invariance, PcmInvariance, PTL

\* A service is told that the recording is over only when it has heard all that was
\* taken, or in a replay all of the replay buffer, which may itself lack units:
\* EndedMeansAll, for recordings, chunks and buffers of any size.
THEOREM EndIsToldLast == Spec => []EndedMeansAll
<1>1. Inv /\ PcmInv => EndedMeansAll
  BY EndIsAll
<1> QED
  BY <1>1, Invariance, PcmInvariance, PTL

---------------------------------------------------------------------------
(***************************************************************************)
(* The replay of Volcengine.  Whatever becomes of the connection, a unit   *)
(* goes from the chunk, or from the pending buffer, into the replay buffer *)
(* first, as long as nobody aborts and the buffer has room.                *)
(***************************************************************************)

\* The replay buffer holds the first n units that were taken.
Stored(ap, au, n) == PieceOf(au.replay, 0, ap.taken) /\ Len(au.replay) = n

VolcKeptAll == {"vad", "silence", "wait", "join", "close", "decide"}
VolcSecond ==
  {"replayOpen", "replaySend", "replayWait", "dispatch", "stop", "ended"}

\* How far the replay buffer has come, at each step of the worker.
VolcStored(p, ap, au) ==
  /\ p \in VolcSending => Stored(ap, au, ChunkAt(ap, au))
  /\ p = "flush" => Stored(ap, au, PendingAt(ap, au))
  /\ p \in VolcKeptAll => au.replay = ap.taken

VolcKept(p, ap, au, n, w) ==
  /\ p \in {"tail", "flush"} /\ n.main.forceAbort => ap.aborted
  /\ au.kept /\ ~ap.aborted => VolcStored(p, ap, au)
  /\ w.retries > 0 => p \in VolcSecond /\ au.replay = ap.taken /\ ~Open(ap)

LEMMA StoredGrows ==
  ASSUME NEW ap \in AppStates, NEW au \in AudioStates, NEW k \in Int, Stored(ap, au, k),
         NEW units \in Pcm, PieceOf(units, k, ap.taken), Keep(au, units).kept
  PROVE  au.kept /\ Stored(ap, Keep(au, units), k + Len(units))
<1>0. au.replay \in Pcm /\ ap.taken \in Pcm /\ Len(units) \in Nat /\ Len(<<>>) = 0
  BY DEF AudioStates, AppStates, Pcm
<1>1. au.kept
  BY DEF Keep
<1>2. CASE units = <<>>
  BY <1>0, <1>1, <1>2 DEF Keep, Stored
<1>3. CASE units # <<>>
  <2>1. Keep(au, units).replay = au.replay \o units
    BY <1>1, <1>3 DEF Keep, AudioStates
  <2>2. /\ PieceOf(au.replay \o units, 0, ap.taken)
        /\ Len(au.replay \o units) = k + Len(units)
    <3>1. PieceOf(au.replay, 0, ap.taken) /\ Len(au.replay) = k /\ 0 + k = k
      BY DEF Stored
    <3>2. PieceOf(units, 0 + Len(au.replay), ap.taken)
      BY <3>1
    <3>3. 0 \in Int
      OBVIOUS
    <3>4. /\ PieceOf(au.replay \o units, 0, ap.taken)
          /\ Len(au.replay \o units) = Len(au.replay) + Len(units)
      <4> DEFINE s == au.replay
                 t == ap.taken
      <4>1. s \in Pcm /\ t \in Pcm /\ PieceOf(s, 0, t) /\ PieceOf(units, 0 + Len(s), t)
        BY <1>0, <3>1, <3>2
      <4> HIDE DEF s, t
      <4>2. PieceOf(s \o units, 0, t) /\ Len(s \o units) = Len(s) + Len(units)
        BY <3>3, <4>1, PieceJoin
      <4> QED
        BY <4>2 DEF s, t
    <3> QED
      BY <3>1, <3>4
  <2> QED
    BY <1>1, <2>1, <2>2 DEF Stored
<1> QED
  BY <1>2, <1>3

\* A step that begins no second recognition leaves their number alone.
SameRetries == work'.retries = work.retries

LEMMA VolcRetries ==
  ASSUME VolcInv, Volcengine!Next
  PROVE  SameRetries \/ Volcengine!Decide
<1>0. work \in WorkStates
  BY DEF VolcInv, Shared, SharedType
<1>1. CASE Volcengine!OpenGivenUp
  BY <1>0, <1>1 DEF Volcengine!OpenGivenUp, Volcengine!PrimaryUnlessAborted,
     Volcengine!Primary, Volcengine!Conclude, WorkStates, SameRetries
<1>2. CASE Volcengine!SendChunkLeft
  BY <1>0, <1>2 DEF Volcengine!SendChunkLeft, Volcengine!SendRest, WorkStates,
     SameRetries
<1>3. CASE Volcengine!SendPendingLeft
  BY <1>0, <1>3 DEF Volcengine!SendPendingLeft, Volcengine!SendRest, WorkStates,
     SameRetries
<1>4. CASE Volcengine!SilenceReported
  BY <1>0, <1>4 DEF Volcengine!SilenceReported, Volcengine!PrimaryUnlessAborted,
     Volcengine!Primary, Volcengine!Conclude, WorkStates, SameRetries
<1>6. CASE Volcengine!ReplayOpenFailed
  BY <1>0, <1>6 DEF Volcengine!ReplayOpenFailed, Volcengine!Settle, Volcengine!Conclude,
     WorkStates, SameRetries
<1>7. CASE Volcengine!ReplaySend
  BY <1>0, <1>7 DEF Volcengine!ReplaySend, Volcengine!Settle, Volcengine!Conclude,
     WorkStates, SameRetries
<1>8. CASE Volcengine!ReplayAnswered
  BY <1>0, <1>8 DEF Volcengine!ReplayAnswered, Volcengine!Settle, Volcengine!Conclude,
     WorkStates, SameRetries
<1>9. CASE UNCHANGED work
  BY <1>9 DEF SameRetries
<1>10. ASSUME \/ Volcengine!OpenOk
             \/ Volcengine!OpenFailed
             \/ Volcengine!Reopen
             \/ Volcengine!SendFull
             \/ Volcengine!Gather
             \/ Volcengine!KeepaliveLost
             \/ Volcengine!SendAborted
             \/ Volcengine!Buffer
             \/ Volcengine!LocalSilence
             \/ Volcengine!SendLast
             \/ Volcengine!DrainWaited
             \/ Volcengine!DrainJoined
             \/ Volcengine!CloseSession
             \/ Volcengine!ReplayOpened
      PROVE  UNCHANGED work
  BY <1>10 DEF Volcengine!OpenOk, Volcengine!OpenFailed, Volcengine!Reopen,
     Volcengine!SendFull, Volcengine!Gather, Volcengine!KeepaliveLost,
     Volcengine!SendAborted, Volcengine!Buffer, Volcengine!LocalSilence,
     Volcengine!SendLast, Volcengine!DrainWaited, Volcengine!DrainJoined,
     Volcengine!CloseSession, Volcengine!ReplayOpened
<1>11. ASSUME \/ Volcengine!Drain \/ Volcengine!Start
              \/ Volcengine!Abort \/ Volcengine!BaseNext
      PROVE  UNCHANGED work
  BY <1>11 DEF Volcengine!Drain, Volcengine!DrainMain, Volcengine!DrainFinal,
     Volcengine!DrainSweep, Volcengine!Start, Volcengine!StartAt, Volcengine!Abort,
     Volcengine!AbortWith, Volcengine!BaseNext, Volcengine!Enqueue,
     Volcengine!StopInput, Volcengine!Dispatch, Volcengine!Stopped
<1> QED
  BY <1>1, <1>2, <1>3, <1>4, <1>6, <1>7, <1>8, <1>9, <1>10, <1>11 DEF
     Volcengine!Next, Volcengine!Worker

LEMMA VolcSettleRetries ==
  ASSUME work \in WorkStates, NEW text, NEW replayed, NEW closedEmpty,
         Volcengine!Settle(Volcengine!Primary(work), text, replayed, closedEmpty)
  PROVE  SameRetries
<1>1. PICK verdict :
        work' = [Volcengine!Primary(work) EXCEPT !.verdict = verdict, !.text = text]
  BY DEF Volcengine!Settle, Volcengine!Conclude
<1>2. /\ Volcengine!Primary(work).retries = work.retries
      /\ "retries" \in DOMAIN Volcengine!Primary(work)
  BY DEF Volcengine!Primary, WorkStates
<1> HIDE DEF Volcengine!Primary
<1> QED
  BY <1>1, <1>2 DEF SameRetries

\* A step that moves no PCM, and moves the worker only where the replay buffer has
\* come as far.
VolcQuiet ==
  /\ UNCHANGED <<app, audio>> /\ SameRetries
  /\ pc' \in VolcSending => pc \in VolcSending
  /\ pc' = "flush" => pc = "flush"
  /\ pc' \in VolcKeptAll => pc \in VolcKeptAll
  /\ pc \in VolcSecond => pc' \in VolcSecond
  /\ pc' \in {"tail", "flush"} /\ net'.main.forceAbort => app.aborted

LEMMA VolcQuietKept ==
  ASSUME VolcKept(pc, app, audio, net, work), VolcQuiet
  PROVE  VolcKept(pc', app', audio', net', work')
  BY DEF VolcQuiet, VolcKept, VolcStored, SameRetries

LEMMA VolcOpeningKept ==
  ASSUME VolcInv, VolcKept(pc, app, audio, net, work), SameRetries,
         \/ Volcengine!OpenOk \/ Volcengine!OpenFailed \/ Volcengine!Reopen
         \/ Volcengine!OpenGivenUp
  PROVE  VolcKept(pc', app', audio', net', work')
<1>1. /\ UNCHANGED <<app, audio>> /\ pc \in {"opening", "reopen"}
      /\ pc' \in {"opening", "reopen", "send", "stop", "dispatch"}
  BY DEF Volcengine!OpenOk, Volcengine!OpenFailed, Volcengine!Reopen,
         Volcengine!OpenGivenUp, Volcengine!Conclude
<1> QED
  BY <1>1, VolcQuietKept DEF VolcQuiet, VolcSending, VolcKeptAll, VolcSecond

LEMMA VolcClosingKept ==
  ASSUME VolcInv, VolcKept(pc, app, audio, net, work), SameRetries,
         \/ Volcengine!KeepaliveLost \/ Volcengine!SendAborted
         \/ Volcengine!LocalSilence \/ Volcengine!SilenceReported \/ Volcengine!SendLast
         \/ Volcengine!DrainWaited \/ Volcengine!DrainJoined \/ Volcengine!CloseSession
  PROVE  VolcKept(pc', app', audio', net', work')
<1>1. /\ UNCHANGED <<app, audio>>
      /\ \/ pc = "send" /\ pc' = "send"
         \/ pc = "send" /\ pc' = "tail" /\ net' = net
         \/ pc \in VolcKeptAll /\ pc' \in VolcKeptAll \union {"stop", "dispatch"}
  BY DEF Volcengine!KeepaliveLost, Volcengine!SendAborted, Volcengine!LocalSilence,
         Volcengine!SilenceReported, Volcengine!SendLast, Volcengine!DrainWaited,
         Volcengine!DrainJoined, Volcengine!CloseSession, Volcengine!Conclude,
         VolcKeptAll
<1>2. pc = "send" /\ net.main.forceAbort => app.aborted
  BY DEF VolcInv
<1> QED
  BY <1>1, <1>2, VolcQuietKept DEF VolcQuiet, VolcSending, VolcKeptAll, VolcSecond

LEMMA VolcReplayKept ==
  ASSUME VolcInv, VolcKept(pc, app, audio, net, work), SameRetries,
         \/ Volcengine!ReplayOpened \/ Volcengine!ReplayOpenFailed
         \/ Volcengine!ReplaySend \/ Volcengine!ReplayAnswered \/ Volcengine!Dispatch
  PROVE  VolcKept(pc', app', audio', net', work')
<1>1. UNCHANGED <<app, audio>> /\ pc \in VolcSecond /\ pc' \in VolcSecond
  BY DEF Volcengine!ReplayOpened, Volcengine!ReplayOpenFailed, Volcengine!ReplaySend,
         Volcengine!ReplayAnswered, Volcengine!Dispatch, Volcengine!Settle,
         Volcengine!Conclude, VolcSecond
<1> QED
  BY <1>1, VolcQuietKept DEF VolcQuiet, VolcSending, VolcKeptAll, VolcSecond

LEMMA VolcListeningKept ==
  ASSUME VolcInv, VolcKept(pc, app, audio, net, work), SameRetries, Volcengine!Drain
  PROVE  VolcKept(pc', app', audio', net', work')
<1>0. net \in VolcNets /\ net.main \in VolcSessions
  BY VolcPcmTypes
<1>1. UNCHANGED <<app, audio, pc>>
  BY DEF Volcengine!Drain, Volcengine!DrainMain, Volcengine!DrainFinal,
         Volcengine!DrainSweep
<1>2. \/ net'.main = net.main
      \/ \E r \in Volcengine!Received(net.main) : net'.main = r.sess
  <2>1. CASE Volcengine!DrainMain
    BY <1>0, <2>1 DEF Volcengine!DrainMain, VolcNets
  <2>2. CASE Volcengine!DrainFinal
    BY <1>0, <2>2 DEF Volcengine!DrainFinal, VolcNets
  <2>3. CASE Volcengine!DrainSweep
    BY <1>0, <2>3 DEF Volcengine!DrainSweep, VolcNets
  <2> QED
    BY <2>1, <2>2, <2>3 DEF Volcengine!Drain
<1>3. net'.main.forceAbort = net.main.forceAbort
  BY <1>0, <1>2, VolcReceived
<1> QED
  BY <1>1, <1>3, VolcQuietKept
     DEF VolcQuiet, VolcSending, VolcKeptAll, VolcSecond, VolcKept

\* The flag Abort() sets, after a send.
LEMMA VolcSendFlag ==
  ASSUME net \in VolcNets, NEW units \in Pcm,
         \E r \in Volcengine!Sent(net.main, units, FALSE) : net' = Volcengine!AfterSend(r)
  PROVE  net'.main.forceAbort = net.main.forceAbort
<1> DEFINE last == FALSE
<1>1. last \in BOOLEAN /\ net.main \in VolcSessions
  BY VolcMain
<1>2. PICK r \in Volcengine!Sent(net.main, units, last) : net' = Volcengine!AfterSend(r)
  OBVIOUS
<1>3. net'.main = r.sess
  BY <1>2 DEF VolcNets, Volcengine!AfterSend
<1> HIDE DEF last
<1>4. r.sess.forceAbort = net.main.forceAbort
  BY <1>1, <1>2, VolcSent
<1> QED
  BY <1>3, <1>4

\* A full chunk is put away before it is sent.
LEMMA VolcSendFullKept ==
  ASSUME VolcInv, VolcPcm(pc, app, audio, net), VolcKept(pc, app, audio, net, work),
         SameRetries, Volcengine!SendFull
  PROVE  VolcKept(pc', app', audio', net', work')
<1> DEFINE a == DrainToChunk(audio)
           units == a.chunk
<1>0. /\ app \in AppStates /\ audio \in AudioStates /\ net \in VolcNets
      /\ net.main \in VolcSessions
  BY VolcPcmTypes
<1>1. pc = "send" /\ UNCHANGED app /\ ~net.main.forceAbort
  BY DEF Volcengine!SendFull, Volcengine!ForceAbort
<1>2. /\ TakenInOrder(app, audio) /\ KeptInOrder(app, audio)
      /\ ChunkNext(app, audio) /\ KeptNext(app, audio)
  BY <1>1 DEF VolcPcm, VolcHeardPcm, VolcPlace, VolcSending
<1>3. /\ a \in AudioStates /\ a.replay = audio.replay /\ a.kept = audio.kept
      /\ TakenInOrder(app, a) /\ KeptInOrder(app, a)
      /\ ChunkAt(app, a) = ChunkAt(app, audio)
      /\ ChunkNext(app, a) /\ KeptNext(app, a)
  <2>1. a.kept = audio.kept
    BY <1>0 DEF DrainToChunk, AudioStates
  <2> QED
    BY <1>0, <1>2, <2>1, VolcPcmTypes, DrainOrder
<1>4. units \in Pcm
  BY <1>3 DEF AudioStates
<1>5. /\ audio' = EmptyChunk(Keep(a, units))
      /\ \E r \in Volcengine!Sent(net.main, units, FALSE) :
           /\ net' = Volcengine!AfterSend(r)
           /\ pc' \in {"send", "buffer", "tail"}
  BY <1>0, <1>3, <1>4, VolcBase DEF Volcengine!SendFull, EmptyChunk
<1> HIDE DEF a
<1>6. /\ PieceOf(units, ChunkAt(app, a), app.taken)
      /\ ChunkAt(app, a) + Len(units) = PendingAt(app, a)
      /\ Keep(a, units) \in AudioStates /\ TakenInOrder(app, Keep(a, units))
      /\ PendingAt(app, Keep(a, units)) = PendingAt(app, a)
  BY <1>0, <1>3, ChunkGone
<1>7. /\ audio'.replay = Keep(a, units).replay
      /\ ChunkAt(app, audio') = PendingAt(app, a)
  <2> HIDE DEF units
  <2> QED
    BY <1>0, <1>5, <1>6, ChunkEmptied
<1>8. audio'.kept = Keep(a, units).kept
  <2> DEFINE b == Keep(a, units)
  <2>1. b \in AudioStates /\ audio' = EmptyChunk(b)
    BY <1>5, <1>6
  <2> HIDE DEF b
  <2>2. audio'.kept = b.kept
    BY <2>1 DEF EmptyChunk, AudioStates
  <2> QED
    BY <2>2 DEF b
<1>9. ASSUME audio'.kept, ~app.aborted
      PROVE  Stored(app, audio', ChunkAt(app, audio'))
  <2>1. ChunkAt(app, a) \in Int
    BY <1>0, <1>3, Lengths
  <2>2. audio.kept => Stored(app, a, ChunkAt(app, a))
    BY <1>1, <1>3, <1>9 DEF VolcKept, VolcStored, VolcSending, Stored
  <2>3. Keep(a, units).kept => audio.kept
    BY <1>3 DEF Keep
  <2> HIDE DEF units
  <2>4. Stored(app, Keep(a, units), PendingAt(app, a))
    BY <1>0, <1>3, <1>4, <1>6, <1>8, <1>9, <2>1, <2>2, <2>3, StoredGrows
  <2> QED
    BY <1>7, <2>4 DEF Stored
<1>10. ~net'.main.forceAbort
  <2> HIDE DEF units
  <2>1. net'.main.forceAbort = net.main.forceAbort
    BY <1>0, <1>4, <1>5, VolcSendFlag
  <2> QED
    BY <1>1, <2>1
<1>11. ~(work'.retries > 0)
  BY <1>1 DEF VolcKept, VolcSecond, SameRetries
<1>12. pc' \in {"send", "buffer", "tail"}
  BY <1>5
<1> HIDE DEF units
<1> QED
  BY <1>1, <1>9, <1>10, <1>11, <1>12
     DEF VolcKept, VolcStored, VolcSending, VolcKeptAll

LEMMA VolcGatherKept ==
  ASSUME VolcInv, VolcPcm(pc, app, audio, net), VolcKept(pc, app, audio, net, work),
         SameRetries, Volcengine!Gather
  PROVE  VolcKept(pc', app', audio', net', work')
<1>0. app \in AppStates /\ audio \in AudioStates
  BY VolcPcmTypes
<1>1. /\ pc = "send" /\ pc' \in {"send", "tail"} /\ ~net.main.forceAbort
      /\ UNCHANGED <<app, net>> /\ audio' = DrainToChunk(audio)
  BY <1>0, VolcBase DEF Volcengine!Gather, Volcengine!ForceAbort
<1>2. TakenInOrder(app, audio)
  BY DEF VolcPcm, VolcHeardPcm
<1>3. /\ audio'.replay = audio.replay /\ audio'.kept = audio.kept
      /\ ChunkAt(app, audio') = ChunkAt(app, audio)
  <2>1. audio'.kept = audio.kept
    BY <1>0, <1>1 DEF DrainToChunk, AudioStates
  <2> QED
    BY <1>0, <1>1, <1>2, <2>1, VolcPcmTypes, DrainOrder
<1> QED
  BY <1>1, <1>3
     DEF VolcKept, VolcStored, Stored, VolcSending, VolcKeptAll, VolcSecond, SameRetries

LEMMA KeptBefore ==
  ASSUME NEW au \in AudioStates, KeepPending(au).kept
  PROVE  au.kept
<1> DEFINE b == Keep(au, au.pending)
<1>1. b \in AudioStates /\ KeepPending(au) = [b EXCEPT !.pending = <<>>]
  BY KeepType DEF KeepPending, AudioStates
<1>2. b.kept => au.kept
  BY DEF Keep
<1> HIDE DEF b
<1>3. KeepPending(au).kept = b.kept
  BY <1>1 DEF AudioStates
<1> QED
  BY <1>2, <1>3

\* All that is pending is put away.
LEMMA StoredPending ==
  ASSUME NEW ap \in AppStates, NEW au \in AudioStates, TakenInOrder(ap, au),
         Stored(ap, au, PendingAt(ap, au)), KeepPending(au).kept
  PROVE  au.kept /\ Stored(ap, KeepPending(au), Len(ap.taken))
<1> DEFINE b == Keep(au, au.pending)
<1>0. /\ au.pending \in Pcm /\ PendingAt(ap, au) \in Int
      /\ Len(ap.taken) \in Nat /\ Len(au.pending) \in Nat
      /\ PieceOf(au.pending, PendingAt(ap, au), ap.taken)
  BY Lengths DEF TakenInOrder
<1>1. b \in AudioStates /\ KeepPending(au) = [b EXCEPT !.pending = <<>>]
  BY <1>0, KeepType DEF KeepPending
<1>2. PendingAt(ap, au) + Len(au.pending) = Len(ap.taken)
  BY <1>0 DEF PendingAt
<1> HIDE DEF b
<1>3. KeepPending(au).kept = b.kept /\ KeepPending(au).replay = b.replay
  BY <1>1 DEF AudioStates
<1>4. au.kept /\ Stored(ap, b, Len(ap.taken))
  BY <1>0, <1>2, <1>3, StoredGrows DEF b
<1> QED
  BY <1>3, <1>4 DEF Stored

LEMMA VolcBufferKept ==
  ASSUME VolcInv, VolcPcm(pc, app, audio, net), VolcKept(pc, app, audio, net, work),
         SameRetries, Volcengine!Buffer
  PROVE  VolcKept(pc', app', audio', net', work')
<1>0. app \in AppStates /\ audio \in AudioStates
  BY VolcPcmTypes
<1>1. /\ pc = "buffer" /\ UNCHANGED <<app, net>>
      /\ \/ audio' = KeepPending(audio) /\ pc' = pc
         \/ pc' = "tail" /\ audio' = audio
      /\ net.main.forceAbort => app.aborted
  BY <1>0, VolcBase DEF Volcengine!Buffer, VolcInv
<1>2. TakenInOrder(app, audio) /\ audio.chunk = <<>>
  BY <1>1 DEF VolcPcm, VolcHeardPcm, VolcPlace
<1>3. CASE audio' = KeepPending(audio) /\ pc' = pc
  <2>1. /\ audio' \in AudioStates /\ TakenInOrder(app, audio')
        /\ audio'.chunk = <<>> /\ audio'.pending = <<>>
    BY <1>0, <1>2, <1>3, KeepPendingOrder
  <2>2. /\ PendingAt(app, audio) \in Int /\ ChunkAt(app, audio) = PendingAt(app, audio)
        /\ ChunkAt(app, audio') = Len(app.taken)
    <3>1. /\ Len(app.taken) \in Nat /\ PendingAt(app, audio) \in Int
          /\ Len(audio.chunk) = 0 /\ Len(audio'.chunk) = 0
      BY <1>0, <1>2, <2>1, Lengths
    <3>2. PendingAt(app, audio') = Len(app.taken)
      BY <1>0, <1>2, <2>1, NothingPending
    <3>3. /\ ChunkAt(app, audio) = PendingAt(app, audio) - 0
          /\ ChunkAt(app, audio') = PendingAt(app, audio') - 0
      BY <3>1 DEF ChunkAt
    <3> QED
      BY <3>1, <3>2, <3>3
  <2>3. ASSUME audio'.kept, ~app.aborted
        PROVE  Stored(app, audio', ChunkAt(app, audio'))
    <3>1. audio.kept
      BY <1>0, <1>3, <2>3, KeptBefore
    <3>2. Stored(app, audio, PendingAt(app, audio))
      BY <1>1, <2>2, <2>3, <3>1 DEF VolcKept, VolcStored, VolcSending
    <3> QED
      BY <1>0, <1>2, <1>3, <2>2, <2>3, <3>2, StoredPending
  <2> QED
    BY <1>1, <1>3, <2>3
       DEF VolcKept, VolcStored, VolcSending, VolcKeptAll, VolcSecond, SameRetries
<1>4. CASE pc' = "tail" /\ audio' = audio
  BY <1>1, <1>4, VolcQuietKept DEF VolcQuiet, VolcSending, VolcKeptAll, VolcSecond
<1> QED
  BY <1>1, <1>3, <1>4

LEMMA VolcSendChunkLeftKept ==
  ASSUME VolcInv, VolcPcm(pc, app, audio, net), VolcKept(pc, app, audio, net, work),
         SameRetries, Volcengine!SendChunkLeft
  PROVE  VolcKept(pc', app', audio', net', work')
<1> DEFINE rest == audio.chunk
<1>0. /\ app \in AppStates /\ audio \in AudioStates /\ net \in VolcNets /\ rest \in Pcm
  BY VolcPcmTypes DEF AudioStates
<1>1. /\ pc = "tail" /\ pc' = "flush" /\ UNCHANGED app
      /\ \/ (net.main.forceAbort \/ rest = <<>>) /\ audio' = audio /\ net' = net
         \/ /\ audio' = Keep(audio, rest)
            /\ \E r \in Volcengine!Sent(net.main, rest, FALSE) :
                 net' = Volcengine!AfterSend(r)
  BY <1>0, VolcBase
     DEF Volcengine!SendChunkLeft, Volcengine!SendRest, Volcengine!ForceAbort
<1>2. /\ TakenInOrder(app, audio) /\ KeptInOrder(app, audio)
      /\ ChunkNext(app, audio) /\ KeptNext(app, audio)
  BY <1>1 DEF VolcPcm, VolcHeardPcm, VolcPlace, VolcSending
<1>3. /\ PieceOf(rest, ChunkAt(app, audio), app.taken)
      /\ ChunkAt(app, audio) + Len(rest) = PendingAt(app, audio)
      /\ PendingAt(app, Keep(audio, rest)) = PendingAt(app, audio)
  BY <1>0, <1>2, ChunkGone
<1>4. net.main.forceAbort => app.aborted
  BY <1>1 DEF VolcKept
<1>5. ~(work'.retries > 0)
  BY <1>1 DEF VolcKept, VolcSecond, SameRetries
<1>6. audio.kept /\ ~app.aborted => Stored(app, audio, ChunkAt(app, audio))
  BY <1>1 DEF VolcKept, VolcStored, VolcSending
<1>7. net'.main.forceAbort = net.main.forceAbort
  <2> HIDE DEF rest
  <2> QED
    BY <1>0, <1>1, VolcSendFlag
<1>8. ASSUME audio'.kept, ~app.aborted
      PROVE  Stored(app, audio', PendingAt(app, audio'))
  <2>1. ChunkAt(app, audio) \in Int
    BY <1>0, Lengths
  <2>2. CASE rest = <<>> /\ audio' = audio
    <3>1. Len(rest) = 0
      BY <2>2
    <3> HIDE DEF rest
    <3> QED
      BY <1>3, <1>6, <1>8, <2>1, <2>2, <3>1
  <2>3. CASE audio' = Keep(audio, rest)
    <3>1. audio.kept
      BY <1>8, <2>3 DEF Keep
    <3> HIDE DEF rest
    <3> QED
      BY <1>0, <1>3, <1>6, <1>8, <2>1, <2>3, <3>1, StoredGrows
  <2> QED
    BY <1>1, <1>4, <1>8, <2>2, <2>3
<1> HIDE DEF rest
<1> QED
  BY <1>1, <1>4, <1>5, <1>7, <1>8 DEF VolcKept, VolcStored, VolcSending, VolcKeptAll

LEMMA VolcSendPendingLeftKept ==
  ASSUME VolcInv, VolcPcm(pc, app, audio, net), VolcKept(pc, app, audio, net, work),
         SameRetries, Volcengine!SendPendingLeft
  PROVE  VolcKept(pc', app', audio', net', work')
<1> DEFINE rest == audio.pending
           cut == [audio EXCEPT !.pending = <<>>]
<1>0. /\ app \in AppStates /\ audio \in AudioStates /\ rest \in Pcm
  BY VolcPcmTypes DEF AudioStates
<1>1. pc = "flush" /\ pc' = "vad" /\ UNCHANGED app
  BY DEF Volcengine!SendPendingLeft, Volcengine!SendRest
<1>2. TakenInOrder(app, audio)
  BY DEF VolcPcm, VolcHeardPcm
<1>3. net.main.forceAbort => app.aborted
  BY <1>1 DEF VolcKept
<1>4. ~(work'.retries > 0)
  BY <1>1 DEF VolcKept, VolcSecond, SameRetries
<1>5. ~net.main.forceAbort => audio' = KeepPending(audio)
  <2> SUFFICES ASSUME ~net.main.forceAbort PROVE audio' = KeepPending(audio)
    OBVIOUS
  <2>1. cut \in AudioStates
    BY <1>0, VolcTexts DEF AudioStates
  <2>2. Keep(cut, rest) = KeepPending(audio) /\ (rest = <<>> => cut = KeepPending(audio))
    BY <1>0 DEF Keep, KeepPending, AudioStates
  <2>3. Volcengine!Keep(cut, rest) = Keep(cut, rest)
    BY <1>0, <2>1, VolcBase
  <2>4. Volcengine!SendRest(rest, cut, "vad")
    BY DEF Volcengine!SendPendingLeft, Volcengine!ForceAbort
  <2> HIDE DEF rest, cut
  <2>5. (rest = <<>> /\ audio' = cut) \/ audio' = Volcengine!Keep(cut, rest)
    BY <2>4 DEF Volcengine!SendRest, Volcengine!ForceAbort
  <2> QED
    BY <2>2, <2>3, <2>5
<1>6. ASSUME audio'.kept, ~app.aborted
      PROVE  audio'.replay = app.taken
  <2>1. audio' = KeepPending(audio)
    BY <1>3, <1>5, <1>6
  <2>2. audio.kept
    BY <1>0, <1>6, <2>1, KeptBefore
  <2>3. Stored(app, audio, PendingAt(app, audio))
    BY <1>1, <1>6, <2>2 DEF VolcKept, VolcStored
  <2>4. Stored(app, audio', Len(app.taken))
    BY <1>0, <1>2, <1>6, <2>1, <2>3, StoredPending
  <2>5. audio'.replay \in Pcm /\ app.taken \in Pcm
    BY <1>0, <1>2, <2>1, KeepPendingOrder DEF AudioStates, AppStates
  <2> QED
    BY <2>4, <2>5, PieceAll DEF Stored
<1> QED
  BY <1>1, <1>4, <1>6 DEF VolcKept, VolcStored, VolcSending, VolcKeptAll

\* The second recognition begins with all of the recording put away.
LEMMA VolcDecideKept ==
  ASSUME VolcInv, VolcPcm(pc, app, audio, net), VolcKept(pc, app, audio, net, work),
         Volcengine!Decide
  PROVE  VolcKept(pc', app', audio', net', work')
<1>0. work \in WorkStates
  BY DEF VolcInv, Shared, SharedType
<1>1. pc = "decide" /\ UNCHANGED <<app, audio>> /\ ~Open(app)
  BY DEF Volcengine!Decide, VolcPcm, VolcPlace, VolcAfterInput
<1>2. CASE pc' = "replayOpen" /\ audio.kept /\ ~app.aborted
  BY <1>1, <1>2
     DEF VolcKept, VolcStored, VolcSending, VolcKeptAll, VolcSecond
<1>3. CASE Volcengine!Settle(Volcengine!Primary(work), Volcengine!FinalText, FALSE, FALSE)
  <2>1. SameRetries
    BY <1>0, <1>3, VolcSettleRetries
  <2>2. pc' \in {"stop", "dispatch"}
    BY <1>3 DEF Volcengine!Settle, Volcengine!Conclude
  <2> QED
    BY <1>1, <2>1, <2>2, VolcQuietKept DEF VolcQuiet, VolcSending, VolcKeptAll, VolcSecond
<1> QED
  BY <1>2, <1>3 DEF Volcengine!Decide, Volcengine!RetriesEmptyFinal

\* The application's steps, and the capture thread's.
LEMMA VolcAppKept ==
  ASSUME VolcKept(pc, app, audio, net, work), SameRetries,
         TakesNothing(app, app'), audio' = audio,
         \/ pc' = pc \/ (pc = "idle" /\ pc' = "opening") \/ (pc = "stop" /\ pc' = "ended"),
         pc # "idle" => (Open(app') => Open(app)),
         app.aborted => app'.aborted,
         net' = net \/ app'.aborted
  PROVE  VolcKept(pc', app', audio', net', work')
<1>1. /\ PendingAt(app', audio) = PendingAt(app, audio)
      /\ ChunkAt(app', audio) = ChunkAt(app, audio)
  BY TakesNothingLeaves
<1> QED
  BY <1>1
     DEF VolcKept, VolcStored, Stored, VolcSending, VolcKeptAll, VolcSecond, SameRetries,
         TakesNothing

LEMMA VolcEnqueueKept ==
  ASSUME VolcInv, VolcPcm(pc, app, audio, net), VolcKept(pc, app, audio, net, work),
         Enqueue
  PROVE  VolcKept(pc', app', audio', net', work')
<1>0. SharedType /\ app \in AppStates /\ audio \in AudioStates
  BY VolcPcmTypes
<1>1. TakenInOrder(app, audio)
  BY DEF VolcPcm, VolcHeardPcm
<1>2. /\ ChunkAt(app', audio') = ChunkAt(app, audio)
      /\ audio'.replay = audio.replay /\ app'.aborted = app.aborted
      /\ \A s \in Pcm, k \in Int : PieceOf(s, k, app.taken) => PieceOf(s, k, app'.taken)
      /\ Open(app) /\ UNCHANGED <<pc, net, work>>
  BY <1>0, <1>1, EnqueueOrder DEF Open
<1>3. audio'.kept = audio.kept
  BY <1>0 DEF Enqueue, PendingAppend, AudioStates
<1>4. pc \notin VolcAfterInput
  BY <1>2 DEF VolcPcm, VolcPlace
<1>5. audio.replay \in Pcm
  BY <1>0 DEF AudioStates
<1>6. \A n : Stored(app, audio, n) => Stored(app', audio', n)
  BY <1>2, <1>5 DEF Stored
<1> QED
  BY <1>2, <1>3, <1>4, <1>6
     DEF VolcKept, VolcStored, VolcAfterInput, VolcKeptAll

LEMMA VolcNextKept ==
  ASSUME VolcInv, VolcPcm(pc, app, audio, net), VolcKept(pc, app, audio, net, work),
         Volcengine!Next
  PROVE  VolcKept(pc', app', audio', net', work')
<1>0. SameRetries \/ Volcengine!Decide
  BY VolcRetries
<1>1. CASE Volcengine!Decide
  BY <1>1, VolcDecideKept
<1>2. CASE SameRetries /\ Volcengine!Worker
  BY <1>1, <1>2, VolcOpeningKept, VolcClosingKept, VolcReplayKept, VolcSendFullKept,
     VolcGatherKept, VolcBufferKept, VolcSendChunkLeftKept, VolcSendPendingLeftKept
     DEF Volcengine!Worker
<1>3. CASE SameRetries /\ (Volcengine!Drain \/ Volcengine!Dispatch)
  BY <1>3, VolcListeningKept, VolcReplayKept
<1>4. CASE SameRetries /\ Volcengine!Start
  <2>1. PICK first \in {"opening"} : StartAt(first)
    BY <1>4 DEF Volcengine!Start, Volcengine!StartAt, StartAt
  <2>2. /\ pc = "idle" /\ pc' = first /\ audio' = audio /\ net' = net
        /\ app'.aborted = app.aborted
    BY <2>1, VolcPcmTypes DEF StartAt, AppStates
  <2> QED
    BY <1>4, <2>1, <2>2, VolcPcmTypes, StartTakesNothing, VolcAppKept
<1>5. CASE SameRetries /\ Volcengine!Abort
  <2>1. PICK closed : AbortWith(closed)
    BY <1>5 DEF Volcengine!Abort, Volcengine!AbortWith, AbortWith
  <2>2. pc' = pc /\ audio' = audio /\ app'.aborted
    BY <2>1, VolcPcmTypes DEF AbortWith, AppStates
  <2>3. TakesNothing(app, app') /\ (Open(app') => Open(app))
    BY <2>1, VolcPcmTypes, ApplicationTakesNothing
  <2> QED
    BY <1>5, <2>2, <2>3, VolcAppKept
<1>6. CASE SameRetries /\ (Volcengine!StopInput \/ Volcengine!Stopped)
  <2>1. StopInput \/ Stopped
    BY <1>6, VolcStopInput, VolcStopped DEF Ended
  <2>2. TakesNothing(app, app') /\ (Open(app') => Open(app))
    BY <2>1, VolcPcmTypes, ApplicationTakesNothing
  <2>3. /\ audio' = audio /\ net' = net /\ app'.aborted = app.aborted
        /\ pc' = pc \/ (pc = "stop" /\ pc' = "ended")
    BY <2>1, VolcPcmTypes DEF StopInput, Stopped, AppStates
  <2> QED
    BY <1>6, <2>2, <2>3, VolcAppKept
<1>7. CASE Volcengine!Enqueue
  BY <1>7, VolcEnqueue, VolcEnqueueKept
<1> QED
  BY <1>0, <1>1, <1>2, <1>3, <1>4, <1>5, <1>6, <1>7
     DEF Volcengine!Next, Volcengine!BaseNext

LEMMA VolcInitKept ==
  ASSUME Volcengine!Init
  PROVE  VolcKept(pc, app, audio, net, work)
<1>1. /\ app.taken = <<>> /\ audio.pending = <<>> /\ audio.chunk = <<>>
      /\ audio.replay = <<>> /\ pc = "idle" /\ work.retries = 0
  BY DEF Volcengine!Init, Volcengine!InitBase
<1>2. ChunkAt(app, audio) = 0
  <2>1. Len(<<>>) = 0
    OBVIOUS
  <2>2. PendingAt(app, audio) = 0 - 0
    BY <1>1, <2>1, Zenon DEF PendingAt
  <2>3. PendingAt(app, audio) = 0
    BY <2>2
  <2>4. ChunkAt(app, audio) = 0 - 0
    BY <1>1, <2>1, <2>3, Zenon DEF ChunkAt
  <2> QED
    BY <2>4
<1>3. PieceOf(<<>>, 0, <<>>) /\ Len(<<>>) = 0
  BY DEF PieceOf
<1>4. Stored(app, audio, ChunkAt(app, audio))
  BY <1>1, <1>2, <1>3 DEF Stored
<1> QED
  BY <1>1, <1>4 DEF VolcKept, VolcStored, VolcKeptAll

\* The inductive invariant of the replay, next to Inv and PcmInv.
KeptInv == Provider("volc") => VolcKept(pc, app, audio, net, work)

LEMMA InitKept ==
  ASSUME Init
  PROVE  KeptInv
<1>1. CASE Volcengine!Init
  BY <1>1, VolcInitKept DEF KeptInv
<1>2. CASE ~Volcengine!Init
  <2>1. net.provider # "volc"
    BY <1>2, QwenInit, QwenAudioInit, DoubaoInit, QwenFreeInit
       DEF Init, QwenInv, QwenNets, QwenAudioInv, QwenAudioNets, DoubaoInv, DoubaoNets,
           QwenFreeInv, QwenFreeNets
  <2> QED
    BY <2>1 DEF KeptInv, Provider
<1> QED
  BY <1>1, <1>2

LEMMA NextKept ==
  ASSUME Inv, PcmInv, KeptInv, Next
  PROVE  KeptInv'
<1>1. CASE Provider("volc")
  <2>1. Volcengine!Next
    BY <1>1 DEF Next, Provider
  <2>2. VolcKept(pc', app', audio', net', work')
    BY <1>1, <2>1, WhichProvider, VolcNextKept DEF PcmInv, KeptInv
  <2> QED
    BY <2>2 DEF KeptInv
<1>2. CASE ~Provider("volc")
  <2>1. net'.provider # "volc"
    BY <1>2, WhichProvider, QwenNext, QwenAudioNext, DoubaoNext, QwenFreeNext
       DEF Next, Provider, QwenInv, QwenNets, QwenAudioInv, QwenAudioNets, DoubaoInv,
           DoubaoNets, QwenFreeInv, QwenFreeNets
  <2> QED
    BY <2>1 DEF KeptInv, Provider
<1> QED
  BY <1>1, <1>2

LEMMA StutterKept ==
  ASSUME KeptInv, UNCHANGED vars
  PROVE  KeptInv'
  BY DEF vars, KeptInv, Provider

\* When Volcengine recognizes a recording a second time, the replay buffer holds all
\* the recording the session accepted, whatever became of the first connection:
\* ReplayIsComplete, for recordings, chunks and buffers of any size.
THEOREM SecondRecognitionHasAll == Spec => []ReplayIsComplete
<1>1. Init => KeptInv
  BY InitKept
<1>2. Inv /\ PcmInv /\ KeptInv /\ [Next]_vars => KeptInv'
  BY NextKept, StutterKept
<1>3. KeptInv => ReplayIsComplete
  BY DEF KeptInv, VolcKept, ReplayIsComplete
<1> QED
  BY <1>1, <1>2, <1>3, Invariance, PcmInvariance, PTL DEF Spec
=============================================================================
