------------------------ MODULE AudioCapture_proofs -------------------------
(***************************************************************************)
(* Theorems about AudioCapture, for any number of captures and blocks, any *)
(* mix of recording modes and any configuration of the VAD.                *)
(***************************************************************************)
EXTENDS AudioCapture, TLAPS, WellFoundedInduction, FiniteSetTheorems

---------------------------------------------------------------------------
(***************************************************************************)
(* The invariant.                                                          *)
(***************************************************************************)

Blocks == [n : Nat, voice : BOOLEAN]
Apis == {"closed", "wasapi", "wavein"}
Places ==
  {"idle", "pending", "detached", "opened", "built", "recording", "stopped",
   "closing"}

Vads(v) == [there : BOOLEAN, post : {v.post}, heard : {v.heard}, shared : {v.shared}]
Trimmers(t) == [active : BOOLEAN, core : {t.core}, decided : {t.decided}]
Mains(m) ==
  [at : Places, mode : CaptureModes, first : Nat, pcm : Seq(Blocks),
   next : {"idle", "stopped"}, outcome : {m.outcome}]

TypeInv ==
  /\ device \in Apis /\ suppressed \in BOOLEAN
  /\ audio \in Seq(Blocks) /\ delivered \in Nat /\ leftOut \in SUBSET Nat
  /\ packet \in [at : {"wait", "got", "feed"}, api : Apis, block : Blocks]
  /\ trimmer \in Trimmers(trimmer) /\ vadReady \in BOOLEAN
  /\ vad \in Vads(vad) /\ main \in Mains(main)
  /\ stale \in BOOLEAN /\ crashed \in BOOLEAN
  /\ captures \in Nat /\ reloads \in Nat /\ jobs \in Nat /\ job \in [left : Nat]

\* The number of the last packet that the callback has done with.
LastRecorded == IF packet.at = "got" THEN delivered - 1 ELSE delivered

\* The numbers of the blocks grow.
Rising(blocks) == \A i, j \in DOMAIN blocks : i < j => blocks[i].n < blocks[j].n

\* The capture has every packet since its first, but those that were left out,
\* and at most the packet before the first in front of them.
GapFree ==
  /\ Rising(audio)
  /\ \A k \in DOMAIN audio :
       audio[k].n \in main.first - 1 .. LastRecorded /\ audio[k].n \notin leftOut
  /\ \A m \in main.first .. LastRecorded :
       m \in leftOut \/ \E k \in DOMAIN audio : audio[k].n = m

CaptureInv ==
  /\ packet.at # "wait" => packet.block.n = delivered
  /\ \A m \in leftOut : m <= LastRecorded
  /\ ~Capturing => suppressed \/ device = "closed"
  /\ Capturing => ~suppressed /\ device # "closed" /\ main.first <= delivered + 1
  /\ Capturing => GapFree

\* Somebody goes on to feed the VAD without another look at it.
NeedsVad ==
  \/ trimmer.active \/ vadReady \/ packet.at = "feed" \/ job.left > 0
  \/ main.at = "built" /\ main.mode = "local"

VadInv == reloads = 0 => ~crashed /\ (NeedsVad => vad.there)

Inv == TypeInv /\ CaptureInv /\ VadInv

---------------------------------------------------------------------------
(***************************************************************************)
(* What a step of the main thread leaves of its record.                    *)
(***************************************************************************)

LEMMA MainGoes ==
  ASSUME NEW m, m \in Mains(m), NEW p \in Places, NEW new, new = [m EXCEPT !.at = p]
  PROVE  /\ new \in Mains(new) /\ new.at = p
         /\ new.mode = m.mode /\ new.first = m.first
  BY DEF Mains

LEMMA MainEnds ==
  ASSUME NEW m, m \in Mains(m), NEW outcome,
         NEW new, new = [m EXCEPT !.at = "idle", !.outcome = outcome]
  PROVE  new \in Mains(new) /\ new.at = "idle" /\ new.first = m.first
  BY DEF Mains, Places

LEMMA EndsInIdle ==
  ASSUME main \in Mains(main), NEW verdict, Ends(verdict)
  PROVE  main' \in Mains(main') /\ main'.at = "idle"
<1> DEFINE o == [[main.outcome EXCEPT !.verdict = verdict] EXCEPT !.pcm = main.pcm]
<1>1. main' = [main EXCEPT !.at = "idle", !.outcome = o]
  BY DEF Ends, Mains
<1> HIDE DEF o
<1> QED
  BY <1>1, MainEnds

LEMMA IdleType == Idle \in Mains(Idle) /\ Idle.at = "idle" /\ "idle" \in Places
  BY DEF Idle, Mains, Places, CaptureModes

LEMMA VadTypes ==
  /\ NoVad \in Vads(NoVad) /\ ResetVad \in Vads(ResetVad) /\ ~NoVad.there /\ ResetVad.there
  /\ [ResetVad EXCEPT !.shared = TRUE] \in Vads([ResetVad EXCEPT !.shared = TRUE])
  /\ [ResetVad EXCEPT !.shared = TRUE].there
  BY DEF NoVad, ResetVad, Vads

LEMMA FedVadType ==
  ASSUME vad \in Vads(vad), NEW blocks
  PROVE  FedVad(blocks) \in Vads(FedVad(blocks)) /\ FedVad(blocks).there = vad.there
  BY DEF FedVad, Vads

LEMMA TrimmedType ==
  ASSUME trimmer \in Trimmers(trimmer), NEW s, NEW blocks, NEW t,
         t = Trimmed(s, blocks).trimmer
  PROVE  t \in Trimmers(t) /\ t.active = trimmer.active
<1> DEFINE step == ProcessChunk(trimmer.core, blocks, IsInSpeech(FedVad(blocks).post))
           d == Append(trimmer.decided,
                       [chunk |-> blocks, voice |-> IsInSpeech(FedVad(blocks).post)])
<1>1. t = [trimmer EXCEPT !.core = step.core, !.decided = d]
  BY DEF Trimmed, Trimmers
<1> HIDE DEF step, d
<1> QED
  BY <1>1 DEF Trimmers

LEMMA CaptureStarts ==
  ASSUME TypeInv, StartAudioCapture
  PROVE  /\ device' \in Apis /\ device' # "closed" /\ suppressed' = FALSE
         /\ audio' \in Seq(Blocks) /\ captures' \in Nat
         /\ (device = "closed" \/ suppressed) => audio' = <<>>
         /\ (device # "closed" /\ ~suppressed) => audio' = audio
<1>1. device' \in Apis /\ device' # "closed"
  BY CaptureAssumption DEF StartAudioCapture, TypeInv, Apis
<1>2. <<>> \in Seq(Blocks)
  OBVIOUS
<1>3. /\ suppressed' = FALSE /\ captures' \in Nat
      /\ audio' = IF device = "closed" \/ suppressed THEN <<>> ELSE audio
  BY DEF StartAudioCapture, TypeInv
<1> QED
  BY <1>1, <1>2, <1>3 DEF TypeInv

(***************************************************************************)
(* A step that only moves the main thread disturbs no capture.             *)
(***************************************************************************)

InCapture(place) == place \in {"pending", "opened", "built", "recording"}

LEMMA CaptureRests ==
  ASSUME CaptureInv, UNCHANGED <<device, suppressed, audio, delivered, leftOut, packet>>,
         main'.first = main.first, InCapture(main'.at) <=> InCapture(main.at)
  PROVE  CaptureInv'
  BY DEF CaptureInv, GapFree, Rising, LastRecorded, Capturing, InCapture

---------------------------------------------------------------------------
(***************************************************************************)
(* The callback.                                                           *)
(***************************************************************************)

LEMMA DeliverKeeps ==
  ASSUME Inv, Deliver
  PROVE  Inv'
<1>1. PICK block \in Blocks :
        /\ packet' = [at |-> "got", api |-> device, block |-> block]
        /\ block.n = delivered + 1
  <2>1. PICK voice \in BOOLEAN :
          packet' = [at |-> "got", api |-> device,
                     block |-> [n |-> delivered + 1, voice |-> voice]]
    BY DEF Deliver
  <2> DEFINE n == delivered + 1
             block == [n |-> n, voice |-> voice]
  <2>2. n \in Nat
    BY DEF Inv, TypeInv
  <2> HIDE DEF n
  <2>3. block \in Blocks /\ block.n = n
    BY <2>2 DEF Blocks
  <2> HIDE DEF block
  <2> QED
    BY <2>1, <2>3 DEF block, n
<1>2. /\ packet.at = "wait" /\ delivered' = delivered + 1
      /\ UNCHANGED <<device, suppressed, audio, leftOut, speech, main, others, crashed>>
  BY DEF Deliver
<1>3. TypeInv'
  BY <1>1, <1>2 DEF Inv, TypeInv, speech, others
<1>4. LastRecorded' = LastRecorded /\ packet'.block.n = delivered'
  BY <1>1, <1>2 DEF LastRecorded, Inv, TypeInv
<1>5. CaptureInv'
  <2> USE DEF Inv, CaptureInv
  <2>1. Capturing' = Capturing /\ main' = main /\ audio' = audio
    BY <1>2 DEF Capturing
  <2>2. GapFree' = GapFree
    BY <1>2, <1>4, <2>1 DEF GapFree, Rising
  <2>3. Capturing => main.first <= delivered' + 1
    BY <1>2 DEF TypeInv, Mains
  <2> QED
    BY <1>2, <1>4, <2>1, <2>2, <2>3
<1>6. VadInv'
  BY <1>1, <1>2 DEF Inv, VadInv, NeedsVad, speech, others
<1> QED
  BY <1>3, <1>5, <1>6 DEF Inv

LEMMA DropKeeps ==
  ASSUME Inv, Drop
  PROVE  Inv'
<1>1. TypeInv'
  BY DEF Inv, TypeInv, Drop, Waiting, Silent, Blocks, Apis, speech, others
<1>2. CaptureInv'
  <2>1. LastRecorded \in Int /\ LastRecorded <= LastRecorded' /\ leftOut' = leftOut
        /\ leftOut \in SUBSET Nat
    BY DEF Inv, TypeInv, Drop, Waiting, LastRecorded
  <2> QED
    BY <2>1 DEF Inv, TypeInv, CaptureInv, Capturing, Drop, Waiting, LastRecorded
<1>3. VadInv'
  BY DEF Inv, VadInv, NeedsVad, Drop, Waiting, speech, others
<1> QED
  BY <1>1, <1>2, <1>3 DEF Inv

LEMMA LeaveOutKeeps ==
  ASSUME Inv, LeaveOut
  PROVE  Inv'
<1> DEFINE m == packet.block.n
<1>1. /\ packet.at = "got" /\ packet' = Waiting /\ leftOut' = leftOut \union {m}
      /\ UNCHANGED <<device, suppressed, audio, delivered, speech, main, others, crashed>>
  BY DEF LeaveOut
<1>2. m = delivered /\ m \in Nat
  BY <1>1 DEF Inv, TypeInv, CaptureInv
<1>3. LastRecorded = m - 1 /\ LastRecorded' = m /\ packet'.at = "wait"
  BY <1>1, <1>2 DEF LastRecorded, Waiting
<1> HIDE DEF m
<1>4. TypeInv'
  <2>1. leftOut' \in SUBSET Nat
    BY <1>1, <1>2 DEF Inv, TypeInv
  <2> QED
    BY <1>1, <2>1 DEF Inv, TypeInv, Waiting, Silent, Blocks, Apis, speech, others
<1>5. \A x \in leftOut' : x <= LastRecorded'
  BY <1>1, <1>2, <1>3 DEF Inv, TypeInv, CaptureInv
<1>6. ASSUME GapFree
      PROVE  GapFree'
  <2>1. main.first \in Nat /\ audio' = audio /\ main' = main
    BY <1>1 DEF Inv, TypeInv, Mains
  <2>2. Rising(audio')
    BY <1>6, <2>1 DEF GapFree
  <2>3. \A k \in DOMAIN audio :
          audio[k].n \in main.first - 1 .. LastRecorded' /\ audio[k].n \notin leftOut'
    BY <1>1, <1>2, <1>3, <1>6, <2>1 DEF GapFree
  <2>4. \A x \in main.first .. LastRecorded' :
          x \in leftOut' \/ \E k \in DOMAIN audio : audio[k].n = x
    <3> SUFFICES ASSUME NEW x \in main.first .. LastRecorded', x # m
                 PROVE  x \in leftOut' \/ \E k \in DOMAIN audio : audio[k].n = x
      BY <1>1
    <3>1. x \in main.first .. LastRecorded
      BY <1>2, <1>3, <2>1
    <3> QED
      BY <1>1, <1>6, <3>1 DEF GapFree
  <2> QED
    BY <2>1, <2>2, <2>3, <2>4 DEF GapFree
<1>7. CaptureInv'
  BY <1>1, <1>3, <1>5, <1>6 DEF Inv, CaptureInv, Capturing
<1>8. VadInv'
  BY <1>1, <1>3 DEF Inv, VadInv, NeedsVad, speech, others
<1> QED
  BY <1>4, <1>7, <1>8 DEF Inv

LEMMA RecordKeeps ==
  ASSUME Inv, Record
  PROVE  Inv'
<1> DEFINE one == <<packet.block>>
           longer == Append(audio, packet.block)
<1>1. /\ packet.at = "got" /\ audio' = longer
      /\ packet' = (IF FeedsVad THEN [packet EXCEPT !.at = "feed"] ELSE Waiting)
      /\ UNCHANGED <<device, suppressed, delivered, leftOut, vadReady, main, others,
                     crashed>>
  BY DEF Record
<1>2. /\ packet \in [at : {"wait", "got", "feed"}, api : Apis, block : Blocks]
      /\ packet.block \in Blocks
      /\ audio \in Seq(Blocks) /\ delivered \in Nat /\ main.first \in Nat
  BY DEF Inv, TypeInv, Mains
<1>3. /\ longer \in Seq(Blocks) /\ Len(longer) = Len(audio) + 1
      /\ \A k \in 1 .. Len(audio) + 1 :
           longer[k] = IF k = Len(audio) + 1 THEN packet.block ELSE audio[k]
  BY <1>2
<1>4. /\ packet' \in [at : {"wait", "got", "feed"}, api : Apis, block : Blocks]
      /\ packet'.at \in {"wait", "feed"} /\ (packet'.at = "feed" => FeedsVad)
      /\ packet'.at = "feed" => packet'.block = packet.block
  BY <1>1, <1>2 DEF Waiting, Silent, Blocks, Apis
<1>5. /\ trimmer' \in Trimmers(trimmer') /\ trimmer'.active = trimmer.active
      /\ vad' \in Vads(vad') /\ vad'.there = vad.there
  <2>1. trimmer \in Trimmers(trimmer) /\ vad \in Vads(vad)
    BY DEF Inv, TypeInv
  <2>2. CASE Listening /\ trimmer.active
    <3>1. trimmer' = Trimmed(session, one).trimmer /\ vad' = FedVad(one)
      BY <2>2 DEF Record
    <3> QED
      BY <2>1, <3>1, TrimmedType, FedVadType
  <2>3. CASE ~(Listening /\ trimmer.active)
    BY <2>1, <2>3 DEF Record
  <2> QED
    BY <2>2, <2>3
<1> HIDE DEF longer, one
<1>6. TypeInv'
  BY <1>1, <1>3, <1>4, <1>5 DEF Inv, TypeInv, others
<1>7. CaptureInv'
  <2>1. LastRecorded = delivered - 1 /\ LastRecorded' = delivered
    BY <1>1, <1>4 DEF LastRecorded
  <2>2. packet.block.n = delivered
    BY <1>1 DEF Inv, CaptureInv
  <2>3. DOMAIN longer = 1 .. Len(audio) + 1 /\ DOMAIN audio = 1 .. Len(audio)
        /\ Len(audio) \in Nat
    BY <1>2, <1>3
  <2>4. ASSUME Capturing
        PROVE  GapFree'
    <3>1. GapFree
      BY <2>4 DEF Inv, CaptureInv
    <3>2. /\ \A k \in DOMAIN audio : audio[k].n \in Nat /\ audio[k].n < delivered
          /\ delivered \notin leftOut /\ main.first <= delivered + 1
      <4>1. \A k \in DOMAIN audio : audio[k] \in Blocks
        BY <1>2
      <4> QED
        BY <1>2, <2>1, <2>4, <3>1, <4>1 DEF GapFree, Inv, CaptureInv, Blocks
    <3>3. Rising(longer)
      <4> SUFFICES ASSUME NEW i \in 1 .. Len(audio) + 1, NEW j \in 1 .. Len(audio) + 1,
                          i < j
                   PROVE  longer[i].n < longer[j].n
        BY <2>3 DEF Rising
      <4>1. i \in DOMAIN audio /\ longer[i] = audio[i]
        BY <1>3, <2>3
      <4>2. CASE j = Len(audio) + 1
        BY <1>3, <2>2, <3>2, <4>1, <4>2
      <4>3. CASE j # Len(audio) + 1
        <5>1. j \in DOMAIN audio /\ longer[j] = audio[j]
          BY <1>3, <2>3, <4>3
        <5> QED
          BY <3>1, <4>1, <5>1 DEF GapFree, Rising
      <4> QED
        BY <4>2, <4>3
    <3>4. \A k \in 1 .. Len(audio) + 1 :
            longer[k].n \in main.first - 1 .. delivered /\ longer[k].n \notin leftOut
      <4> SUFFICES ASSUME NEW k \in 1 .. Len(audio) + 1
                   PROVE  /\ longer[k].n \in main.first - 1 .. delivered
                          /\ longer[k].n \notin leftOut
        OBVIOUS
      <4>1. CASE k = Len(audio) + 1
        BY <1>2, <1>3, <2>2, <3>2, <4>1
      <4>2. CASE k # Len(audio) + 1
        <5>1. k \in DOMAIN audio /\ longer[k] = audio[k]
          BY <1>3, <2>3, <4>2
        <5> QED
          BY <1>2, <2>1, <3>1, <5>1 DEF GapFree
      <4> QED
        BY <4>1, <4>2
    <3>5. \A m \in main.first .. delivered :
            m \in leftOut \/ \E k \in 1 .. Len(audio) + 1 : longer[k].n = m
      <4> SUFFICES ASSUME NEW m \in main.first .. delivered, m \notin leftOut
                   PROVE  \E k \in 1 .. Len(audio) + 1 : longer[k].n = m
        OBVIOUS
      <4>1. CASE m = delivered
        BY <1>3, <2>2, <2>3, <4>1
      <4>2. CASE m # delivered
        <5>1. m \in main.first .. LastRecorded
          BY <1>2, <2>1, <4>2
        <5>2. PICK k \in DOMAIN audio : audio[k].n = m
          BY <3>1, <5>1 DEF GapFree
        <5>3. k \in 1 .. Len(audio) + 1 /\ longer[k] = audio[k]
          BY <1>3, <2>3
        <5> QED
          BY <5>2, <5>3
      <4> QED
        BY <4>1, <4>2
    <3> QED
      BY <1>1, <2>1, <2>3, <3>3, <3>4, <3>5 DEF GapFree
  <2> QED
    <3>1. \A m \in leftOut' : m <= LastRecorded'
      BY <1>1, <1>2, <2>1 DEF Inv, TypeInv, CaptureInv
    <3> QED
      BY <1>1, <1>4, <2>2, <2>4, <3>1 DEF Inv, CaptureInv, Capturing
<1>8. VadInv'
  BY <1>1, <1>4, <1>5 DEF Inv, VadInv, NeedsVad, FeedsVad, others
<1> QED
  BY <1>6, <1>7, <1>8 DEF Inv

LEMMA FeedVadKeeps ==
  ASSUME Inv, FeedVad
  PROVE  Inv'
<1>1. vad' \in Vads(vad') /\ vad'.there = vad.there
  BY FedVadType DEF Inv, TypeInv, FeedVad
<1>2. TypeInv'
  BY <1>1 DEF Inv, TypeInv, FeedVad, others, Waiting, Silent, Blocks, Apis
<1>3. CaptureInv'
  BY DEF Inv, CaptureInv, Capturing, GapFree, Rising, LastRecorded, FeedVad, Waiting
<1>4. VadInv'
  BY <1>1 DEF Inv, VadInv, NeedsVad, FeedVad, others, Waiting
<1> QED
  BY <1>2, <1>3, <1>4 DEF Inv

---------------------------------------------------------------------------
(***************************************************************************)
(* The start of a recording.                                               *)
(***************************************************************************)

\* A capture that begins has nothing yet, but a block in the callback's hands.
LEMMA CaptureBegins ==
  ASSUME Inv, StartAudioCapture, ~Capturing, UNCHANGED <<packet, delivered, leftOut>>,
         main'.first = delivered + 1, InCapture(main'.at)
  PROVE  CaptureInv'
<1>1. /\ device' # "closed" /\ suppressed' = FALSE /\ audio' = <<>>
      /\ delivered \in Nat
  BY CaptureStarts DEF Inv, TypeInv, CaptureInv
<1>2. LastRecorded' \in {delivered, delivered - 1}
  BY DEF LastRecorded
<1>3. GapFree'
  <2>1. DOMAIN audio' = {}
    BY <1>1
  <2>2. main'.first .. LastRecorded' = {}
    BY <1>1, <1>2
  <2> QED
    BY <2>1, <2>2 DEF GapFree, Rising
<1>4. (/\ packet.at # "wait" => packet.block.n = delivered
       /\ \A m \in leftOut : m <= LastRecorded)'
  BY DEF Inv, CaptureInv, LastRecorded
<1>5. (main.first <= delivered + 1)'
  BY <1>1
<1> QED
  BY <1>1, <1>3, <1>4, <1>5 DEF CaptureInv, Capturing, InCapture

LEMMA BeginCaptureOnlyKeeps ==
  ASSUME Inv, BeginCaptureOnly
  PROVE  Inv'
<1>1. /\ main.at = "idle" /\ StartAudioCapture /\ delivered + 1 \in Nat
      /\ main' = [Idle EXCEPT !.at = "pending", !.first = delivered + 1]
      /\ UNCHANGED <<delivered, leftOut, packet, speech, stale, reloads, job, jobs,
                     crashed>>
  BY DEF BeginCaptureOnly, Inv, TypeInv
<1>2. "pending" \in Places
  BY DEF Places
<1>3. main' \in Mains(main') /\ main'.at = "pending" /\ main'.first = delivered + 1
  <2> DEFINE first == delivered + 1
  <2>1. first \in Nat /\ main' = [Idle EXCEPT !.at = "pending", !.first = first]
    BY <1>1
  <2> HIDE DEF first
  <2>2. main' \in Mains(main') /\ main'.at = "pending" /\ main'.first = first
    BY <1>2, <2>1, IdleType DEF Mains
  <2> QED
    BY <2>2 DEF first
<1>4. TypeInv'
  BY <1>1, <1>3, CaptureStarts DEF Inv, TypeInv, speech
<1>5. CaptureInv'
  BY <1>1, <1>3, CaptureBegins DEF Capturing, InCapture
<1>6. VadInv'
  BY <1>1, <1>3 DEF Inv, VadInv, NeedsVad, speech
<1> QED
  BY <1>4, <1>5, <1>6 DEF Inv

LEMMA DiscardPendingCaptureKeeps ==
  ASSUME Inv, DiscardPendingCapture
  PROVE  Inv'
<1>1. PICK p \in {"closing", "idle"} : main' = [main EXCEPT !.at = p, !.next = "idle"]
  BY DEF DiscardPendingCapture
<1>2. /\ main' \in Mains(main') /\ main'.at = p
  <2>1. p \in Places /\ main \in Mains(main)
    BY DEF Inv, TypeInv, Places
  <2> QED
    BY <1>1, <2>1 DEF Mains
<1>3. /\ main.at = "pending" /\ stale' = FALSE /\ suppressed' = TRUE /\ audio' = <<>>
      /\ UNCHANGED <<device, delivered, leftOut, packet, speech, captures, reloads, job,
                     jobs, crashed>>
  BY DEF DiscardPendingCapture, StopAudioCapture
<1>4. TypeInv'
  <2>1. audio' \in Seq(Blocks)
    BY <1>3
  <2> QED
    BY <1>2, <1>3, <2>1 DEF Inv, TypeInv, speech
<1>5. CaptureInv'
  BY <1>2, <1>3 DEF Inv, CaptureInv, Capturing, LastRecorded
<1>6. VadInv'
  BY <1>2, <1>3 DEF Inv, VadInv, NeedsVad, speech
<1> QED
  BY <1>4, <1>5, <1>6 DEF Inv

LEMMA DetachKeeps ==
  ASSUME Inv, Detach
  PROVE  Inv'
<1> DEFINE p == IF main.at = "idle" THEN "detached" ELSE "opened"
           e == <<>>
<1>1. PICK mode \in CaptureModes :
        main' = [main EXCEPT !.at = p, !.mode = mode, !.outcome = NoOutcome, !.pcm = e]
  <2>1. PICK mode \in Modes :
          main' = [main EXCEPT !.at = IF @ = "idle" THEN "detached" ELSE "opened",
                               !.mode = mode, !.outcome = NoOutcome, !.pcm = <<>>]
    BY DEF Detach
  <2>2. mode \in CaptureModes
    BY CaptureAssumption
  <2> QED
    BY <2>1, <2>2
<1>2. main' \in Mains(main') /\ main'.at = p /\ main'.first = main.first
  <2>1. /\ p \in Places /\ main \in [at : Places, mode : CaptureModes, first : Nat,
                                   pcm : Seq(Blocks), next : {"idle", "stopped"},
                                   outcome : {main.outcome}]
        /\ e \in Seq(Blocks)
    BY DEF Inv, TypeInv, Places, Mains
  <2> HIDE DEF p, e
  <2> QED
    BY <1>1, <2>1 DEF Mains
<1>3. /\ trimmer' = NoTrimmer /\ vadReady' = FALSE
      /\ UNCHANGED <<world, vad, others, crashed>>
  BY DEF Detach
<1>4. trimmer' \in Trimmers(trimmer') /\ ~trimmer'.active
  BY <1>3 DEF NoTrimmer, Trimmers
<1>5. TypeInv'
  BY <1>2, <1>3, <1>4 DEF Inv, TypeInv, world, others
<1>6. CaptureInv'
  <2>1. InCapture(main'.at) <=> InCapture(main.at)
    BY <1>2 DEF InCapture, Detach
  <2> QED
    BY <1>2, <1>3, <2>1, CaptureRests DEF Inv, world
<1>7. VadInv'
  <2>1. main'.at # "built"
    BY <1>2
  <2> QED
    BY <1>3, <1>4, <2>1 DEF Inv, VadInv, NeedsVad, world, others
<1> QED
  BY <1>5, <1>6, <1>7 DEF Inv

LEMMA OpenCaptureKeeps ==
  ASSUME Inv, OpenCapture
  PROVE  Inv'
<1>1. /\ main.at = "detached" /\ StartAudioCapture
      /\ main' = [main EXCEPT !.at = "opened", !.first = delivered + 1]
      /\ UNCHANGED <<delivered, leftOut, packet, speech, stale, reloads, job, jobs,
                     crashed>>
  BY DEF OpenCapture
<1>2. main' \in Mains(main') /\ main'.at = "opened" /\ main'.first = delivered + 1
  <2> DEFINE first == delivered + 1
  <2>1. /\ first \in Nat /\ main' = [main EXCEPT !.at = "opened", !.first = first]
        /\ "opened" \in Places /\ main \in Mains(main)
    BY <1>1 DEF Inv, TypeInv, Places
  <2> HIDE DEF first
  <2>2. main' \in Mains(main') /\ main'.at = "opened" /\ main'.first = first
    BY <2>1 DEF Mains
  <2> QED
    BY <2>2 DEF first
<1>3. TypeInv'
  BY <1>1, <1>2, CaptureStarts DEF Inv, TypeInv, speech
<1>4. CaptureInv'
  BY <1>1, <1>2, CaptureBegins DEF Capturing, InCapture
<1>5. VadInv'
  BY <1>1, <1>2 DEF Inv, VadInv, NeedsVad, speech
<1> QED
  BY <1>3, <1>4, <1>5 DEF Inv

\* After a step to p, somebody goes on to use the VAD.
Loads(p) == trimmer'.active \/ vadReady' \/ (p = "built" /\ main.mode = "local")

\* A step that moves the main thread on inside a recording, and what it does to the
\* VAD and the trimmer.
LEMMA RecordingGoesOn ==
  ASSUME Inv, UNCHANGED <<world, others, crashed>>,
         NEW p \in {"built", "recording"}, Goes(p), main.at \in {"opened", "built"},
         trimmer' \in Trimmers(trimmer'), vadReady' \in BOOLEAN, vad' \in Vads(vad'),
         vad.there => vad'.there,
         Loads(p) /\ reloads = 0 => vad'.there
  PROVE  Inv'
<1>1. /\ main' \in Mains(main') /\ main'.at = p
      /\ main'.first = main.first /\ main'.mode = main.mode
  <2>1. p \in Places /\ main \in Mains(main)
    BY DEF Inv, TypeInv, Places
  <2> QED
    BY <2>1, MainGoes DEF Goes
<1>2. TypeInv'
  BY <1>1 DEF Inv, TypeInv, world, others
<1>3. CaptureInv'
  <2>1. InCapture(main'.at) <=> InCapture(main.at)
    BY <1>1 DEF InCapture
  <2> QED
    BY <1>1, <2>1, CaptureRests DEF Inv, world
<1>4. VadInv'
  <2>1. /\ packet' = packet /\ job' = job /\ reloads' = reloads /\ crashed' = crashed
    BY DEF world, others
  <2>2. ASSUME reloads = 0, NeedsVad'
        PROVE  vad'.there
    <3>1. CASE packet.at = "feed" \/ job.left > 0
      BY <2>2, <3>1 DEF Inv, VadInv, NeedsVad
    <3>2. CASE Loads(p)
      BY <2>2, <3>2
    <3> QED
      BY <1>1, <2>1, <2>2, <3>1, <3>2, Zenon DEF NeedsVad, Loads
  <2> QED
    BY <2>1, <2>2 DEF Inv, VadInv
<1> QED
  BY <1>2, <1>3, <1>4 DEF Inv

\* Who does not touch the VAD and waits for nothing of it.
LEMMA NothingIsLoaded ==
  ASSUME Inv, UNCHANGED <<world, trimmer, vadReady, vad, others, crashed>>,
         NEW p \in {"built", "recording"}, Goes(p), main.at \in {"opened", "built"},
         main.mode # "local" \/ p = "recording"
  PROVE  Inv'
<1>1. /\ trimmer' \in Trimmers(trimmer') /\ vadReady' \in BOOLEAN /\ vad' \in Vads(vad')
      /\ vad.there => vad'.there
  BY DEF Inv, TypeInv
<1>2. Loads(p) /\ reloads = 0 => vad'.there
  BY DEF Loads, Inv, VadInv, NeedsVad
<1> QED
  BY <1>1, <1>2, RecordingGoesOn

LEMMA SessionStartFailsKeeps ==
  ASSUME Inv, SessionStartFails
  PROVE  Inv'
  BY NothingIsLoaded DEF SessionStartFails, speech

LEMMA PlainStartsKeeps ==
  ASSUME Inv, PlainStarts
  PROVE  Inv'
  BY NothingIsLoaded DEF PlainStarts, speech

LEMMA BatchBeginsKeeps ==
  ASSUME Inv, BatchBegins
  PROVE  Inv'
  BY NothingIsLoaded DEF BatchBegins, speech

LEMMA TrimmerStartsKeeps ==
  ASSUME Inv, TrimmerStarts
  PROVE  Inv'
<1>1. PICK loaded \in {TRUE, vad.there} :
        /\ vad' = IF loaded THEN ResetVad ELSE vad
        /\ trimmer' = [NoTrimmer EXCEPT !.active = loaded]
  BY DEF TrimmerStarts
<1>2. /\ main.at = "opened" /\ main.mode = "trim" /\ vadReady' = FALSE /\ Goes("built")
      /\ UNCHANGED <<world, others, crashed>>
  BY DEF TrimmerStarts
<1>3. vad' \in Vads(vad') /\ (vad.there => vad'.there) /\ loaded \in BOOLEAN
      /\ (loaded => vad'.there)
  BY <1>1, VadTypes DEF Inv, TypeInv, Vads
<1>4. trimmer' \in Trimmers(trimmer') /\ trimmer'.active = loaded
  BY <1>1, <1>3 DEF NoTrimmer, Trimmers
<1> QED
  BY <1>2, <1>3, <1>4, RecordingGoesOn DEF Loads

LEMMA LocalVadResetsKeeps ==
  ASSUME Inv, LocalVadResets
  PROVE  Inv'
<1>1. PICK loaded \in {TRUE, vad.there} :
        /\ vad' = IF loaded THEN ResetVad ELSE vad
        /\ Goes(IF loaded THEN "built" ELSE "recording")
  BY DEF LocalVadResets
<1>2. /\ main.at = "opened" /\ vadReady' = FALSE
      /\ UNCHANGED <<world, trimmer, others, crashed>>
  BY DEF LocalVadResets
<1>3. /\ vad' \in Vads(vad') /\ (vad.there => vad'.there) /\ loaded \in BOOLEAN
      /\ (loaded => vad'.there)
  BY <1>1, VadTypes DEF Inv, TypeInv, Vads
<1>4. trimmer' \in Trimmers(trimmer') /\ (trimmer'.active /\ reloads = 0 => vad'.there)
  BY <1>2, <1>3 DEF Inv, TypeInv, VadInv, NeedsVad
<1>5. CASE loaded
  BY <1>1, <1>2, <1>3, <1>4, <1>5, RecordingGoesOn DEF Loads
<1>6. CASE ~loaded
  BY <1>1, <1>2, <1>3, <1>4, <1>6, RecordingGoesOn DEF Loads
<1> QED
  BY <1>5, <1>6

LEMMA LocalVadPrimedKeeps ==
  ASSUME Inv, LocalVadPrimed
  PROVE  Inv'
<1>1. /\ main.at = "built" /\ main.mode = "local" /\ vadReady' = TRUE /\ Goes("recording")
      /\ UNCHANGED <<world, trimmer, others, crashed>>
      /\ vad' = vad \/ vad' = FedVad(audio)
  BY DEF LocalVadPrimed
<1>2. vad' \in Vads(vad') /\ vad'.there = vad.there
  BY <1>1, FedVadType DEF Inv, TypeInv
<1>3. trimmer' \in Trimmers(trimmer') /\ (reloads = 0 => vad'.there)
  BY <1>1, <1>2 DEF Inv, TypeInv, VadInv, NeedsVad
<1> QED
  BY <1>1, <1>2, <1>3, RecordingGoesOn DEF Loads

LEMMA ActivateStreamingSessionKeeps ==
  ASSUME Inv, ActivateStreamingSession
  PROVE  Inv'
<1>1. /\ main.at = "built" /\ vadReady' = trimmer.active /\ Goes("recording")
      /\ UNCHANGED <<world, others, crashed>>
  BY DEF ActivateStreamingSession
<1>2. /\ trimmer' \in Trimmers(trimmer') /\ trimmer'.active = trimmer.active
      /\ vad' \in Vads(vad') /\ vad'.there = vad.there
  <2>1. trimmer \in Trimmers(trimmer) /\ vad \in Vads(vad)
    BY DEF Inv, TypeInv
  <2>2. CASE trimmer.active /\ audio # <<>>
    <3>1. trimmer' = Trimmed(NewSession, audio).trimmer /\ vad' = FedVad(audio)
      BY <2>2 DEF ActivateStreamingSession
    <3> QED
      BY <2>1, <3>1, TrimmedType, FedVadType
  <2>3. CASE ~(trimmer.active /\ audio # <<>>)
    BY <2>1, <2>3 DEF ActivateStreamingSession
  <2> QED
    BY <2>2, <2>3
<1>3. vadReady' \in BOOLEAN
  BY <1>1 DEF Inv, TypeInv, Trimmers
<1>4. trimmer.active /\ reloads = 0 => vad'.there
  BY <1>2 DEF Inv, VadInv, NeedsVad
<1> QED
  BY <1>1, <1>2, <1>3, <1>4, RecordingGoesOn DEF Loads

---------------------------------------------------------------------------
(***************************************************************************)
(* The end of a recording.                                                 *)
(***************************************************************************)

LEMMA StopRecordingSessionKeeps ==
  ASSUME Inv, StopRecordingSession
  PROVE  Inv'
<1>1. PICK p \in {"closing", "stopped"} :
        main' = [main EXCEPT !.at = p, !.next = "stopped", !.pcm = audio]
  BY DEF StopRecordingSession
<1>2. main' \in Mains(main') /\ main'.at = p
  <2>1. p \in Places /\ main \in Mains(main) /\ audio \in Seq(Blocks)
    BY DEF Inv, TypeInv, Places
  <2> QED
    BY <1>1, <2>1 DEF Mains
<1>3. /\ main.at = "recording" /\ stale' = FALSE /\ suppressed' = TRUE /\ audio' = <<>>
      /\ UNCHANGED <<device, delivered, leftOut, packet, speech, captures, reloads, job,
                     jobs, crashed>>
  BY DEF StopRecordingSession, StopAudioCapture
<1>4. TypeInv'
  <2>1. audio' \in Seq(Blocks)
    BY <1>3
  <2> QED
    BY <1>2, <1>3, <2>1 DEF Inv, TypeInv, speech
<1>5. CaptureInv'
  BY <1>2, <1>3 DEF Inv, CaptureInv, Capturing, LastRecorded
<1>6. VadInv'
  BY <1>2, <1>3 DEF Inv, VadInv, NeedsVad, speech
<1> QED
  BY <1>4, <1>5, <1>6 DEF Inv

LEMMA CloseAudioCaptureKeeps ==
  ASSUME Inv, CloseAudioCapture
  PROVE  Inv'
<1>1. /\ main.at = "closing" /\ device' = "closed" /\ audio' = <<>> /\ suppressed' = FALSE
      /\ Goes(main.next)
      /\ UNCHANGED <<delivered, leftOut, packet, speech, others, crashed>>
  BY DEF CloseAudioCapture
<1>2. main' \in Mains(main') /\ main'.at \in {"idle", "stopped"}
  <2>1. main.next \in Places /\ main \in Mains(main) /\ main.next \in {"idle", "stopped"}
    BY DEF Inv, TypeInv, Places, Mains
  <2> QED
    BY <1>1, <2>1, MainGoes DEF Goes
<1>3. TypeInv'
  <2>1. audio' \in Seq(Blocks)
    BY <1>1
  <2> QED
    BY <1>1, <1>2, <2>1 DEF Inv, TypeInv, speech, others, Apis
<1>4. CaptureInv'
  BY <1>1, <1>2 DEF Inv, CaptureInv, Capturing, LastRecorded
<1>5. VadInv'
  BY <1>1, <1>2 DEF Inv, VadInv, NeedsVad, speech, others
<1> QED
  BY <1>3, <1>4, <1>5 DEF Inv

\* A step that judges a recording keeps what the next one starts from.
LEMMA RecordingEnds ==
  ASSUME Inv, UNCHANGED <<world, others, crashed>>, main.at = "stopped",
         main' \in Mains(main'), main'.at = "idle",
         trimmer' \in Trimmers(trimmer'), trimmer'.active = trimmer.active,
         vadReady' = FALSE \/ vadReady' = vadReady,
         vad' \in Vads(vad'), vad'.there = vad.there
  PROVE  Inv'
<1>1. vadReady' \in BOOLEAN /\ (vadReady' => vadReady)
  <2>1. vadReady \in BOOLEAN
    BY DEF Inv, TypeInv
  <2>2. CASE vadReady' = FALSE
    BY <2>2
  <2>3. CASE vadReady' = vadReady
    BY <2>1, <2>3
  <2> QED
    BY <2>2, <2>3
<1>2. TypeInv'
  BY <1>1 DEF Inv, TypeInv, world, others
<1>3. CaptureInv'
  BY DEF Inv, CaptureInv, Capturing, world, LastRecorded
<1>4. VadInv'
  BY <1>1 DEF Inv, VadInv, NeedsVad, world, others
<1> QED
  BY <1>2, <1>3, <1>4 DEF Inv

LEMMA TooShortKeeps ==
  ASSUME Inv, TooShort
  PROVE  Inv'
<1>1. main' \in Mains(main') /\ main'.at = "idle"
  BY EndsInIdle DEF TooShort, Inv, TypeInv
<1> QED
  BY <1>1, RecordingEnds DEF TooShort, Inv, TypeInv

LEMMA StreamingStopsKeeps ==
  ASSUME Inv, StreamingStops
  PROVE  Inv'
<1>1. main' \in Mains(main') /\ main'.at = "idle"
  <2>1. main \in Mains(main) /\ \E verdict \in {"noSpeech", "recognize"} : Ends(verdict)
    BY DEF StreamingStops, Inv, TypeInv
  <2> QED
    BY <2>1, EndsInIdle
<1>2. trimmer' \in Trimmers(trimmer') /\ trimmer'.active = trimmer.active
  <2> DEFINE core == FinishTrim(trimmer.core)
  <2>1. trimmer' = IF trimmer.active THEN [trimmer EXCEPT !.core = core] ELSE trimmer
    BY DEF StreamingStops, Inv, TypeInv, Trimmers
  <2> HIDE DEF core
  <2> QED
    BY <2>1 DEF Inv, TypeInv, Trimmers
<1> QED
  BY <1>1, <1>2, RecordingEnds DEF StreamingStops, Inv, TypeInv

LEMMA LocalStopsKeeps ==
  ASSUME Inv, LocalStops
  PROVE  Inv'
<1> DEFINE post == Flush(vad.post)
           o == LocalOutcome(post, GetConcatenatedSamples(post, main.pcm))
<1>1. /\ main.at = "stopped" /\ vadReady' = FALSE
      /\ vad' = [vad EXCEPT !.post = post]
      /\ main' = [main EXCEPT !.at = "idle", !.outcome = o]
      /\ UNCHANGED <<world, trimmer, others, crashed>>
  BY DEF LocalStops
<1> HIDE DEF post, o
<1>2. main' \in Mains(main') /\ main'.at = "idle"
  <2>1. "idle" \in Places /\ main \in Mains(main)
    BY DEF Inv, TypeInv, Places
  <2> QED
    BY <1>1, <2>1 DEF Mains
<1>3. vad' \in Vads(vad') /\ vad'.there = vad.there
  BY <1>1 DEF Inv, TypeInv, Vads
<1>4. trimmer' \in Trimmers(trimmer') /\ trimmer'.active = trimmer.active
  BY <1>1 DEF Inv, TypeInv
<1>5. /\ UNCHANGED <<world, others, crashed>> /\ main.at = "stopped"
      /\ vadReady' = FALSE \/ vadReady' = vadReady
  BY <1>1
<1> QED
  BY <1>2, <1>3, <1>4, <1>5, RecordingEnds

LEMMA BatchStopsKeeps ==
  ASSUME Inv, BatchStops
  PROVE  Inv'
<1>1. main' \in Mains(main') /\ main'.at = "idle"
  BY EndsInIdle DEF BatchStops, Inv, TypeInv
<1> QED
  BY <1>1, RecordingEnds DEF BatchStops, Inv, TypeInv, speech

LEMMA KeepAliveExpiresKeeps ==
  ASSUME Inv, KeepAliveExpires
  PROVE  Inv'
<1>1. main' \in Mains(main') /\ main'.at = "closing" /\ main'.first = main.first
  <2>1. /\ main \in Mains(main) /\ "closing" \in Places
        /\ main' = [main EXCEPT !.at = "closing", !.next = "idle"]
    BY DEF Inv, TypeInv, Places, KeepAliveExpires
  <2> QED
    BY <2>1 DEF Mains
<1>2. TypeInv'
  BY <1>1 DEF Inv, TypeInv, KeepAliveExpires, world, speech, others
<1>3. CaptureInv'
  <2>1. /\ UNCHANGED <<device, suppressed, audio, delivered, leftOut, packet>>
        /\ InCapture(main'.at) <=> InCapture(main.at)
    BY <1>1 DEF KeepAliveExpires, world, InCapture
  <2> QED
    BY <1>1, <2>1, CaptureRests DEF Inv
<1>4. VadInv'
  BY <1>1 DEF Inv, VadInv, NeedsVad, KeepAliveExpires, world, speech, others
<1> QED
  BY <1>2, <1>3, <1>4 DEF Inv

LEMMA FinalTakesSessionKeeps ==
  ASSUME Inv, FinalTakesSession
  PROVE  Inv'
<1> USE DEF FinalTakesSession, world, others
<1>1. TypeInv'
  BY DEF Inv, TypeInv
<1>2. CaptureInv'
  BY DEF Inv, CaptureInv, Capturing, GapFree, Rising, LastRecorded
<1>3. VadInv'
  BY DEF Inv, VadInv, NeedsVad
<1> QED
  BY <1>1, <1>2, <1>3 DEF Inv

LEMMA ReloadMessageKeeps ==
  ASSUME Inv, ReloadMessage
  PROVE  Inv'
<1>1. /\ reloads' = reloads + 1 /\ vad' = NoVad /\ (stale' = TRUE \/ stale' = stale)
      /\ UNCHANGED <<world, trimmer, vadReady, captures, job, jobs, crashed>>
  BY DEF ReloadMessage
<1>2. /\ main' \in Mains(main') /\ main'.first = main.first
      /\ InCapture(main'.at) <=> InCapture(main.at)
  <2>1. main \in Mains(main) /\ "closing" \in Places
    BY DEF Inv, TypeInv, Places
  <2>2. CASE main.at = "idle"
    <3>1. main' = [main EXCEPT !.at = "closing", !.next = "idle"]
      BY <2>2 DEF ReloadMessage
    <3> QED
      BY <2>1, <2>2, <3>1 DEF InCapture, Mains
  <2>3. CASE main.at # "idle"
    BY <2>1, <2>3 DEF ReloadMessage
  <2> QED
    BY <2>2, <2>3
<1>3. TypeInv'
  <2>1. vad' \in Vads(vad') /\ reloads' \in Nat
    BY <1>1, VadTypes DEF Inv, TypeInv
  <2>2. stale' \in BOOLEAN
    BY <1>1, Zenon DEF Inv, TypeInv
  <2> QED
    BY <1>1, <1>2, <2>1, <2>2 DEF Inv, TypeInv, world
<1>4. CaptureInv'
  BY <1>1, <1>2, CaptureRests DEF Inv, world
<1>5. VadInv'
  BY <1>1 DEF Inv, TypeInv, VadInv
<1> QED
  BY <1>3, <1>4, <1>5 DEF Inv

---------------------------------------------------------------------------
(***************************************************************************)
(* The other threads.                                                      *)
(***************************************************************************)

\* A step outside the main thread and the callback that keeps the VAD.
LEMMA EngineStep ==
  ASSUME Inv, UNCHANGED <<world, trimmer, vadReady, main, stale, captures, reloads,
                          crashed>>,
         vad' \in Vads(vad'), vad.there => vad'.there,
         job' \in [left : Nat], job'.left > 0 /\ job.left = 0 => vad'.there,
         jobs' \in Nat
  PROVE  Inv'
<1>1. TypeInv'
  BY DEF Inv, TypeInv, world
<1>2. CaptureInv'
  BY DEF Inv, CaptureInv, Capturing, GapFree, Rising, LastRecorded, world
<1>3. VadInv'
  <2>1. job.left \in Nat /\ job'.left \in Nat
    BY DEF Inv, TypeInv
  <2> QED
    BY <2>1 DEF Inv, VadInv, NeedsVad, world
<1> QED
  BY <1>1, <1>2, <1>3 DEF Inv

LEMMA PreloadAsrEngineKeeps ==
  ASSUME Inv, PreloadAsrEngine
  PROVE  Inv'
  BY VadTypes, EngineStep DEF PreloadAsrEngine, others, Inv, TypeInv

LEMMA SessionStopsKeeps ==
  ASSUME Inv, SessionStops
  PROVE  Inv'
  BY EngineStep DEF SessionStops, others, Inv, TypeInv

LEMMA JobResetsVadKeeps ==
  ASSUME Inv, JobResetsVad
  PROVE  Inv'
<1>1. /\ vad' = [ResetVad EXCEPT !.shared = TRUE] /\ jobs' = jobs + 1
      /\ UNCHANGED <<world, trimmer, vadReady, main, stale, captures, reloads, crashed>>
  BY DEF JobResetsVad
<1>2. vad' \in Vads(vad') /\ vad'.there
  BY <1>1, VadTypes
<1>3. job' \in [left : Nat] /\ jobs' \in Nat
  BY <1>1 DEF JobResetsVad, Inv, TypeInv
<1> QED
  BY <1>1, <1>2, <1>3, EngineStep

LEMMA JobFeedsVadKeeps ==
  ASSUME Inv, JobFeedsVad
  PROVE  Inv'
<1> DEFINE post == ProcessOneFrame(vad.post, TRUE)
           e == <<>>
<1>1. /\ vad' = [vad EXCEPT !.post = post, !.shared = TRUE, !.heard = e]
      /\ job.left > 0 /\ job' = [left |-> job.left - 1]
      /\ UNCHANGED <<world, trimmer, vadReady, main, stale, captures, reloads, jobs,
                     crashed>>
  BY DEF JobFeedsVad, Inv, TypeInv, Vads
<1> HIDE DEF post, e
<1>2. vad' \in Vads(vad') /\ vad'.there = vad.there
  BY <1>1 DEF Inv, TypeInv, Vads
<1>3. job' \in [left : Nat] /\ jobs' \in Nat
  BY <1>1 DEF Inv, TypeInv
<1> QED
  BY <1>1, <1>2, <1>3, EngineStep

\* The VAD is missed only where NeedsVad says so.
LEMMA CrashKeeps ==
  ASSUME Inv, Crash
  PROVE  Inv'
<1> USE DEF Crash, world, speech, others
<1>1. TypeInv'
  BY DEF Inv, TypeInv
<1>2. CaptureInv'
  BY DEF Inv, CaptureInv, Capturing, GapFree, Rising, LastRecorded
<1>3. VadInv'
  <2>1. NeedsVad
    BY DEF MissesVad, NeedsVad
  <2> QED
    BY <2>1 DEF Inv, VadInv
<1> QED
  BY <1>1, <1>2, <1>3 DEF Inv

---------------------------------------------------------------------------
(***************************************************************************)
(* The theorems.                                                           *)
(***************************************************************************)

LEMMA InitHolds ==
  ASSUME Init
  PROVE  Inv
<1> USE DEF Init
<1>1. audio \in Seq(Blocks) /\ packet \in [at : {"wait", "got", "feed"}, api : Apis,
                                           block : Blocks]
  BY DEF Waiting, Silent, Blocks, Apis
<1>2. trimmer \in Trimmers(trimmer) /\ ~trimmer.active
  BY DEF NoTrimmer, Trimmers
<1>3. TypeInv
  BY <1>1, <1>2, VadTypes, IdleType DEF TypeInv, Apis
<1>4. CaptureInv
  BY IdleType DEF CaptureInv, Capturing, Waiting
<1>5. VadInv
  BY <1>2, IdleType DEF VadInv, NeedsVad, Waiting
<1> QED
  BY <1>3, <1>4, <1>5 DEF Inv

LEMMA StutterKeeps ==
  ASSUME Inv, UNCHANGED vars
  PROVE  Inv'
<1> USE DEF vars, world, speech, others
<1>1. TypeInv'
  BY DEF Inv, TypeInv
<1>2. CaptureInv'
  BY DEF Inv, CaptureInv, Capturing, GapFree, Rising, LastRecorded
<1>3. VadInv'
  BY DEF Inv, VadInv, NeedsVad
<1> QED
  BY <1>1, <1>2, <1>3 DEF Inv

\* Inv is an invariant: the types, the numbers of the blocks that a capture has
\* collected, and that nobody goes on to feed a VAD that is not there unless the
\* settings were saved.
THEOREM Invariance == Spec => []Inv
<1>1. Inv /\ [Next]_vars => Inv'
  <2> SUFFICES ASSUME Inv, [Next]_vars
               PROVE  Inv'
    OBVIOUS
  <2>1. CASE Callback
    BY <2>1, DeliverKeeps, LeaveOutKeeps, DropKeeps, RecordKeeps, FeedVadKeeps
       DEF Callback
  <2>2. CASE Starts
    BY <2>2, BeginCaptureOnlyKeeps, DiscardPendingCaptureKeeps, DetachKeeps,
       OpenCaptureKeeps, SessionStartFailsKeeps, TrimmerStartsKeeps, PlainStartsKeeps,
       ActivateStreamingSessionKeeps, LocalVadResetsKeeps, LocalVadPrimedKeeps,
       BatchBeginsKeeps
       DEF Starts
  <2>3. CASE Stops
    BY <2>3, StopRecordingSessionKeeps, CloseAudioCaptureKeeps, TooShortKeeps,
       StreamingStopsKeeps, LocalStopsKeeps, BatchStopsKeeps, KeepAliveExpiresKeeps,
       FinalTakesSessionKeeps, ReloadMessageKeeps
       DEF Stops
  <2>4. CASE Engine
    BY <2>4, PreloadAsrEngineKeeps, SessionStopsKeeps, JobResetsVadKeeps,
       JobFeedsVadKeeps
       DEF Engine
  <2> QED
    BY <2>1, <2>2, <2>3, <2>4, CrashKeeps, StutterKeeps DEF Next
<1> QED
  BY <1>1, InitHolds, PTL DEF Spec

\* A model that does not load, an older recording's thread or the preload never make
\* the capture use a VAD that is not there; only a saved setting can
\* (StreamingVadTrimmer::Start, EnsureVadForConfig, TrimBatchPcm16WithVad).
THEOREM VadIsAlwaysThere == Spec => []VadIsThere
<1>1. Inv => VadIsThere
  BY DEF Inv, TypeInv, VadInv, VadIsThere
<1> QED
  BY <1>1, Invariance, PTL

LEMMA NoBlockIsMissing == Inv => CaptureIsComplete
<1> SUFFICES ASSUME Inv, Capturing
             PROVE  CaptureIsComplete
  BY DEF CaptureIsComplete
<1> DEFINE first == main.first
           last == IF packet.at = "got" THEN delivered - 1 ELSE delivered
           own == IF audio # <<>> /\ audio[1].n = first - 1 THEN Tail(audio) ELSE audio
           n == Len(audio)
           Whole(blocks) ==
             /\ \A i, j \in DOMAIN blocks : i < j => blocks[i].n < blocks[j].n
             /\ {blocks[i].n : i \in DOMAIN blocks} = (first .. last) \ leftOut
<1>1. /\ audio \in Seq(Blocks) /\ first \in Nat /\ delivered \in Nat /\ n \in Nat
      /\ last \in Int /\ last = LastRecorded /\ DOMAIN audio = 1 .. n
      /\ \A k \in 1 .. n : audio[k].n \in Nat
  <2>1. audio \in Seq(Blocks) /\ n \in Nat /\ DOMAIN audio = 1 .. n
    BY DEF Inv, TypeInv
  <2>2. \A k \in 1 .. n : audio[k] \in Blocks
    BY <2>1
  <2> QED
    BY <2>1, <2>2 DEF Inv, TypeInv, Mains, LastRecorded, Blocks
<1>2. /\ \A i, j \in 1 .. n : i < j => audio[i].n < audio[j].n
      /\ \A k \in 1 .. n : audio[k].n \in first - 1 .. last /\ audio[k].n \notin leftOut
      /\ \A m \in first .. last : m \in leftOut \/ \E k \in 1 .. n : audio[k].n = m
  BY <1>1 DEF Inv, CaptureInv, GapFree, Rising
<1> HIDE DEF last, first, n
<1>3. CASE audio # <<>> /\ audio[1].n = first - 1
  <2>1. n > 0 /\ 1 \in 1 .. n
    BY <1>1, <1>3 DEF n
  <2>2. /\ own = Tail(audio) /\ DOMAIN own = 1 .. n - 1
        /\ \A k \in 1 .. n - 1 : own[k] = audio[k + 1]
    BY <1>1, <1>3, <2>1 DEF n
  <2> HIDE DEF own
  <2>3. \A k \in 1 .. n - 1 : k + 1 \in 1 .. n /\ 1 < k + 1
    BY <1>1
  <2>4. \A i, j \in DOMAIN own : i < j => own[i].n < own[j].n
    <3> SUFFICES ASSUME NEW i \in 1 .. n - 1, NEW j \in 1 .. n - 1, i < j
                 PROVE  own[i].n < own[j].n
      BY <2>2
    <3>1. i + 1 < j + 1 /\ i + 1 \in 1 .. n /\ j + 1 \in 1 .. n
      BY <1>1
    <3> QED
      BY <1>2, <2>2, <3>1
  <2>5. \A k \in DOMAIN own : own[k].n \in (first .. last) \ leftOut
    <3> SUFFICES ASSUME NEW k \in 1 .. n - 1
                 PROVE  audio[k + 1].n \in (first .. last) \ leftOut
      BY <2>2
    <3>1. audio[1].n < audio[k + 1].n /\ k + 1 \in 1 .. n
      BY <1>2, <2>1, <2>3
    <3> QED
      BY <1>1, <1>2, <2>1, <3>1
  <2>6. \A m \in (first .. last) \ leftOut : \E k \in DOMAIN own : own[k].n = m
    <3> SUFFICES ASSUME NEW m \in (first .. last) \ leftOut
                 PROVE  \E k \in DOMAIN own : own[k].n = m
      OBVIOUS
    <3>1. PICK k \in 1 .. n : audio[k].n = m
      BY <1>2
    <3>2. k # 1
      BY <1>1, <1>3, <3>1
    <3>3. k - 1 \in 1 .. n - 1 /\ (k - 1) + 1 = k
      BY <1>1, <3>2
    <3> QED
      BY <2>2, <3>1, <3>3
  <2>7. Whole(own)
    BY <2>4, <2>5, <2>6
  <2> QED
    BY <2>7 DEF CaptureIsComplete, own, first, last
<1>4. CASE ~(audio # <<>> /\ audio[1].n = first - 1)
  <2>1. own = audio
    BY <1>4
  <2>2. \A k \in 1 .. n : audio[k].n >= first
    <3> SUFFICES ASSUME NEW k \in 1 .. n
                 PROVE  audio[k].n >= first
      OBVIOUS
    <3>1. 1 \in 1 .. n /\ audio # <<>>
      BY <1>1 DEF n
    <3>2. audio[1].n >= first /\ (k = 1 \/ audio[1].n < audio[k].n)
      BY <1>1, <1>2, <1>4, <3>1
    <3> QED
      BY <1>1, <3>1, <3>2
  <2>3. Whole(audio)
    BY <1>1, <1>2, <2>2
  <2> HIDE DEF own
  <2> QED
    BY <2>1, <2>3 DEF CaptureIsComplete, own, first, last
<1> QED
  BY <1>3, <1>4

\* Whatever is begun, stopped, resumed and closed, and however the callback is
\* interleaved with it, a capture has every packet since it began that became a
\* block, in order and none twice.  What CaptureThread makes no block of is not in
\* it, and the block of the packet before it may be in front (StartAudioCapture,
\* StopAudioCapture and both callbacks).
THEOREM NothingCapturedIsLost == Spec => []CaptureIsComplete
  BY Invariance, NoBlockIsMissing, PTL
\* Induction over the natural numbers, for a set.
LEMMA SetInduction ==
  ASSUME NEW S, 0 \in S, \A n \in Nat : n \in S => n + 1 \in S
  PROVE  Nat \subseteq S
<1> SUFFICES ASSUME NEW T, T = Nat \ S, T # {}
             PROVE  FALSE
  OBVIOUS
<1> DEFINE R == OpToRel(<, Nat)
<1>1. \A x, y \in Nat : y < x => <<y, x>> \in R
  BY DEF OpToRel
<1>2. IsWellFoundedOn(R, Nat)
  BY NatLessThanWellFounded
<1> HIDE DEF R
<1>3. PICK x \in T : \A y \in T : ~(<<y, x>> \in R)
  BY <1>2, WFMin
<1>4. x \in Nat /\ x # 0 /\ x - 1 \in Nat /\ x - 1 < x /\ (x - 1) + 1 = x
  BY <1>3
<1>5. x - 1 \in T
  BY <1>4
<1> QED
  BY <1>1, <1>3, <1>4, <1>5


\* How FlattenSeq unfolds.  A witness of the recursion exists for every length.
Flattens(f, ss, n) == f = [i \in 1..n |-> IF i = 1 THEN ss[i] ELSE f[i-1] \o ss[i]]

LEMMA FlattenExists ==
  ASSUME NEW ss
  PROVE  \A n \in Nat : \E f : Flattens(f, ss, n)
<1> DEFINE S == {n \in Nat : \E f : Flattens(f, ss, n)}
<1>1. 0 \in S
  <2>1. \A i \in 1..0 : FALSE
    OBVIOUS
  <2> DEFINE g == [i \in 1..0 |-> i]
  <2>2. g = [i \in 1..0 |-> IF i = 1 THEN ss[i] ELSE g[i-1] \o ss[i]]
    BY <2>1
  <2> QED
    BY <2>2 DEF Flattens
<1>2. ASSUME NEW n \in Nat, n \in S
      PROVE  n + 1 \in S
  <2>1. PICK f : f = [i \in 1..n |-> IF i = 1 THEN ss[i] ELSE f[i-1] \o ss[i]]
    BY <1>2 DEF Flattens
  <2>2. \A i \in 1..n : f[i] = IF i = 1 THEN ss[i] ELSE f[i-1] \o ss[i]
    BY <2>1
  <2> DEFINE g == [i \in 1..n+1 |->
                     IF i \in 1..n THEN f[i]
                     ELSE IF i = 1 THEN ss[i] ELSE f[n] \o ss[i]]
             h == [i \in 1..n+1 |-> IF i = 1 THEN ss[i] ELSE g[i-1] \o ss[i]]
  <2>3. ASSUME NEW i \in 1..n+1
        PROVE  g[i] = h[i]
    <3>1. CASE i \in 1..n /\ i # 1
      <4>1. i - 1 \in 1..n /\ i - 1 \in 1..n+1
        BY <3>1
      <4>2. g[i-1] = f[i-1]
        BY <4>1
      <4> QED
        BY <2>2, <3>1, <4>2
    <3>2. CASE i = 1
      BY <2>2, <3>2
    <3>3. CASE i = n + 1 /\ i # 1
      <4>1. i - 1 = n /\ n \in 1..n /\ n \in 1..n+1 /\ i \notin 1..n
        BY <3>3
      <4>2. g[i-1] = f[n]
        BY <4>1
      <4> QED
        BY <3>3, <4>1, <4>2
    <3> QED
      BY <3>1, <3>2, <3>3
  <2>4. g = h
    BY <2>3
  <2>5. Flattens(g, ss, n + 1)
    BY <2>4 DEF Flattens
  <2> QED
    BY <2>5
<1> HIDE DEF S
<1>3. Nat \subseteq S
  BY <1>1, <1>2, SetInduction
<1> QED
  BY <1>3 DEF S

LEMMA FlattenDef ==
  ASSUME NEW ss, Len(ss) \in Nat
  PROVE  \E f : /\ Flattens(f, ss, Len(ss))
                /\ FlattenSeq(ss) = IF Len(ss) = 0 THEN ss ELSE f[Len(ss)]
<1> DEFINE fl == CHOOSE f : Flattens(f, ss, Len(ss))
<1>1. \E f : Flattens(f, ss, Len(ss))
  BY FlattenExists
<1>2. Flattens(fl, ss, Len(ss))
  BY <1>1
<1>3. FlattenSeq(ss) = IF Len(ss) = 0 THEN ss ELSE fl[Len(ss)]
  BY DEF FlattenSeq, Flattens
<1> QED
  BY <1>2, <1>3

LEMMA FlattenEmpty == FlattenSeq(<<>>) = <<>>
  BY DEF FlattenSeq

\* Two unfoldings agree where their sequences do.
LEMMA FlattenAgrees ==
  ASSUME NEW ss, NEW tt, NEW n \in Nat, NEW m \in Nat, NEW f, NEW g,
         Flattens(f, ss, n), Flattens(g, tt, m), n <= m,
         \A i \in 1..n : ss[i] = tt[i]
  PROVE  \A i \in 1..n : f[i] = g[i]
<1> DEFINE S == {i \in Nat : i \in 1..n => f[i] = g[i]}
<1>1. 0 \in S
  OBVIOUS
<1>2. /\ \A i \in 1..n : f[i] = IF i = 1 THEN ss[i] ELSE f[i-1] \o ss[i]
      /\ \A i \in 1..m : g[i] = IF i = 1 THEN tt[i] ELSE g[i-1] \o tt[i]
  BY DEF Flattens
<1>3. ASSUME NEW i \in Nat, i \in S
      PROVE  i + 1 \in S
  <2> SUFFICES ASSUME i + 1 \in 1..n
               PROVE  f[i+1] = g[i+1]
    OBVIOUS
  <2>1. i + 1 \in 1..m /\ ss[i+1] = tt[i+1]
    OBVIOUS
  <2>2. CASE i = 0
    BY <1>2, <2>1, <2>2
  <2>3. CASE i # 0
    <3>1. i \in 1..n /\ (i + 1) - 1 = i /\ i + 1 # 1
      BY <2>3
    <3>2. f[i] = g[i]
      BY <1>3, <3>1
    <3> QED
      BY <1>2, <2>1, <3>1, <3>2
  <2> QED
    BY <2>2, <2>3
<1> HIDE DEF S
<1>4. Nat \subseteq S
  BY <1>1, <1>3, SetInduction
<1> QED
  BY <1>4 DEF S

LEMMA FlattenLast ==
  ASSUME NEW ss, NEW tt, NEW n \in Nat \ {0}, Len(ss) = n, Len(tt) = n + 1,
         \A i \in 1..n : ss[i] = tt[i]
  PROVE  FlattenSeq(tt) = FlattenSeq(ss) \o tt[n+1]
<1>1. PICK f : Flattens(f, ss, n) /\ FlattenSeq(ss) = f[n]
  BY FlattenDef
<1>2. PICK g : Flattens(g, tt, n + 1) /\ FlattenSeq(tt) = g[n+1]
  BY FlattenDef
<1>3. f[n] = g[n]
  <2>1. n \in 1..n /\ n <= n + 1 /\ n + 1 \in Nat
    OBVIOUS
  <2> QED
    BY <1>1, <1>2, <2>1, FlattenAgrees
<1>4. n + 1 \in 1..n+1 /\ n + 1 # 1 /\ (n + 1) - 1 = n
  OBVIOUS
<1>5. g[n+1] = g[n] \o tt[n+1]
  BY <1>2, <1>4 DEF Flattens
<1> QED
  BY <1>1, <1>2, <1>3, <1>5

LEMMA FlattenSingle ==
  ASSUME NEW tt, Len(tt) = 1
  PROVE  FlattenSeq(tt) = tt[1]
<1>1. Len(tt) \in Nat /\ Len(tt) # 0
  OBVIOUS
<1>2. PICK f : Flattens(f, tt, Len(tt)) /\ FlattenSeq(tt) = f[Len(tt)]
  BY <1>1, FlattenDef
<1>3. f = [i \in 1..1 |-> IF i = 1 THEN tt[i] ELSE f[i-1] \o tt[i]]
  BY <1>2 DEF Flattens
<1> QED
  BY <1>2, <1>3

LEMMA FlattenAppend ==
  ASSUME NEW T, NEW ss \in Seq(Seq(T)), NEW s \in Seq(T)
  PROVE  FlattenSeq(Append(ss, s)) = FlattenSeq(ss) \o s
<1> DEFINE tt == Append(ss, s)
           n == Len(ss)
<1>1. /\ n \in Nat /\ Len(tt) = n + 1 /\ tt[n+1] = s
      /\ \A i \in 1..n : ss[i] = tt[i]
  OBVIOUS
<1>2. CASE n = 0
  <2>1. ss = <<>> /\ <<>> \o s = s
    BY <1>2
  <2>2. FlattenSeq(tt) = tt[1]
    BY <1>1, <1>2, FlattenSingle
  <2> QED
    BY <1>1, <1>2, <2>1, <2>2, FlattenEmpty
<1> HIDE DEF tt, n
<1>3. CASE n # 0
  <2>1. n \in Nat \ {0} /\ Len(ss) = n
    BY <1>1, <1>3 DEF n
  <2>2. FlattenSeq(tt) = FlattenSeq(ss) \o tt[n+1]
    BY <1>1, <2>1, FlattenLast
  <2> QED
    BY <1>1, <2>2 DEF tt
<1> QED
  BY <1>2, <1>3 DEF tt

\* Induction over sequences, for a set.
LEMMA SeqSetInduction ==
  ASSUME NEW T, NEW S, <<>> \in S,
         \A s \in Seq(T), e \in T : s \in S => Append(s, e) \in S
  PROVE  Seq(T) \subseteq S
<1> DEFINE L == {n \in Nat : \A s \in Seq(T) : Len(s) = n => s \in S}
<1>1. 0 \in L
  <2>1. \A s \in Seq(T) : Len(s) = 0 => s = <<>>
    OBVIOUS
  <2> QED
    BY <2>1
<1>2. ASSUME NEW n \in Nat, n \in L
      PROVE  n + 1 \in L
  <2> SUFFICES ASSUME NEW s \in Seq(T), Len(s) = n + 1
               PROVE  s \in S
    OBVIOUS
  <2> DEFINE r == SubSeq(s, 1, n)
  <2>1. r \in Seq(T) /\ Len(r) = n /\ s[n+1] \in T /\ s = Append(r, s[n+1])
    OBVIOUS
  <2> HIDE DEF r
  <2>2. r \in S
    BY <1>2, <2>1
  <2> QED
    BY <2>1, <2>2
<1> HIDE DEF L
<1>3. Nat \subseteq L
  BY <1>1, <1>2, SetInduction
<1> QED
  BY <1>3 DEF L

LEMMA FlattenType ==
  ASSUME NEW T
  PROVE  \A ss \in Seq(Seq(T)) : FlattenSeq(ss) \in Seq(T)
<1> DEFINE S == {ss \in Seq(Seq(T)) : FlattenSeq(ss) \in Seq(T)}
<1>1. <<>> \in S
  <2>1. <<>> \in Seq(T) /\ <<>> \in Seq(Seq(T))
    OBVIOUS
  <2>2. FlattenSeq(<<>>) \in Seq(T)
    BY <2>1, FlattenEmpty, Zenon
  <2> QED
    BY <2>1, <2>2
<1>2. ASSUME NEW ss \in Seq(Seq(T)), NEW s \in Seq(T), ss \in S
      PROVE  Append(ss, s) \in S
  <2>1. FlattenSeq(Append(ss, s)) = FlattenSeq(ss) \o s
    BY FlattenAppend
  <2>2. FlattenSeq(ss) \o s \in Seq(T)
    BY <1>2
  <2>3. Append(ss, s) \in Seq(Seq(T))
    OBVIOUS
  <2> QED
    BY <2>1, <2>2, <2>3
<1> HIDE DEF S
<1>3. Seq(Seq(T)) \subseteq S
  BY <1>1, <1>2, SeqSetInduction
<1> QED
  BY <1>3 DEF S

LEMMA AppendConcat ==
  ASSUME NEW T, NEW a \in Seq(T), NEW b \in Seq(T), NEW e \in T
  PROVE  Append(a \o b, e) = a \o Append(b, e)
  OBVIOUS

LEMMA ConcatAssociates ==
  ASSUME NEW T, NEW a \in Seq(T), NEW b \in Seq(T), NEW c \in Seq(T)
  PROVE  (a \o b) \o c = a \o (b \o c)
  OBVIOUS

LEMMA FlattenConcat ==
  ASSUME NEW T, NEW ss \in Seq(Seq(T))
  PROVE  \A tt \in Seq(Seq(T)) :
           FlattenSeq(ss \o tt) = FlattenSeq(ss) \o FlattenSeq(tt)
<1> DEFINE S == {tt \in Seq(Seq(T)) :
                   FlattenSeq(ss \o tt) = FlattenSeq(ss) \o FlattenSeq(tt)}
<1>1. <<>> \in S
  <2>1. FlattenSeq(ss) \in Seq(T)
    BY FlattenType
  <2>2. ss \o <<>> = ss /\ FlattenSeq(ss) \o <<>> = FlattenSeq(ss)
    BY <2>1
  <2>3. <<>> \in Seq(Seq(T))
    OBVIOUS
  <2>4. FlattenSeq(ss \o <<>>) = FlattenSeq(ss) \o FlattenSeq(<<>>)
    BY <2>2, FlattenEmpty
  <2> QED
    BY <2>3, <2>4
<1>2. ASSUME NEW tt \in Seq(Seq(T)), NEW s \in Seq(T), tt \in S
      PROVE  Append(tt, s) \in S
  <2>1. /\ FlattenSeq(ss) \in Seq(T) /\ FlattenSeq(tt) \in Seq(T)
        /\ ss \o tt \in Seq(Seq(T)) /\ Append(tt, s) \in Seq(Seq(T))
    BY FlattenType
  <2>2. ss \o Append(tt, s) = Append(ss \o tt, s)
    BY AppendConcat
  <2>3. FlattenSeq(ss \o Append(tt, s)) = FlattenSeq(ss \o tt) \o s
    BY <2>1, <2>2, FlattenAppend
  <2>4. FlattenSeq(Append(tt, s)) = FlattenSeq(tt) \o s
    BY FlattenAppend
  <2>5. (FlattenSeq(ss) \o FlattenSeq(tt)) \o s
          = FlattenSeq(ss) \o (FlattenSeq(tt) \o s)
    BY <2>1, ConcatAssociates
  <2>6. FlattenSeq(ss \o tt) = FlattenSeq(ss) \o FlattenSeq(tt)
    BY <1>2
  <2> QED
    BY <2>1, <2>3, <2>4, <2>5, <2>6
<1> HIDE DEF S
<1>3. Seq(Seq(T)) \subseteq S
  BY <1>1, <1>2, SeqSetInduction
<1> QED
  BY <1>3 DEF S

\* Empty sequences add nothing.
LEMMA FlattenBlank ==
  ASSUME NEW T
  PROVE  \A ss \in Seq(Seq(T)) :
           (\A i \in 1..Len(ss) : ss[i] = <<>>) => FlattenSeq(ss) = <<>>
<1> DEFINE S == {ss \in Seq(Seq(T)) :
                   (\A i \in 1..Len(ss) : ss[i] = <<>>) => FlattenSeq(ss) = <<>>}
<1>1. <<>> \in S
  BY FlattenEmpty
<1>2. ASSUME NEW ss \in Seq(Seq(T)), NEW s \in Seq(T), ss \in S
      PROVE  Append(ss, s) \in S
  <2> SUFFICES ASSUME \A i \in 1..Len(Append(ss, s)) : Append(ss, s)[i] = <<>>
               PROVE  FlattenSeq(Append(ss, s)) = <<>>
    <3>1. Append(ss, s) \in Seq(Seq(T))
      OBVIOUS
    <3> QED
      BY <3>1
  <2>1. /\ \A i \in 1..Len(ss) : i \in 1..Len(Append(ss, s)) /\ Append(ss, s)[i] = ss[i]
        /\ Len(ss) + 1 \in 1..Len(Append(ss, s)) /\ Append(ss, s)[Len(ss)+1] = s
    OBVIOUS
  <2>2. FlattenSeq(ss) = <<>> /\ s = <<>>
    BY <1>2, <2>1
  <2>3. <<>> \o <<>> = <<>>
    OBVIOUS
  <2> QED
    BY <2>2, <2>3, FlattenAppend
<1> HIDE DEF S
<1>3. Seq(Seq(T)) \subseteq S
  BY <1>1, <1>2, SeqSetInduction
<1> QED
  BY <1>3 DEF S

---------------------------------------------------------------------------
(***************************************************************************)
(* The trimmer: what its state says of the chunks it was given.            *)
(***************************************************************************)

Decisions == [chunk : Seq(Blocks), voice : BOOLEAN]
Cores ==
  [state : {"PreSpeech", "InSpeech", "PossibleTail"}, silent : Nat,
   speech : BOOLEAN, pre : Seq(Seq(Blocks)), tail : Seq(Seq(Blocks))]

Chunks(d) == [i \in DOMAIN d |-> d[i].chunk]
VoicedOf(d) == {i \in DOMAIN d : d[i].voice}

\* first and last are the first and the last voiced of the chunks d.
Spans(d, first, last) ==
  /\ first \in VoicedOf(d) /\ last \in VoicedOf(d)
  /\ \A j \in VoicedOf(d) : first <= j /\ j <= last

\* The number of the first chunk that is sent if first is voiced.
SentFrom(first) == IF first - PreSpeechKeep < 1 THEN 1 ELSE first - PreSpeechKeep

\* The core after the chunks d, of which it has put out heard.
CoreWaits(core, d, heard) ==
  /\ core.state = "PreSpeech" /\ core.silent = 0
  /\ VoicedOf(d) = {} /\ core.pre = Chunks(d) /\ heard = <<>>

CoreSends(core, d, heard, first, last) ==
  /\ core.state = "InSpeech" /\ core.silent = Len(d) - last
  /\ core.silent < TailSilentThreshold
  /\ heard = FlattenSeq(SubSeq(Chunks(d), SentFrom(first), Len(d)))

CoreKeepsTail(core, d, heard, first, last) ==
  /\ core.state = "PossibleTail" /\ last + TailSilentThreshold <= Len(d)
  /\ core.tail = SubSeq(Chunks(d), last + TailSilentThreshold + 1, Len(d))
  /\ heard = FlattenSeq(SubSeq(Chunks(d), SentFrom(first), last + TailSilentThreshold))

CoreInv(core, d, heard) ==
  \/ CoreWaits(core, d, heard)
  \/ \E first, last \in DOMAIN d :
       /\ Spans(d, first, last)
       /\ \/ CoreSends(core, d, heard, first, last)
          \/ CoreKeepsTail(core, d, heard, first, last)

LEMMA ChunksAppend ==
  ASSUME NEW d \in Seq(Decisions), NEW x \in Decisions
  PROVE  /\ Chunks(d) \in Seq(Seq(Blocks)) /\ Len(Chunks(d)) = Len(d)
         /\ Chunks(Append(d, x)) = Append(Chunks(d), x.chunk)
         /\ x.chunk \in Seq(Blocks)
<1>0. \A y \in Decisions : y.chunk \in Seq(Blocks)
  BY DEF Decisions
<1>1. /\ \A i \in 1..Len(d) : d[i].chunk \in Seq(Blocks)
      /\ x.chunk \in Seq(Blocks)
  BY <1>0
<1>2. Chunks(d) \in Seq(Seq(Blocks)) /\ Len(Chunks(d)) = Len(d)
  BY <1>1 DEF Chunks
<1>3. /\ DOMAIN Append(d, x) = 1..Len(d) + 1
      /\ \A i \in 1..Len(d) : Append(d, x)[i] = d[i]
      /\ Append(d, x)[Len(d) + 1] = x
  OBVIOUS
<1>4. DOMAIN Chunks(Append(d, x)) = 1..Len(d) + 1
  BY <1>3 DEF Chunks
<1>5. \A i \in 1..Len(d) + 1 :
        Chunks(Append(d, x))[i] = Append(Chunks(d), x.chunk)[i]
  BY <1>1, <1>2, <1>3 DEF Chunks
<1>6. /\ Append(Chunks(d), x.chunk) \in Seq(Seq(Blocks))
      /\ DOMAIN Append(Chunks(d), x.chunk) = 1..Len(d) + 1
  BY <1>1, <1>2
<1>7. Chunks(Append(d, x)) = [i \in 1..Len(d) + 1 |-> Chunks(Append(d, x))[i]]
  BY <1>4 DEF Chunks
<1>8. Append(Chunks(d), x.chunk) = [i \in 1..Len(d) + 1 |-> Append(Chunks(d), x.chunk)[i]]
  BY <1>6
<1> QED
  BY <1>1, <1>2, <1>5, <1>7, <1>8

LEMMA GivenAppend ==
  ASSUME NEW d \in Seq(Decisions), NEW x \in Decisions
  PROVE  /\ FlattenSeq(Chunks(d)) \in Seq(Blocks)
         /\ FlattenSeq(Chunks(Append(d, x))) = FlattenSeq(Chunks(d)) \o x.chunk
<1>1. /\ Chunks(d) \in Seq(Seq(Blocks)) /\ x.chunk \in Seq(Blocks)
      /\ Chunks(Append(d, x)) = Append(Chunks(d), x.chunk)
  BY ChunksAppend
<1> QED
  BY <1>1, FlattenType, FlattenAppend

\* A part of a sequence with the next element, or with the rest, added.
LEMMA PartAppend ==
  ASSUME NEW T, NEW s \in Seq(T), NEW e \in T, NEW lo \in 1..Len(s) + 1
  PROVE  SubSeq(Append(s, e), lo, Len(s) + 1) = Append(SubSeq(s, lo, Len(s)), e)
  OBVIOUS

LEMMA PartStays ==
  ASSUME NEW T, NEW s \in Seq(T), NEW e \in T, NEW lo \in 1..Len(s) + 1,
         NEW hi \in 0..Len(s)
  PROVE  SubSeq(Append(s, e), lo, hi) = SubSeq(s, lo, hi)
  OBVIOUS

LEMMA SequencesAreEqual ==
  ASSUME NEW T, NEW s \in Seq(T), NEW t \in Seq(T), Len(s) = Len(t),
         \A i \in 1..Len(t) : s[i] = t[i]
  PROVE  s = t
<1>1. s = [i \in 1..Len(s) |-> s[i]] /\ t = [i \in 1..Len(t) |-> t[i]]
  OBVIOUS
<1> QED
  BY <1>1

LEMMA ConcatLength ==
  ASSUME NEW T, NEW a \in Seq(T), NEW b \in Seq(T)
  PROVE  a \o b \in Seq(T) /\ Len(a \o b) = Len(a) + Len(b)
  OBVIOUS

LEMMA ConcatElements ==
  ASSUME NEW T, NEW a \in Seq(T), NEW b \in Seq(T), NEW i \in Nat
  PROVE  /\ 1 <= i /\ i <= Len(a) => (a \o b)[i] = a[i]
         /\ Len(a) < i /\ i <= Len(a) + Len(b) => (a \o b)[i] = b[i - Len(a)]
  OBVIOUS

LEMMA PartsJoin ==
  ASSUME NEW T, NEW s \in Seq(T), NEW lo \in Nat \ {0}, NEW mid \in Nat, lo <= mid + 1,
         mid <= Len(s)
  PROVE  SubSeq(s, lo, mid) \o SubSeq(s, mid + 1, Len(s)) = SubSeq(s, lo, Len(s))
<1> DEFINE a == SubSeq(s, lo, mid)
           b == SubSeq(s, mid + 1, Len(s))
           c == SubSeq(s, lo, Len(s))
<1>1. /\ a \in Seq(T) /\ Len(a) = mid - lo + 1
      /\ \A i \in 1..Len(a) : a[i] = s[lo + i - 1]
  OBVIOUS
<1>2. /\ b \in Seq(T) /\ Len(b) = Len(s) - mid
      /\ \A i \in 1..Len(b) : b[i] = s[mid + i]
  OBVIOUS
<1>3. /\ c \in Seq(T) /\ Len(c) = Len(s) - lo + 1
      /\ \A i \in 1..Len(c) : c[i] = s[lo + i - 1]
  OBVIOUS
<1> HIDE DEF a, b, c
<1>0. Len(s) \in Nat /\ Len(a) \in Nat /\ Len(b) \in Nat
  BY <1>1, <1>2
<1>4. a \o b \in Seq(T) /\ Len(a \o b) = Len(c)
  <2>1. a \o b \in Seq(T) /\ Len(a \o b) = Len(a) + Len(b)
    BY <1>1, <1>2, ConcatLength
  <2> QED
    BY <1>0, <1>1, <1>2, <1>3, <2>1
<1>5. ASSUME NEW i \in 1..Len(c)
      PROVE  (a \o b)[i] = c[i]
  <2>0. i \in Nat /\ i >= 1
    BY <1>3
  <2>1. CASE i <= Len(a)
    <3>1. (a \o b)[i] = a[i]
      BY <1>1, <1>2, <2>0, <2>1, ConcatElements
    <3>2. i \in 1..Len(a)
      BY <1>0, <2>0, <2>1
    <3> QED
      BY <1>1, <1>3, <3>1, <3>2
  <2>2. CASE i > Len(a)
    <3>1. i - Len(a) \in 1..Len(b) /\ mid + (i - Len(a)) = lo + i - 1
      BY <1>0, <1>1, <1>2, <1>3, <2>0, <2>2
    <3>2. i <= Len(a) + Len(b) /\ Len(a) < i
      BY <1>0, <2>0, <2>2, <3>1
    <3>3. (a \o b)[i] = b[i - Len(a)]
      BY <1>1, <1>2, <2>0, <3>2, ConcatElements
    <3> QED
      BY <1>2, <1>3, <3>1, <3>3
  <2>3. i <= Len(a) \/ i > Len(a)
    BY <1>0, <2>0
  <2> QED
    BY <2>1, <2>2, <2>3
<1>6. a \o b = c
  BY <1>3, <1>4, <1>5, SequencesAreEqual
<1> QED
  BY <1>6 DEF a, b, c

LEMMA PartType ==
  ASSUME NEW T, NEW s \in Seq(T), NEW lo \in Nat \ {0}, NEW hi \in Nat, hi <= Len(s)
  PROVE  SubSeq(s, lo, hi) \in Seq(T)
  OBVIOUS

\* The same for chunks.
LEMMA ChunkPart ==
  ASSUME NEW all \in Seq(Seq(Blocks)), NEW c \in Seq(Blocks), NEW n, Len(all) = n,
         NEW lo \in 1..n + 1
  PROVE  /\ SubSeq(Append(all, c), lo, n + 1) = Append(SubSeq(all, lo, n), c)
         /\ SubSeq(all, lo, n) \in Seq(Seq(Blocks))
         /\ FlattenSeq(SubSeq(Append(all, c), lo, n + 1))
              = FlattenSeq(SubSeq(all, lo, n)) \o c
<1>1. SubSeq(Append(all, c), lo, Len(all) + 1) = Append(SubSeq(all, lo, Len(all)), c)
  BY PartAppend
<1>2. SubSeq(all, lo, n) \in Seq(Seq(Blocks))
  OBVIOUS
<1>3. FlattenSeq(Append(SubSeq(all, lo, n), c)) = FlattenSeq(SubSeq(all, lo, n)) \o c
  BY <1>2, FlattenAppend
<1> QED
  BY <1>1, <1>2, <1>3

\* The voiced chunks after one more.
LEMMA VoicedAppend ==
  ASSUME NEW d \in Seq(Decisions), NEW x \in Decisions
  PROVE  /\ VoicedOf(d) \subseteq 1..Len(d)
         /\ x.voice => VoicedOf(Append(d, x)) = VoicedOf(d) \union {Len(d) + 1}
         /\ ~x.voice => VoicedOf(Append(d, x)) = VoicedOf(d)
<1>1. /\ DOMAIN Append(d, x) = 1..Len(d) + 1 /\ DOMAIN d = 1..Len(d) /\ Len(d) \in Nat
      /\ \A i \in 1..Len(d) : Append(d, x)[i] = d[i]
      /\ Append(d, x)[Len(d) + 1] = x
  OBVIOUS
<1>2. 1..Len(d) + 1 = (1..Len(d)) \union {Len(d) + 1}
  BY <1>1
<1> QED
  BY <1>1, <1>2 DEF VoicedOf

\* FlattenSeq of a part that grows by one chunk, or by some.
LEMMA FlattenOne ==
  ASSUME NEW c \in Seq(Blocks)
  PROVE  FlattenSeq(<<c>>) = c /\ <<c>> \in Seq(Seq(Blocks))
  BY FlattenSingle

\* Cores that another chunk leaves.
LEMMA SpeaksAgain ==
  ASSUME NEW told \in Cores,
         NEW again, again = [told EXCEPT !.state = "InSpeech", !.silent = 0, !.tail = <<>>]
  PROVE  again \in Cores /\ again.state = "InSpeech" /\ again.silent = 0
<1>1. <<>> \in Seq(Seq(Blocks))
  OBVIOUS
<1>2. again \in Cores
  BY <1>1 DEF Cores
<1>3. DOMAIN told = {"state", "silent", "speech", "pre", "tail"}
  BY DEF Cores
<1> QED
  BY <1>2, <1>3

LEMMA SilenceCounts ==
  ASSUME NEW told \in Cores, NEW k \in Nat, NEW next,
         \/ next = [told EXCEPT !.state = "PossibleTail", !.silent = k, !.tail = <<>>]
         \/ next = [told EXCEPT !.silent = k]
  PROVE  next \in Cores /\ next.silent = k
<1>1. <<>> \in Seq(Seq(Blocks))
  OBVIOUS
<1>2. CASE next = [told EXCEPT !.state = "PossibleTail", !.silent = k, !.tail = <<>>]
  BY <1>1, <1>2 DEF Cores
<1>3. CASE next = [told EXCEPT !.silent = k]
  BY <1>3 DEF Cores
<1> QED
  BY <1>2, <1>3

LEMMA ChunkWaits ==
  ASSUME NEW told \in Cores, NEW pre \in Seq(Seq(Blocks)),
         NEW next, next = [told EXCEPT !.pre = pre]
  PROVE  /\ next \in Cores /\ next.state = told.state /\ next.silent = told.silent
         /\ next.pre = pre
  BY DEF Cores

LEMMA WaitsStep ==
  ASSUME NEW core \in Cores, NEW d \in Seq(Decisions), NEW x \in Decisions,
         NEW heard, CoreWaits(core, d, heard),
         NEW step, step = ProcessChunk(core, x.chunk, x.voice)
  PROVE  /\ step.core \in Cores /\ step.out \in Seq(Seq(Blocks))
         /\ CoreInv(step.core, Append(d, x), heard \o FlattenSeq(step.out))
<1> DEFINE n == Len(d)
           all == Chunks(d)
           c == x.chunk
           e == Append(d, x)
<1>1. /\ all \in Seq(Seq(Blocks)) /\ Len(all) = n /\ n \in Nat
      /\ Chunks(e) = Append(all, c) /\ c \in Seq(Blocks)
      /\ DOMAIN e = 1..n + 1 /\ Len(e) = n + 1 /\ e \in Seq(Decisions)
  BY ChunksAppend
<1>2. /\ core.state = "PreSpeech" /\ core.silent = 0 /\ core.pre = all
      /\ heard = <<>> /\ VoicedOf(d) = {}
  BY DEF CoreWaits
<1> HIDE DEF n, all, c, e
<1>3. CASE ~x.voice
  <2>1. /\ step.out = <<>> /\ step.core.state = "PreSpeech" /\ step.core.silent = 0
        /\ step.core.pre = Append(all, c) /\ step.core \in Cores
    <3>1. /\ step.out = <<>>
          /\ step.core = [[core EXCEPT !.speech = @ \/ x.voice]
                            EXCEPT !.pre = Append(all, c)]
      BY <1>2, <1>3 DEF ProcessChunk, ChunkBeforeSpeech, Cores, c
    <3>2. Append(all, c) \in Seq(Seq(Blocks)) /\ x.voice \in BOOLEAN
      BY <1>1 DEF Decisions
    <3> DEFINE pre == Append(all, c)
               told == [core EXCEPT !.speech = @ \/ x.voice]
    <3>3. told \in Cores /\ told.state = core.state /\ told.silent = core.silent
      BY <3>2 DEF Cores
    <3>4. pre \in Seq(Seq(Blocks)) /\ step.core = [told EXCEPT !.pre = pre]
      BY <3>1, <3>2
    <3> HIDE DEF pre, told
    <3>5. /\ step.core \in Cores /\ step.core.state = told.state
          /\ step.core.silent = told.silent /\ step.core.pre = pre
      BY <3>3, <3>4, ChunkWaits
    <3> QED
      BY <1>2, <3>1, <3>3, <3>5 DEF pre
  <2>2. heard \o FlattenSeq(step.out) = <<>> /\ step.out \in Seq(Seq(Blocks))
    BY <1>2, <2>1, FlattenEmpty
  <2>3. VoicedOf(e) = {}
    BY <1>2, <1>3, VoicedAppend DEF e
  <2> QED
    BY <1>1, <2>1, <2>2, <2>3 DEF CoreInv, CoreWaits, e
<1>4. CASE x.voice
  <2> DEFINE lo == SentFrom(n + 1)
  <2>1. lo \in 1..n + 1 /\ PreKept(all) = SubSeq(all, lo, n)
    <3>1. CASE n > PreSpeechKeep
      <4>1. Len(all) = n /\ n \in Nat /\ PreSpeechKeep \in Nat
        BY <1>1, TrimAssumption
      <4>2. lo = n - PreSpeechKeep + 1
        BY <3>1, <4>1 DEF SentFrom
      <4>3. lo \in 1..n + 1
        BY <3>1, <4>1, <4>2
      <4>4. PreKept(all) = SubSeq(all, lo, n)
        BY <3>1, <4>1, <4>2 DEF PreKept
      <4> QED
        BY <4>3, <4>4
    <3>2. CASE ~(n > PreSpeechKeep)
      <4>1. lo = 1
        BY <1>1, <3>2, TrimAssumption DEF SentFrom
      <4> QED
        BY <1>1, <3>2, <4>1, TrimAssumption DEF PreKept
    <3> QED
      BY <3>1, <3>2
  <2>2. /\ step.out = Append(PreKept(all), c) /\ step.core.state = "InSpeech"
        /\ step.core.silent = 0 /\ step.core \in Cores
    <3>1. /\ step.out = Append(PreKept(all), c)
          /\ step.core = [[core EXCEPT !.speech = @ \/ x.voice]
                            EXCEPT !.state = "InSpeech", !.pre = <<>>]
      BY <1>2, <1>4 DEF ProcessChunk, ChunkBeforeSpeech, Cores, c, Decisions
    <3>2. <<>> \in Seq(Seq(Blocks))
      OBVIOUS
    <3> QED
      BY <1>2, <1>4, <3>1, <3>2 DEF Cores
  <2>3. step.out = SubSeq(Chunks(e), lo, n + 1)
    <3> HIDE DEF lo
    <3> QED
      BY <1>1, <2>1, <2>2, ChunkPart
  <2>4. step.out \in Seq(Seq(Blocks))
    BY <1>1, <2>1, <2>2
  <2>5. heard \o FlattenSeq(step.out) = FlattenSeq(SubSeq(Chunks(e), lo, n + 1))
    <3>1. FlattenSeq(step.out) \in Seq(Blocks)
      BY <2>4, FlattenType
    <3> QED
      BY <1>2, <2>3, <3>1
  <2>6. Spans(e, n + 1, n + 1)
    <3>1. VoicedOf(e) = {n + 1}
      BY <1>2, <1>4, VoicedAppend DEF e, n
    <3> QED
      BY <1>1, <3>1 DEF Spans
  <2>7. CoreSends(step.core, e, heard \o FlattenSeq(step.out), n + 1, n + 1)
    BY <1>1, <2>2, <2>5, TrimAssumption DEF CoreSends
  <2>8. n + 1 \in DOMAIN e
    BY <1>1
  <2>9. CoreInv(step.core, e, heard \o FlattenSeq(step.out))
    BY <2>6, <2>7, <2>8 DEF CoreInv
  <2> QED
    BY <2>2, <2>4, <2>9 DEF e
<1> QED
  BY <1>3, <1>4 DEF Decisions

LEMMA SendsStep ==
  ASSUME NEW core \in Cores, NEW d \in Seq(Decisions), NEW x \in Decisions,
         NEW first \in DOMAIN d, NEW last \in DOMAIN d, Spans(d, first, last),
         NEW heard, CoreSends(core, d, heard, first, last),
         NEW step, step = ProcessChunk(core, x.chunk, x.voice)
  PROVE  /\ step.core \in Cores /\ step.out \in Seq(Seq(Blocks))
         /\ CoreInv(step.core, Append(d, x), heard \o FlattenSeq(step.out))
<1> DEFINE n == Len(d)
           all == Chunks(d)
           c == x.chunk
           e == Append(d, x)
           lo == SentFrom(first)
<1>1. /\ all \in Seq(Seq(Blocks)) /\ Len(all) = n /\ n \in Nat
      /\ Chunks(e) = Append(all, c) /\ c \in Seq(Blocks)
      /\ DOMAIN e = 1..n + 1 /\ Len(e) = n + 1 /\ e \in Seq(Decisions)
      /\ first \in 1..n /\ last \in 1..n
  BY ChunksAppend
<1>2. /\ core.state = "InSpeech" /\ core.silent = n - last
      /\ core.silent < TailSilentThreshold
      /\ heard = FlattenSeq(SubSeq(all, lo, n))
  BY DEF CoreSends
<1>3. lo \in 1..n
  BY <1>1, TrimAssumption DEF SentFrom
<1> HIDE DEF n, all, c, e, lo
<1> DEFINE silent == IF x.voice THEN 0 ELSE core.silent + 1
           final == IF x.voice THEN n + 1 ELSE last
<1>4. /\ step.out = <<c>>
      /\ step.core = IF silent >= TailSilentThreshold
                     THEN [[core EXCEPT !.speech = @ \/ x.voice]
                            EXCEPT !.state = "PossibleTail", !.silent = silent,
                                   !.tail = <<>>]
                     ELSE [[core EXCEPT !.speech = @ \/ x.voice] EXCEPT !.silent = silent]
  BY <1>2 DEF ProcessChunk, ChunkInSpeech, Cores, c
<1>5. silent \in Nat /\ x.voice \in BOOLEAN
  BY DEF Cores, Decisions
<1> HIDE DEF silent
<1>6. step.core \in Cores /\ step.core.silent = silent
  <2> DEFINE told == [core EXCEPT !.speech = @ \/ x.voice]
  <2>1. told \in Cores
    BY <1>5 DEF Cores
  <2>2. \/ step.core = [told EXCEPT !.state = "PossibleTail", !.silent = silent,
                                    !.tail = <<>>]
        \/ step.core = [told EXCEPT !.silent = silent]
    BY <1>4
  <2> HIDE DEF told
  <2> QED
    BY <1>5, <2>1, <2>2, SilenceCounts
<1>7. step.out \in Seq(Seq(Blocks)) /\ FlattenSeq(step.out) = c
  BY <1>1, <1>4, FlattenOne
<1>8. heard \o c = FlattenSeq(SubSeq(Chunks(e), lo, n + 1))
  <2>1. lo \in 1..n + 1
    BY <1>1, <1>3
  <2> QED
    BY <1>1, <1>2, <2>1, ChunkPart
<1>9. Spans(e, first, final)
  <2>0. n + 1 \in Nat /\ \A j \in 1..n : j <= n + 1 /\ j \in Int
    BY <1>1
  <2>1. /\ VoicedOf(d) \subseteq 1..n
        /\ x.voice => VoicedOf(e) = VoicedOf(d) \union {n + 1}
        /\ ~x.voice => VoicedOf(e) = VoicedOf(d)
    BY VoicedAppend DEF e, n
  <2>2. CASE x.voice
    <3>1. final = n + 1 /\ VoicedOf(e) = VoicedOf(d) \union {n + 1}
      BY <2>1, <2>2
    <3>2. first \in VoicedOf(d) /\ \A j \in VoicedOf(d) : first <= j
      BY DEF Spans
    <3>3. first <= n + 1 /\ \A j \in VoicedOf(d) : j <= n + 1
      BY <2>0, <2>1, <3>2
    <3>4. n + 1 <= n + 1
      BY <2>0
    <3> HIDE DEF final
    <3> QED
      BY <3>1, <3>2, <3>3, <3>4 DEF Spans
  <2>3. CASE ~x.voice
    BY <1>1, <2>1, <2>3 DEF Spans
  <2> QED
    BY <2>2, <2>3
<1>10. final \in 1..n + 1 /\ silent = (n + 1) - final
  <2>1. /\ n - last \in Int /\ (n - last) + 1 = (n + 1) - last
        /\ (n + 1) - (n + 1) = 0
        /\ n + 1 \in 1..n + 1 /\ last \in 1..n + 1
    <3>1. n \in Nat /\ last \in 1..n
      BY <1>1
    <3> QED
      BY <3>1
  <2>2. CASE x.voice
    BY <2>1, <2>2 DEF silent
  <2>3. CASE ~x.voice
    BY <1>2, <2>1, <2>3 DEF silent
  <2> QED
    BY <2>2, <2>3
<1> HIDE DEF final
<1>11. CASE silent < TailSilentThreshold
  <2>1. step.core.state = "InSpeech"
    BY <1>2, <1>4, <1>5, <1>11, TrimAssumption DEF Cores
  <2>2. CoreSends(step.core, e, heard \o c, first, final)
    BY <1>1, <1>6, <1>8, <1>10, <1>11, <2>1 DEF CoreSends, lo
  <2>3. first \in DOMAIN e /\ final \in DOMAIN e
    BY <1>1, <1>10
  <2>4. CoreInv(step.core, e, heard \o c)
    BY <1>9, <2>2, <2>3 DEF CoreInv
  <2> QED
    BY <1>6, <1>7, <2>4 DEF e
<1>12. CASE silent >= TailSilentThreshold
  <2>1. step.core.state = "PossibleTail" /\ step.core.tail = <<>>
    BY <1>4, <1>12 DEF Cores
  <2>2. silent = TailSilentThreshold
    BY <1>2, <1>5, <1>12, TrimAssumption DEF silent, Cores
  <2>3. final + TailSilentThreshold = n + 1
    <3>1. final \in Int /\ TailSilentThreshold \in Int /\ n \in Int
      BY <1>1, <1>10, TrimAssumption
    <3> QED
      BY <1>10, <2>2, <3>1
  <2>4. SubSeq(Chunks(e), n + 2, n + 1) = <<>>
    <3>1. Chunks(e) \in Seq(Seq(Blocks)) /\ Len(Chunks(e)) = n + 1
      BY <1>1
    <3> QED
      BY <1>1, <3>1
  <2>5. CoreKeepsTail(step.core, e, heard \o c, first, final)
    <3>1. final + TailSilentThreshold + 1 = n + 2 /\ Len(e) = n + 1
      <4>1. (n + 1) + 1 = n + 2
        BY <1>1
      <4> QED
        BY <1>1, <2>3, <4>1
    <3>2. /\ step.core.state = "PossibleTail" /\ final + TailSilentThreshold = n + 1
          /\ step.core.tail = SubSeq(Chunks(e), n + 2, n + 1)
          /\ heard \o c = FlattenSeq(SubSeq(Chunks(e), lo, n + 1))
      BY <1>8, <2>1, <2>3, <2>4
    <3>3. n + 1 <= Len(e)
      BY <1>1, <3>1
    <3>4. step.core.tail = SubSeq(Chunks(e), final + TailSilentThreshold + 1, Len(e))
      BY <3>1, <3>2
    <3> QED
      BY <3>2, <3>3, <3>4 DEF CoreKeepsTail, lo
  <2> QED
    <3>1. first \in DOMAIN e /\ final \in DOMAIN e
      BY <1>1, <1>10
    <3>2. CoreInv(step.core, e, heard \o c)
      BY <1>9, <2>5, <3>1 DEF CoreInv
    <3> QED
      BY <1>6, <1>7, <3>2 DEF e
<1> QED
  BY <1>5, <1>11, <1>12, TrimAssumption

LEMMA TailStep ==
  ASSUME NEW core \in Cores, NEW d \in Seq(Decisions), NEW x \in Decisions,
         NEW first \in DOMAIN d, NEW last \in DOMAIN d, Spans(d, first, last),
         NEW heard, CoreKeepsTail(core, d, heard, first, last),
         NEW step, step = ProcessChunk(core, x.chunk, x.voice)
  PROVE  /\ step.core \in Cores /\ step.out \in Seq(Seq(Blocks))
         /\ CoreInv(step.core, Append(d, x), heard \o FlattenSeq(step.out))
<1> DEFINE n == Len(d)
           all == Chunks(d)
           c == x.chunk
           e == Append(d, x)
           lo == SentFrom(first)
           mid == last + TailSilentThreshold
           tail == Append(core.tail, c)
<1>1. /\ all \in Seq(Seq(Blocks)) /\ Len(all) = n /\ n \in Nat
      /\ Chunks(e) = Append(all, c) /\ c \in Seq(Blocks)
      /\ DOMAIN e = 1..n + 1 /\ Len(e) = n + 1 /\ e \in Seq(Decisions)
      /\ first \in 1..n /\ last \in 1..n /\ first <= last
  BY ChunksAppend DEF Spans
<1>2. /\ core.state = "PossibleTail" /\ mid <= n
      /\ core.tail = SubSeq(all, mid + 1, n)
      /\ heard = FlattenSeq(SubSeq(all, lo, mid))
  BY DEF CoreKeepsTail
<1>3. lo \in 1..n /\ mid \in 1..n /\ lo <= mid /\ mid + 1 \in 1..n + 1
  <2>1. TailSilentThreshold \in Nat \ {0} /\ PreSpeechKeep \in Nat
    BY TrimAssumption
  <2>2. first \in 1..n /\ last \in 1..n /\ first <= last /\ n \in Nat
    BY <1>1
  <2>3. lo \in 1..n /\ lo <= first
    BY <2>1, <2>2 DEF SentFrom
  <2>4. mid \in 1..n /\ first <= mid
    BY <1>2, <2>1, <2>2
  <2> HIDE DEF lo, mid
  <2>5. lo <= mid /\ mid + 1 \in 1..n + 1
    BY <2>2, <2>3, <2>4
  <2> QED
    BY <2>3, <2>4, <2>5
<1> HIDE DEF n, all, c, e, lo, mid
<1>4. Chunks(e) \in Seq(Seq(Blocks)) /\ Len(Chunks(e)) = n + 1
  BY <1>1
<1>5. tail = SubSeq(Chunks(e), mid + 1, n + 1)
  BY <1>1, <1>2, <1>3, ChunkPart
<1>6. heard = FlattenSeq(SubSeq(Chunks(e), lo, mid))
  <2>1. SubSeq(Append(all, c), lo, mid) = SubSeq(all, lo, mid)
    BY <1>1, <1>3, PartStays
  <2> QED
    BY <1>1, <1>2, <2>1
<1>7. tail \in Seq(Seq(Blocks))
  BY <1>1, <1>2, <1>3, ChunkPart
<1>8. x.voice \in BOOLEAN
  BY DEF Decisions
<1> HIDE DEF tail
<1>9. CASE x.voice
  <2>1. /\ step.out = tail
        /\ step.core = [[core EXCEPT !.speech = @ \/ x.voice]
                          EXCEPT !.state = "InSpeech", !.silent = 0, !.tail = <<>>]
    BY <1>2, <1>9 DEF ProcessChunk, ChunkInTail, Cores, c, tail
  <2>2. step.core \in Cores /\ step.core.state = "InSpeech" /\ step.core.silent = 0
    <3>1. <<>> \in Seq(Seq(Blocks))
      OBVIOUS
    <3> DEFINE told == [core EXCEPT !.speech = @ \/ x.voice]
    <3>2. told \in Cores
      BY <1>8 DEF Cores
    <3>3. step.core = [told EXCEPT !.state = "InSpeech", !.silent = 0, !.tail = <<>>]
      BY <2>1
    <3> HIDE DEF told
    <3> QED
      BY <3>2, <3>3, SpeaksAgain
  <2>3. heard \o FlattenSeq(tail) = FlattenSeq(SubSeq(Chunks(e), lo, n + 1))
    <3>1. SubSeq(Chunks(e), lo, mid) \o SubSeq(Chunks(e), mid + 1, n + 1)
            = SubSeq(Chunks(e), lo, n + 1)
      <4>1. lo \in Nat \ {0} /\ mid \in Nat /\ lo <= mid + 1 /\ mid <= n + 1
        BY <1>1, <1>3
      <4> QED
        BY <1>4, <4>1, PartsJoin
    <3>2. SubSeq(Chunks(e), lo, mid) \in Seq(Seq(Blocks))
      <4>1. lo \in Nat \ {0} /\ mid \in Nat /\ mid <= n + 1
        BY <1>1, <1>3
      <4> QED
        BY <1>4, <4>1, PartType
    <3>3. FlattenSeq(SubSeq(Chunks(e), lo, mid) \o tail)
            = FlattenSeq(SubSeq(Chunks(e), lo, mid)) \o FlattenSeq(tail)
      BY <1>7, <3>2, FlattenConcat
    <3>4. heard \o FlattenSeq(tail) = FlattenSeq(SubSeq(Chunks(e), lo, mid) \o tail)
      BY <1>6, <3>3
    <3>5. SubSeq(Chunks(e), lo, mid) \o tail = SubSeq(Chunks(e), lo, n + 1)
      BY <1>5, <3>1
    <3> QED
      BY <3>4, <3>5
  <2>4. Spans(e, first, n + 1)
    <3>1. /\ VoicedOf(d) \subseteq 1..n
          /\ VoicedOf(e) = VoicedOf(d) \union {n + 1}
      BY <1>9, VoicedAppend DEF e, n
    <3>2. first \in VoicedOf(d) /\ \A j \in VoicedOf(d) : first <= j
      BY DEF Spans
    <3>3. n \in Nat /\ first \in 1..n
      BY <1>1
    <3>4. first <= n + 1 /\ n + 1 <= n + 1 /\ \A j \in VoicedOf(d) : j <= n + 1
      BY <3>1, <3>3
    <3> QED
      BY <3>1, <3>2, <3>4 DEF Spans
  <2>5. CoreSends(step.core, e, heard \o FlattenSeq(tail), first, n + 1)
    <3>1. (n + 1) - (n + 1) = 0 /\ 0 < TailSilentThreshold
      BY <1>1, TrimAssumption
    <3> QED
      BY <1>1, <2>2, <2>3, <3>1 DEF CoreSends, lo
  <2>6. first \in DOMAIN e /\ n + 1 \in DOMAIN e
    BY <1>1
  <2>7. CoreInv(step.core, e, heard \o FlattenSeq(tail))
    BY <2>4, <2>5, <2>6 DEF CoreInv
  <2> QED
    BY <1>7, <2>1, <2>2, <2>7 DEF e
<1>10. CASE ~x.voice
  <2>1. /\ step.out = <<>>
        /\ step.core = [[core EXCEPT !.speech = @ \/ x.voice] EXCEPT !.tail = tail]
    BY <1>2, <1>10 DEF ProcessChunk, ChunkInTail, Cores, c, tail
  <2>2. step.core \in Cores /\ step.core.state = "PossibleTail" /\ step.core.tail = tail
    BY <1>2, <1>7, <1>8, <2>1 DEF Cores
  <2>3. heard \o FlattenSeq(step.out) = heard /\ step.out \in Seq(Seq(Blocks))
    <3>1. SubSeq(Chunks(e), lo, mid) \in Seq(Seq(Blocks))
      <4>1. lo \in Nat \ {0} /\ mid \in Nat /\ mid <= n + 1
        BY <1>1, <1>3
      <4> QED
        BY <1>4, <4>1, PartType
    <3>2. heard \in Seq(Blocks)
      BY <1>6, <3>1, FlattenType
    <3>3. <<>> \in Seq(Seq(Blocks)) /\ heard \o <<>> = heard
      BY <3>2
    <3> QED
      BY <2>1, <3>3, FlattenEmpty
  <2>4. Spans(e, first, last)
    <3>1. VoicedOf(e) = VoicedOf(d)
      BY <1>10, VoicedAppend DEF e
    <3> QED
      BY <3>1 DEF Spans
  <2>5. CoreKeepsTail(step.core, e, heard, first, last)
    <3>1. mid <= n + 1
      BY <1>1, <1>3
    <3> QED
      BY <1>1, <1>5, <1>6, <2>2, <3>1 DEF CoreKeepsTail, lo, mid
  <2>6. first \in DOMAIN e /\ last \in DOMAIN e
    BY <1>1
  <2>7. CoreInv(step.core, e, heard)
    BY <2>4, <2>5, <2>6 DEF CoreInv
  <2> QED
    BY <2>2, <2>3, <2>7 DEF e
<1> QED
  BY <1>8, <1>9, <1>10

LEMMA CoreStep ==
  ASSUME NEW core \in Cores, NEW d \in Seq(Decisions), NEW x \in Decisions,
         NEW heard, CoreInv(core, d, heard),
         NEW step, step = ProcessChunk(core, x.chunk, x.voice)
  PROVE  /\ step.core \in Cores /\ step.out \in Seq(Seq(Blocks))
         /\ CoreInv(step.core, Append(d, x), heard \o FlattenSeq(step.out))
<1>1. CASE CoreWaits(core, d, heard)
  BY <1>1, WaitsStep
<1>2. ASSUME NEW first \in DOMAIN d, NEW last \in DOMAIN d, Spans(d, first, last),
             CoreSends(core, d, heard, first, last)
      PROVE  /\ step.core \in Cores /\ step.out \in Seq(Seq(Blocks))
             /\ CoreInv(step.core, Append(d, x), heard \o FlattenSeq(step.out))
  BY <1>2, SendsStep
<1>3. ASSUME NEW first \in DOMAIN d, NEW last \in DOMAIN d, Spans(d, first, last),
             CoreKeepsTail(core, d, heard, first, last)
      PROVE  /\ step.core \in Cores /\ step.out \in Seq(Seq(Blocks))
             /\ CoreInv(step.core, Append(d, x), heard \o FlattenSeq(step.out))
  BY <1>3, TailStep
<1> QED
  BY <1>1, <1>2, <1>3 DEF CoreInv

\* Whatever its state, the core stays one.
LEMMA CoreType ==
  ASSUME NEW core \in Cores, NEW chunk \in Seq(Blocks), NEW voice \in BOOLEAN,
         NEW step, step = ProcessChunk(core, chunk, voice)
  PROVE  step.core \in Cores /\ step.out \in Seq(Seq(Blocks))
<1> DEFINE heard == [core EXCEPT !.speech = @ \/ voice]
<1>1. heard \in Cores /\ heard.state = core.state
  BY DEF Cores
<1>2. \/ step = ChunkBeforeSpeech(heard, chunk, voice)
      \/ step = ChunkInSpeech(heard, chunk, voice)
      \/ step = ChunkInTail(heard, chunk, voice)
  BY <1>1 DEF ProcessChunk, Cores
<1> HIDE DEF heard
<1>3. /\ heard.pre \in Seq(Seq(Blocks)) /\ heard.tail \in Seq(Seq(Blocks))
      /\ heard.silent \in Nat
  BY <1>1 DEF Cores
<1>4. PreKept(heard.pre) \in Seq(Seq(Blocks)) /\ <<>> \in Seq(Seq(Blocks))
  <2>1. SubSeq(heard.pre, 1, Len(heard.pre)) \in Seq(Seq(Blocks))
    BY <1>3
  <2>2. Len(heard.pre) > PreSpeechKeep =>
          Len(heard.pre) - PreSpeechKeep + 1 \in Nat \ {0} /\ Len(heard.pre) \in Nat
    BY <1>3, TrimAssumption
  <2> QED
    BY <1>3, <2>1, <2>2, PartType DEF PreKept
<1>5. /\ \A q \in Seq(Seq(Blocks)) : /\ [heard EXCEPT !.pre = q] \in Cores
                                     /\ [heard EXCEPT !.tail = q] \in Cores
      /\ \A k \in Nat : /\ [heard EXCEPT !.silent = k] \in Cores
                        /\ [heard EXCEPT !.state = "PossibleTail", !.silent = k,
                                         !.tail = <<>>] \in Cores
      /\ [heard EXCEPT !.state = "InSpeech", !.pre = <<>>] \in Cores
      /\ [heard EXCEPT !.state = "InSpeech", !.silent = 0, !.tail = <<>>] \in Cores
  BY <1>1, <1>4 DEF Cores
<1>6. /\ \A q \in Seq(Seq(Blocks)) : Append(q, chunk) \in Seq(Seq(Blocks))
      /\ <<chunk>> \in Seq(Seq(Blocks))
  OBVIOUS
<1>7. CASE step = ChunkBeforeSpeech(heard, chunk, voice)
  <2>1. CASE voice
    <3>1. /\ step.core = [heard EXCEPT !.state = "InSpeech", !.pre = <<>>]
          /\ step.out = Append(PreKept(heard.pre), chunk)
      BY <1>7, <2>1 DEF ChunkBeforeSpeech
    <3> QED
      BY <1>4, <1>5, <1>6, <3>1
  <2>2. CASE ~voice
    <3>1. /\ step.core = [heard EXCEPT !.pre = Append(heard.pre, chunk)]
          /\ step.out = <<>>
      BY <1>7, <2>2 DEF ChunkBeforeSpeech
    <3> QED
      BY <1>3, <1>4, <1>5, <1>6, <3>1
  <2> QED
    BY <2>1, <2>2
<1>8. CASE step = ChunkInSpeech(heard, chunk, voice)
  <2>1. step.out = <<chunk>>
    BY <1>8 DEF ChunkInSpeech
  <2>2. PICK k \in Nat :
          \/ step.core = [heard EXCEPT !.state = "PossibleTail", !.silent = k,
                                       !.tail = <<>>]
          \/ step.core = [heard EXCEPT !.silent = k]
    <3> DEFINE k == IF voice THEN 0 ELSE heard.silent + 1
    <3>1. k \in Nat
      BY <1>3
    <3>2. \/ step.core = [heard EXCEPT !.state = "PossibleTail", !.silent = k,
                                       !.tail = <<>>]
          \/ step.core = [heard EXCEPT !.silent = k]
      BY <1>8 DEF ChunkInSpeech
    <3> HIDE DEF k
    <3> QED
      BY <3>1, <3>2
  <2> QED
    BY <1>5, <1>6, <2>1, <2>2
<1>9. CASE step = ChunkInTail(heard, chunk, voice)
  <2>1. Append(heard.tail, chunk) \in Seq(Seq(Blocks))
    BY <1>3, <1>6
  <2>2. CASE voice
    <3>1. /\ step.core = [heard EXCEPT !.state = "InSpeech", !.silent = 0, !.tail = <<>>]
          /\ step.out = Append(heard.tail, chunk)
      BY <1>9, <2>2 DEF ChunkInTail
    <3> QED
      BY <1>5, <2>1, <3>1
  <2>3. CASE ~voice
    <3>1. /\ step.core = [heard EXCEPT !.tail = Append(heard.tail, chunk)]
          /\ step.out = <<>>
      BY <1>9, <2>3 DEF ChunkInTail
    <3> QED
      BY <1>4, <1>5, <2>1, <3>1
  <2> QED
    BY <2>2, <2>3
<1> QED
  BY <1>2, <1>7, <1>8, <1>9

(***************************************************************************)
(* What the trimmer has sent is what it promised.                          *)
(***************************************************************************)

\* A sequence of chunks that are blank before lo and after hi.
LEMMA FlattenMiddle ==
  ASSUME NEW mask \in Seq(Seq(Blocks)), NEW lo \in Nat \ {0}, NEW hi \in Nat,
         lo <= hi + 1, hi <= Len(mask),
         \A i \in 1..Len(mask) : i < lo \/ i > hi => mask[i] = <<>>
  PROVE  FlattenSeq(mask) = FlattenSeq(SubSeq(mask, lo, hi))
<1> DEFINE n == Len(mask)
           before == SubSeq(mask, 1, lo - 1)
           rest == SubSeq(mask, lo, n)
           kept == SubSeq(mask, lo, hi)
           after == SubSeq(mask, hi + 1, n)
<1>1. n \in Nat /\ lo - 1 \in Nat /\ (lo - 1) + 1 = lo /\ hi + 1 \in Nat \ {0}
  OBVIOUS
<1>2. /\ before \in Seq(Seq(Blocks)) /\ Len(before) = lo - 1
      /\ \A i \in 1..Len(before) : before[i] = mask[i]
  OBVIOUS
<1>3. /\ after \in Seq(Seq(Blocks)) /\ Len(after) = n - hi
      /\ \A i \in 1..Len(after) : after[i] = mask[hi + i]
  OBVIOUS
<1>4. rest \in Seq(Seq(Blocks)) /\ kept \in Seq(Seq(Blocks))
  BY <1>1, PartType
<1>5. FlattenSeq(before) = <<>>
  <2>1. \A i \in 1..Len(before) : before[i] = <<>>
    BY <1>2
  <2> QED
    BY <1>2, <2>1, FlattenBlank
<1>6. FlattenSeq(after) = <<>>
  <2>1. \A i \in 1..Len(after) : hi + i \in 1..n /\ hi + i > hi
    BY <1>3
  <2>2. \A i \in 1..Len(after) : after[i] = <<>>
    BY <1>3, <2>1
  <2> QED
    BY <1>3, <2>2, FlattenBlank
<1>7. before \o rest = mask
  <2>1. before \o SubSeq(mask, (lo - 1) + 1, n) = SubSeq(mask, 1, n)
    <3>1. 1 \in Nat \ {0} /\ 1 <= (lo - 1) + 1 /\ lo - 1 <= n
      OBVIOUS
    <3> QED
      BY <1>1, <3>1, PartsJoin
  <2>2. SubSeq(mask, 1, n) = mask
    OBVIOUS
  <2> QED
    BY <1>1, <2>1, <2>2
<1>8. kept \o after = rest
  BY PartsJoin
<1> HIDE DEF before, rest, kept, after
<1>9. /\ FlattenSeq(before \o rest) = FlattenSeq(before) \o FlattenSeq(rest)
      /\ FlattenSeq(kept \o after) = FlattenSeq(kept) \o FlattenSeq(after)
  BY <1>2, <1>3, <1>4, FlattenConcat
<1>10. FlattenSeq(rest) \in Seq(Blocks) /\ FlattenSeq(kept) \in Seq(Blocks)
  BY <1>4, FlattenType
<1>11. /\ <<>> \o FlattenSeq(rest) = FlattenSeq(rest)
       /\ FlattenSeq(kept) \o <<>> = FlattenSeq(kept)
  BY <1>10
<1> QED
  BY <1>5, <1>6, <1>7, <1>8, <1>9, <1>11 DEF kept

LEMMA PartIs ==
  ASSUME NEW s \in Seq(Seq(Blocks)), NEW lo \in Nat \ {0}, NEW hi \in Nat,
         lo <= hi, hi <= Len(s)
  PROVE  /\ SubSeq(s, lo, hi) \in Seq(Seq(Blocks))
         /\ Len(SubSeq(s, lo, hi)) = hi - lo + 1
         /\ \A i \in 1..hi - lo + 1 : SubSeq(s, lo, hi)[i] = s[lo + i - 1]
<1>1. SubSeq(s, lo, hi) \in Seq(Seq(Blocks))
  BY PartType
<1>2. SubSeq(s, lo, hi) = [i \in 1..hi - lo + 1 |-> s[lo + i - 1]]
  OBVIOUS
<1>3. hi - lo + 1 \in Nat
  OBVIOUS
<1>4. Len([i \in 1..hi - lo + 1 |-> s[lo + i - 1]]) = hi - lo + 1
  BY <1>3
<1> QED
  BY <1>1, <1>2, <1>4

LEMMA KeptIs ==
  ASSUME NEW d \in Seq(Decisions), NEW first \in DOMAIN d, NEW last \in DOMAIN d,
         Spans(d, first, last),
         NEW hi, hi = IF last + TailSilentThreshold <= Len(d)
                      THEN last + TailSilentThreshold ELSE Len(d)
  PROVE  Kept(d) = FlattenSeq(SubSeq(Chunks(d), SentFrom(first), hi))
<1> DEFINE n == Len(d)
           all == Chunks(d)
           lo == SentFrom(first)
           voiced == VoicedOf(d)
           one == CHOOSE i \in voiced : \A j \in voiced : i <= j
           final == CHOOSE i \in voiced : \A j \in voiced : i >= j
           kept == {i \in DOMAIN d : /\ i >= first - PreSpeechKeep
                                     /\ i <= last + TailSilentThreshold}
           mask == [i \in DOMAIN d |-> IF i \in kept THEN d[i].chunk ELSE <<>>]
<1>1. /\ n \in Nat /\ DOMAIN d = 1..n /\ voiced \subseteq 1..n
      /\ first \in 1..n /\ last \in 1..n /\ first <= last
      /\ PreSpeechKeep \in Nat /\ TailSilentThreshold \in Nat \ {0}
  BY TrimAssumption DEF VoicedOf, Spans
<1>2. /\ first \in voiced /\ last \in voiced
      /\ \A j \in voiced : first <= j /\ j <= last
  BY DEF Spans
<1>13. /\ one \in voiced /\ \A j \in voiced : one <= j
      /\ final \in voiced /\ \A j \in voiced : final >= j
  <2>1. \A j \in voiced : last >= j
    BY <1>1, <1>2
  <2>2. one \in voiced /\ \A j \in voiced : one <= j
    BY <1>2
  <2>3. final \in voiced /\ \A j \in voiced : final >= j
    BY <1>2, <2>1
  <2> QED
    BY <2>2, <2>3
<1> HIDE DEF one, final, voiced, mask
<1>3. one = first
  <2>1. one <= first /\ first <= one /\ one \in 1..n
    BY <1>1, <1>2, <1>13
  <2> HIDE DEF n
  <2>2. one \in Nat /\ first \in Nat
    BY <1>1, <2>1
  <2> QED
    BY <2>1, <2>2
<1>4. final = last
  <2>1. final >= last /\ last >= final /\ final \in 1..n
    BY <1>1, <1>2, <1>13
  <2> HIDE DEF n
  <2>2. final \in Nat /\ last \in Nat
    BY <1>1, <2>1
  <2> QED
    BY <2>1, <2>2
<1>5. voiced # {}
  BY <1>2
<1>6. Kept(d) = FlattenSeq(mask)
  BY <1>3, <1>4, <1>5 DEF Kept, VoicedOf, one, final, voiced, mask
<1>7. /\ lo \in 1..n /\ hi \in 1..n /\ lo <= hi /\ lo <= hi + 1
      /\ \A i \in 1..n : i \in kept <=> lo <= i /\ i <= hi
  <2> HIDE DEF n
  <2>1. hi = IF last + TailSilentThreshold <= n THEN last + TailSilentThreshold ELSE n
    BY DEF n
  <2> QED
    BY <1>1, <2>1 DEF SentFrom
<1>8. all \in Seq(Seq(Blocks)) /\ Len(all) = n /\ \A i \in 1..n : all[i] = d[i].chunk
  <2>1. \A y \in Decisions : y.chunk \in Seq(Blocks)
    BY DEF Decisions
  <2>2. \A i \in 1..n : d[i] \in Decisions
    BY DEF n
  <2>3. \A i \in 1..n : d[i].chunk \in Seq(Blocks)
    BY <2>1, <2>2
  <2>4. all = [i \in 1..n |-> d[i].chunk]
    BY <1>1 DEF Chunks
  <2> HIDE DEF all, n
  <2> QED
    BY <1>1, <2>3, <2>4
<1> HIDE DEF n, lo, kept, all
<1>9. /\ mask = [i \in 1..n |-> IF i \in kept THEN all[i] ELSE <<>>]
      /\ mask \in Seq(Seq(Blocks)) /\ Len(mask) = n
  <2>1. mask = [i \in 1..n |-> IF i \in kept THEN all[i] ELSE <<>>]
    BY <1>1, <1>8 DEF mask
  <2>2. \A i \in 1..n : all[i] \in Seq(Blocks)
    BY <1>8
  <2> QED
    BY <1>1, <2>1, <2>2
<1>10. /\ \A i \in 1..n : i < lo \/ i > hi => mask[i] = <<>>
       /\ \A i \in lo..hi : mask[i] = all[i]
  <2>1. /\ \A i \in 1..n : i < lo \/ i > hi => i \notin kept
        /\ \A i \in lo..hi : i \in kept /\ i \in 1..n
    BY <1>1, <1>7
  <2> QED
    BY <1>9, <2>1
<1>11. FlattenSeq(mask) = FlattenSeq(SubSeq(mask, lo, hi))
  <2>1. lo \in Nat \ {0} /\ hi \in Nat /\ lo <= hi + 1 /\ hi <= Len(mask)
    BY <1>1, <1>7, <1>9
  <2> QED
    BY <1>9, <1>10, <2>1, FlattenMiddle
<1>12. SubSeq(mask, lo, hi) = SubSeq(all, lo, hi)
  <2> DEFINE m == SubSeq(mask, lo, hi)
             a == SubSeq(all, lo, hi)
  <2>0. lo \in Nat \ {0} /\ hi \in Nat /\ lo <= hi /\ hi <= Len(mask) /\ hi <= Len(all)
    BY <1>1, <1>7, <1>8, <1>9
  <2>4. /\ m \in Seq(Seq(Blocks)) /\ Len(m) = hi - lo + 1
        /\ \A i \in 1..hi - lo + 1 : m[i] = mask[lo + i - 1]
    BY <1>9, <2>0, PartIs
  <2>5. /\ a \in Seq(Seq(Blocks)) /\ Len(a) = hi - lo + 1
        /\ \A i \in 1..hi - lo + 1 : a[i] = all[lo + i - 1]
    BY <1>8, <2>0, PartIs
  <2> HIDE DEF m, a
  <2>2. \A i \in 1..hi - lo + 1 : lo + i - 1 \in lo..hi
    BY <1>1, <1>7
  <2>3. \A i \in 1..Len(a) : m[i] = a[i]
    BY <1>10, <2>2, <2>4, <2>5
  <2>6. m = a
    BY <2>3, <2>4, <2>5, SequencesAreEqual
  <2> QED
    BY <2>6 DEF m, a
<1> QED
  BY <1>6, <1>11, <1>12 DEF all, lo

LEMMA HeardIsKept ==
  ASSUME NEW core, NEW d \in Seq(Decisions), NEW heard, CoreInv(core, d, heard)
  PROVE  heard = Kept(d)
<1>1. CASE CoreWaits(core, d, heard)
  <2>1. {i \in DOMAIN d : d[i].voice} = {} /\ heard = <<>>
    BY <1>1 DEF CoreWaits, VoicedOf
  <2> QED
    BY <2>1 DEF Kept
<1>2. ASSUME NEW first \in DOMAIN d, NEW last \in DOMAIN d, Spans(d, first, last),
             CoreSends(core, d, heard, first, last)
      PROVE  heard = Kept(d)
  <2>1. Len(d) \in Nat /\ first \in 1..Len(d) /\ last \in 1..Len(d)
    OBVIOUS
  <2>2. ~(last + TailSilentThreshold <= Len(d)) \/ last + TailSilentThreshold = Len(d)
    BY <1>2, <2>1, TrimAssumption DEF CoreSends
  <2>3. heard = FlattenSeq(SubSeq(Chunks(d), SentFrom(first), Len(d)))
    BY <1>2 DEF CoreSends
  <2>4. Kept(d) = FlattenSeq(SubSeq(Chunks(d), SentFrom(first), Len(d)))
    BY <1>2, <2>2, KeptIs
  <2> QED
    BY <2>3, <2>4
<1>3. ASSUME NEW first \in DOMAIN d, NEW last \in DOMAIN d, Spans(d, first, last),
             CoreKeepsTail(core, d, heard, first, last)
      PROVE  heard = Kept(d)
  BY <1>3, KeptIs DEF CoreKeepsTail
<1> QED
  BY <1>1, <1>2, <1>3 DEF CoreInv

---------------------------------------------------------------------------
(***************************************************************************)
(* What a session was given, and what was captured.                        *)
(***************************************************************************)

Sessions ==
  [on : BOOLEAN, running : BOOLEAN, open : BOOLEAN, heard : Seq(Blocks),
   due : Seq(Blocks)]
TypedTrimmers == [active : BOOLEAN, core : Cores, decided : Seq(Decisions)]

\* What the session s, or the trimmer t in front of it, was given.
Given(s, t) == IF t.active THEN FlattenSeq(Chunks(t.decided)) ELSE s.heard

Follows(s, t, pcm) ==
  /\ IsPrefix(Given(s, t), pcm)
  /\ s.running => Given(s, t) = pcm
  /\ t.active => CoreInv(t.core, t.decided, s.heard)

Hears(s, t, pcm) ==
  /\ s.on /\ s.open => Follows(s, t, pcm)
  /\ s.on /\ ~s.open => s.heard = s.due

\* Before its session, while a recording is closed at its end, and while
\* there is somebody to listen.
Early(place) == place \in {"detached", "opened", "built"}
AtTheClose(m) == m.at = "closing" /\ m.next = "stopped"
Attended(m) == m.at \in {"recording", "stopped"} \/ AtTheClose(m)

HearType == session \in Sessions /\ trimmer \in TypedTrimmers

HearInv ==
  /\ HearType
  /\ Early(main.at) =>
       ~session.on /\ trimmer.decided = <<>> /\ trimmer.core = FreshCore
  /\ session.on /\ session.open => Attended(main)
  /\ AtTheClose(main) => suppressed /\ audio = <<>>
  /\ Hears(session, trimmer, Captured)

LEMMA PrefixOfItself ==
  ASSUME NEW s \in Seq(Blocks)
  PROVE  IsPrefix(s, s)
  BY DEF IsPrefix

LEMMA PrefixStays ==
  ASSUME NEW s \in Seq(Blocks), NEW t \in Seq(Blocks), NEW e \in Blocks, IsPrefix(s, t)
  PROVE  IsPrefix(s, Append(t, e))
<1>1. Len(s) <= Len(t) /\ SubSeq(s, 1, Len(s)) = SubSeq(t, 1, Len(s))
  BY DEF IsPrefix
<1>2. SubSeq(Append(t, e), 1, Len(s)) = SubSeq(t, 1, Len(s))
  BY <1>1
<1>3. Len(Append(t, e)) = Len(t) + 1
  OBVIOUS
<1> QED
  BY <1>1, <1>2, <1>3 DEF IsPrefix

\* Fresh and final records are typed.
LEMMA HearingTypes ==
  /\ FreshCore \in Cores
  /\ \A c \in Cores : FinishTrim(c) \in Cores
  /\ NoSession \in Sessions /\ ~NoSession.on
  /\ NewSession \in Sessions /\ NewSession.on /\ NewSession.open /\ NewSession.running
  /\ NewSession.heard = <<>>
  /\ NoTrimmer \in TypedTrimmers /\ NoTrimmer.decided = <<>> /\ NoTrimmer.core = FreshCore
<1>1. <<>> \in Seq(Blocks) /\ <<>> \in Seq(Seq(Blocks)) /\ <<>> \in Seq(Decisions)
  OBVIOUS
<1>2. FreshCore \in Cores
  BY <1>1 DEF FreshCore, Cores
<1>3. \A c \in Cores : FinishTrim(c) \in Cores
  BY <1>1 DEF FinishTrim, Cores
<1>4. NoSession \in Sessions /\ ~NoSession.on
  BY <1>1 DEF NoSession, Sessions
<1>5. /\ NewSession \in Sessions /\ NewSession.on /\ NewSession.open /\ NewSession.running
      /\ NewSession.heard = <<>>
  BY <1>1 DEF NoSession, NewSession, Sessions
<1>6. NoTrimmer \in TypedTrimmers /\ NoTrimmer.decided = <<>> /\ NoTrimmer.core = FreshCore
  BY <1>1, <1>2 DEF NoTrimmer, TypedTrimmers
<1> QED
  BY <1>2, <1>3, <1>4, <1>5, <1>6

LEMMA CapturedType ==
  ASSUME TypeInv
  PROVE  Captured \in Seq(Blocks)
<1>1. audio \in Seq(Blocks) /\ main.pcm \in Seq(Blocks)
  BY DEF TypeInv, Mains
<1>2. main.pcm \o audio \in Seq(Blocks)
  BY <1>1
<1> QED
  BY <1>1, <1>2 DEF Captured

LEMMA EnqueueType ==
  ASSUME NEW s \in Sessions, NEW blocks \in Seq(Blocks)
  PROVE  /\ EnqueuePcmChunk(s, blocks) \in Sessions
         /\ EnqueuePcmChunk(s, blocks).on = s.on /\ EnqueuePcmChunk(s, blocks).open = s.open
         /\ EnqueuePcmChunk(s, blocks).running = s.running
         /\ EnqueuePcmChunk(s, blocks).due = s.due
         /\ s.open => EnqueuePcmChunk(s, blocks).heard = s.heard \o blocks
         /\ ~s.open => EnqueuePcmChunk(s, blocks) = s
<1>1. s.heard \o blocks \in Seq(Blocks)
  BY DEF Sessions
<1> QED
  BY <1>1 DEF EnqueuePcmChunk, Sessions

(***************************************************************************)
(* A step that leaves session and trimmer alone.                           *)
(***************************************************************************)

LEMMA HearingRests ==
  ASSUME HearInv, UNCHANGED <<session, trimmer>>,
         Early(main.at)' => Early(main.at),
         session.on /\ session.open => Attended(main)' /\ Captured' = Captured,
         AtTheClose(main)' => suppressed' /\ audio' = <<>>
  PROVE  HearInv'
<1>1. Hears(session, trimmer, Captured)'
  BY DEF HearInv, Hears
<1> QED
  BY <1>1 DEF HearInv, HearType, Early, AtTheClose, Attended

\* The main thread, the audio and the suppression rest as well.
LEMMA HearingUnmoved ==
  ASSUME HearInv, UNCHANGED <<session, trimmer, main, suppressed, audio>>
  PROVE  HearInv'
<1>1. Captured' = Captured
  BY DEF Captured
<1> QED
  BY <1>1 DEF HearInv, Hears, HearType, Early, AtTheClose, Attended

\* The main thread goes from one place to another without a session.
LEMMA HearingUnheard ==
  ASSUME HearInv, UNCHANGED <<session, trimmer>>, ~session.on,
         Early(main.at)' => Early(main.at), ~AtTheClose(main)'
  PROVE  HearInv'
  BY HearingRests

\* There is no session any more.
LEMMA NobodyHears ==
  ASSUME HearType', ~session'.on, ~AtTheClose(main)',
         Early(main.at)' => trimmer'.decided = <<>> /\ trimmer'.core = FreshCore
  PROVE  HearInv'
  BY DEF HearInv, Hears

(***************************************************************************)
(* A chunk goes through the trimmer.                                       *)
(***************************************************************************)

LEMMA TrimmedHears ==
  ASSUME trimmer \in TypedTrimmers, NEW s \in Sessions, NEW blocks \in Seq(Blocks),
         NEW sent, sent = Trimmed(s, blocks)
  PROVE  /\ sent.session \in Sessions /\ sent.session.on = s.on
         /\ sent.session.open = s.open /\ sent.session.running = s.running
         /\ ~s.open => sent.session = s
         /\ sent.trimmer \in TypedTrimmers /\ sent.trimmer.active = trimmer.active
         /\ s.open /\ trimmer.active /\ CoreInv(trimmer.core, trimmer.decided, s.heard) =>
              /\ CoreInv(sent.trimmer.core, sent.trimmer.decided, sent.session.heard)
              /\ Given(sent.session, sent.trimmer) = Given(s, trimmer) \o blocks
<1> DEFINE voice == IsInSpeech(FedVad(blocks).post)
           x == [chunk |-> blocks, voice |-> voice]
           step == ProcessChunk(trimmer.core, blocks, voice)
           d == trimmer.decided
           core == trimmer.core
<1>1. voice \in BOOLEAN
  BY DEF IsInSpeech
<1> HIDE DEF voice
<1>2. x \in Decisions /\ x.chunk = blocks /\ x.voice = voice
  BY <1>1 DEF Decisions
<1>3. core \in Cores /\ d \in Seq(Decisions) /\ trimmer.active \in BOOLEAN
  BY DEF TypedTrimmers
<1>4. /\ sent.session = EnqueuePcmChunk(s, FlattenSeq(step.out))
      /\ sent.trimmer = [trimmer EXCEPT !.core = step.core, !.decided = Append(d, x)]
  BY DEF Trimmed, voice, TypedTrimmers
<1>5. step.core \in Cores /\ step.out \in Seq(Seq(Blocks))
  BY <1>1, <1>3, CoreType
<1>6. FlattenSeq(step.out) \in Seq(Blocks)
  BY <1>5, FlattenType
<1>7. Append(d, x) \in Seq(Decisions)
  BY <1>2, <1>3
<1>8. /\ sent.trimmer \in TypedTrimmers /\ sent.trimmer.active = trimmer.active
      /\ sent.trimmer.core = step.core /\ sent.trimmer.decided = Append(d, x)
  <2> HIDE DEF step, d, x, core
  <2> QED
    BY <1>4, <1>5, <1>7 DEF TypedTrimmers
<1>9. ASSUME s.open, trimmer.active, CoreInv(trimmer.core, trimmer.decided, s.heard)
      PROVE  /\ CoreInv(sent.trimmer.core, sent.trimmer.decided, sent.session.heard)
             /\ Given(sent.session, sent.trimmer) = Given(s, trimmer) \o blocks
  <2>1. sent.session.heard = s.heard \o FlattenSeq(step.out)
    <3> DEFINE out == FlattenSeq(step.out)
    <3>1. sent.session = EnqueuePcmChunk(s, out) /\ out \in Seq(Blocks) /\ s.open
      BY <1>4, <1>6, <1>9
    <3> HIDE DEF out
    <3>2. sent.session.heard = s.heard \o out
      BY <3>1, EnqueueType
    <3> QED
      BY <3>2 DEF out
  <2>2. step = ProcessChunk(core, x.chunk, x.voice)
    BY <1>2
  <2> HIDE DEF x, step, core, d
  <2>3. CoreInv(step.core, Append(d, x), s.heard \o FlattenSeq(step.out))
    BY <1>2, <1>3, <1>9, <2>2, CoreStep DEF core, d
  <2>4. Chunks(d) \in Seq(Seq(Blocks)) /\ Chunks(Append(d, x)) = Append(Chunks(d), blocks)
    BY <1>2, <1>3, ChunksAppend
  <2>5. FlattenSeq(Chunks(Append(d, x))) = FlattenSeq(Chunks(d)) \o blocks
    BY <2>4, FlattenAppend
  <2> QED
    BY <1>8, <1>9, <2>1, <2>3, <2>5 DEF Given, d
<1>10. /\ sent.session \in Sessions /\ sent.session.on = s.on
       /\ sent.session.open = s.open /\ sent.session.running = s.running
       /\ ~s.open => sent.session = s
  <2> HIDE DEF step
  <2> QED
    BY <1>4, <1>6, EnqueueType
<1> QED
  BY <1>8, <1>9, <1>10

LEMMA GivenType ==
  ASSUME NEW s \in Sessions, NEW t \in TypedTrimmers
  PROVE  Given(s, t) \in Seq(Blocks)
<1>1. \A y \in Decisions : y.chunk \in Seq(Blocks)
  BY DEF Decisions
<1>2. t.decided \in Seq(Decisions) /\ s.heard \in Seq(Blocks)
  BY DEF Sessions, TypedTrimmers
<1>3. Chunks(t.decided) \in Seq(Seq(Blocks))
  <2> DEFINE d == t.decided
  <2>1. d \in Seq(Decisions) /\ \A i \in 1..Len(d) : d[i] \in Decisions
    BY <1>2
  <2>2. \A i \in 1..Len(d) : d[i].chunk \in Seq(Blocks)
    BY <1>1, <2>1
  <2>3. Chunks(d) = [i \in 1..Len(d) |-> d[i].chunk] /\ Len(d) \in Nat
    BY <2>1 DEF Chunks
  <2> HIDE DEF d
  <2>4. Chunks(d) \in Seq(Seq(Blocks))
    BY <2>2, <2>3
  <2> QED
    BY <2>4 DEF d
<1>4. FlattenSeq(Chunks(t.decided)) \in Seq(Blocks)
  BY <1>3, FlattenType
<1> QED
  BY <1>2, <1>4 DEF Given

LEMMA BlockComesLast ==
  ASSUME NEW pcm \in Seq(Blocks), NEW blocks \in Seq(Blocks), NEW b \in Blocks
  PROVE  pcm \o Append(blocks, b) = Append(pcm \o blocks, b)
  BY AppendConcat

LEMMA RecordHears ==
  ASSUME TypeInv, HearInv, Record
  PROVE  HearInv'
<1> DEFINE b == packet.block
           one == <<b>>
           sent == Trimmed(session, one)
<1>1. /\ b \in Blocks /\ one \in Seq(Blocks) /\ audio \in Seq(Blocks)
      /\ main.pcm \in Seq(Blocks)
  BY DEF TypeInv, Mains
<1>2. /\ audio' = Append(audio, b) /\ ~suppressed /\ UNCHANGED <<main, suppressed>>
      /\ session \in Sessions /\ trimmer \in TypedTrimmers
  BY DEF Record, HearInv, HearType
<1>3. /\ Captured' = Append(Captured, b) /\ Captured \in Seq(Blocks)
      /\ Captured \o one = Append(Captured, b)
  <2>1. main.pcm \o Append(audio, b) = Append(main.pcm \o audio, b)
    <3> HIDE DEF b
    <3> QED
      BY <1>1, BlockComesLast
  <2>2. Captured' = Append(Captured, b)
    BY <1>2, <2>1 DEF Captured
  <2>3. Captured \in Seq(Blocks)
    BY CapturedType
  <2> QED
    BY <1>1, <2>2, <2>3
<1>4. \/ /\ Listening /\ trimmer.active
         /\ session' = sent.session /\ trimmer' = sent.trimmer
      \/ /\ Listening /\ ~trimmer.active
         /\ session' = EnqueuePcmChunk(session, one) /\ trimmer' = trimmer
      \/ ~Listening /\ UNCHANGED <<session, trimmer>>
  BY DEF Record
<1>5. ~AtTheClose(main)' /\ Early(main.at)' = Early(main.at)
      /\ Attended(main)' = Attended(main)
  BY <1>2 DEF HearInv, AtTheClose, Early, Attended
<1>6. /\ Early(main.at) => ~session.on /\ trimmer.decided = <<>> /\ trimmer.core = FreshCore
      /\ session.on /\ session.open => Attended(main)
      /\ session.on /\ session.open => Follows(session, trimmer, Captured)
      /\ session.on /\ ~session.open => session.heard = session.due
  BY DEF HearInv, Hears
<1>7. Given(session, trimmer) \in Seq(Blocks)
  BY <1>2, GivenType
<1> HIDE DEF one, b
<1>8. CASE Listening /\ trimmer.active /\ session' = sent.session /\ trimmer' = sent.trimmer
  <2>1. /\ sent.session \in Sessions /\ sent.session.on = session.on
        /\ sent.session.open = session.open /\ sent.session.running = session.running
        /\ ~session.open => sent.session = session
        /\ sent.trimmer \in TypedTrimmers /\ sent.trimmer.active = trimmer.active
        /\ session.open /\ trimmer.active
             /\ CoreInv(trimmer.core, trimmer.decided, session.heard) =>
             /\ CoreInv(sent.trimmer.core, sent.trimmer.decided, sent.session.heard)
             /\ Given(sent.session, sent.trimmer) = Given(session, trimmer) \o one
    BY <1>1, <1>2, TrimmedHears
  <2> HIDE DEF sent
  <2>2. session.on /\ session.running
    BY <1>8 DEF Listening
  <2>3. ASSUME session.open
        PROVE  Follows(session', trimmer', Captured')
    <3>1. /\ Given(session, trimmer) = Captured
          /\ CoreInv(trimmer.core, trimmer.decided, session.heard)
      BY <1>6, <1>8, <2>2, <2>3 DEF Follows
    <3>2. /\ CoreInv(trimmer'.core, trimmer'.decided, session'.heard)
          /\ Given(session', trimmer') = Captured'
      BY <1>3, <1>8, <2>1, <2>3, <3>1
    <3>3. IsPrefix(Captured', Captured')
      <4>1. Captured' \in Seq(Blocks)
        BY <1>1, <1>3
      <4> QED
        BY <4>1, PrefixOfItself
    <3> QED
      BY <3>2, <3>3 DEF Follows
  <2>4. Hears(session', trimmer', Captured')
    BY <1>6, <1>8, <2>1, <2>2, <2>3 DEF Hears
  <2> QED
    BY <1>5, <1>6, <1>8, <2>1, <2>2, <2>4 DEF HearInv, HearType, Hears
<1>9. CASE /\ Listening /\ ~trimmer.active
           /\ session' = EnqueuePcmChunk(session, one) /\ trimmer' = trimmer
  <2>1. /\ session' \in Sessions /\ session'.on = session.on
        /\ session'.open = session.open /\ session'.running = session.running
        /\ session.open => session'.heard = session.heard \o one
        /\ ~session.open => session' = session
    BY <1>1, <1>2, <1>9, EnqueueType
  <2>2. session.on /\ session.running
    BY <1>9 DEF Listening
  <2>3. ASSUME session.open
        PROVE  Follows(session', trimmer', Captured')
    <3>1. session.heard = Captured
      BY <1>6, <1>9, <2>2, <2>3 DEF Follows, Given
    <3>2. Given(session', trimmer') = Captured'
      BY <1>3, <1>9, <2>1, <2>3, <3>1 DEF Given
    <3>3. IsPrefix(Captured', Captured')
      <4>1. Captured' \in Seq(Blocks)
        BY <1>1, <1>3
      <4> QED
        BY <4>1, PrefixOfItself
    <3> QED
      BY <1>9, <3>2, <3>3 DEF Follows
  <2>4. Hears(session', trimmer', Captured')
    BY <1>6, <2>1, <2>2, <2>3 DEF Hears
  <2> QED
    BY <1>2, <1>5, <1>6, <1>9, <2>1, <2>2, <2>4 DEF HearInv, HearType, Hears
<1>10. CASE ~Listening /\ UNCHANGED <<session, trimmer>>
  <2>1. ASSUME session.on, session.open
        PROVE  Follows(session', trimmer', Captured')
    <3>1. ~session.running
      BY <1>10, <2>1 DEF Listening
    <3>2. IsPrefix(Given(session, trimmer), Captured')
      BY <1>1, <1>3, <1>6, <1>7, <2>1, PrefixStays DEF Follows
    <3> QED
      BY <1>6, <1>10, <2>1, <3>1, <3>2 DEF Follows
  <2>2. Hears(session', trimmer', Captured')
    BY <1>6, <1>10, <2>1 DEF Hears
  <2> QED
    BY <1>2, <1>5, <1>6, <1>10, <2>2 DEF HearInv, HearType, Hears
<1> QED
  BY <1>4, <1>8, <1>9, <1>10

(***************************************************************************)
(* A session is installed, and ends.                                       *)
(***************************************************************************)

LEMMA FreshTrimmer == CoreInv(FreshCore, <<>>, <<>>)
<1>1. /\ VoicedOf(<<>>) = {} /\ Chunks(<<>>) = <<>>
      /\ FreshCore.state = "PreSpeech" /\ FreshCore.silent = 0 /\ FreshCore.pre = <<>>
  BY DEF VoicedOf, Chunks, FreshCore
<1> QED
  BY <1>1 DEF CoreInv, CoreWaits

LEMMA ActivateStreamingSessionHears ==
  ASSUME TypeInv, HearInv, ActivateStreamingSession
  PROVE  HearInv'
<1> DEFINE sent == Trimmed(NewSession, audio)
           plain == EnqueuePcmChunk(NewSession, audio)
<1>1. audio \in Seq(Blocks) /\ main \in Mains(main)
  BY DEF TypeInv
<1>2. /\ main.at = "built" /\ main' = [main EXCEPT !.at = "recording"]
      /\ UNCHANGED <<audio, suppressed>>
      /\ trimmer \in TypedTrimmers
  BY DEF ActivateStreamingSession, HearInv, HearType, Goes, world
<1>3. main'.at = "recording" /\ Captured' = audio
  BY <1>1, <1>2 DEF Captured, Mains
<1>4. trimmer.decided = <<>> /\ trimmer.core = FreshCore
  BY <1>2 DEF HearInv, Early
<1>5. /\ NewSession \in Sessions /\ NewSession.on /\ NewSession.open /\ NewSession.running
      /\ NewSession.heard = <<>>
  BY HearingTypes
<1>6. <<>> \o audio = audio
  BY <1>1
<1>7. \/ /\ trimmer.active
         /\ session' = sent.session /\ trimmer' = sent.trimmer
      \/ /\ ~(trimmer.active /\ audio # <<>>)
         /\ session' = plain /\ trimmer' = trimmer
  BY DEF ActivateStreamingSession
<1>8. SUFFICES ASSUME TRUE
               PROVE  /\ session' \in Sessions /\ trimmer' \in TypedTrimmers
                      /\ session'.on /\ session'.open
                      /\ Given(session', trimmer') = audio
                      /\ trimmer'.active =>
                           CoreInv(trimmer'.core, trimmer'.decided, session'.heard)
  <2>1. IsPrefix(audio, audio)
    BY <1>1, PrefixOfItself
  <2> QED
    BY <1>3, <2>1 DEF HearInv, HearType, Early, AtTheClose, Attended, Hears, Follows
<1>9. CASE trimmer.active /\ session' = sent.session /\ trimmer' = sent.trimmer
  <2>1. CoreInv(trimmer.core, trimmer.decided, NewSession.heard)
    BY <1>4, <1>5, FreshTrimmer
  <2>2. Given(NewSession, trimmer) = <<>>
    <3>1. Chunks(<<>>) = <<>>
      BY DEF Chunks
    <3> QED
      BY <1>4, <1>9, <3>1, FlattenEmpty DEF Given
  <2>3. /\ sent.session \in Sessions /\ sent.session.on = NewSession.on
        /\ sent.session.open = NewSession.open
        /\ sent.trimmer \in TypedTrimmers /\ sent.trimmer.active = trimmer.active
        /\ CoreInv(sent.trimmer.core, sent.trimmer.decided, sent.session.heard)
        /\ Given(sent.session, sent.trimmer) = Given(NewSession, trimmer) \o audio
    BY <1>1, <1>2, <1>5, <1>9, <2>1, TrimmedHears
  <2> HIDE DEF sent
  <2> QED
    BY <1>5, <1>6, <1>9, <2>2, <2>3
<1>10. CASE /\ ~(trimmer.active /\ audio # <<>>)
            /\ session' = plain /\ trimmer' = trimmer
  <2>1. /\ plain \in Sessions /\ plain.on /\ plain.open
        /\ plain.heard = NewSession.heard \o audio
    BY <1>1, <1>5, EnqueueType
  <2> HIDE DEF plain
  <2>2. plain.heard = audio
    BY <1>5, <1>6, <2>1
  <2>3. CASE trimmer.active
    <3>1. audio = <<>> /\ Chunks(<<>>) = <<>>
      BY <1>10, <2>3 DEF Chunks
    <3>2. Given(session', trimmer') = audio
      BY <1>4, <1>10, <2>3, <3>1, FlattenEmpty DEF Given
    <3> QED
      BY <1>2, <1>4, <1>10, <2>1, <2>2, <3>1, <3>2, FreshTrimmer
  <2>4. CASE ~trimmer.active
    BY <1>2, <1>10, <2>1, <2>2, <2>4 DEF Given
  <2> QED
    BY <2>3, <2>4
<1> QED
  BY <1>7, <1>9, <1>10

LEMMA DetachHears ==
  ASSUME TypeInv, HearInv, Detach
  PROVE  HearInv'
<1>1. PICK mode \in Modes :
        main' = [main EXCEPT !.at = IF @ = "idle" THEN "detached" ELSE "opened",
                             !.mode = mode, !.outcome = NoOutcome, !.pcm = <<>>]
  BY DEF Detach
<1>2. main'.at \in {"detached", "opened"}
  BY <1>1 DEF TypeInv, Mains
<1>3. session' = NoSession /\ trimmer' = NoTrimmer
  BY DEF Detach
<1>4. HearType' /\ ~session'.on /\ trimmer'.decided = <<>> /\ trimmer'.core = FreshCore
  BY <1>3, HearingTypes DEF HearType
<1> QED
  BY <1>2, <1>4, NobodyHears DEF AtTheClose

LEMMA TrimmerStartsHears ==
  ASSUME TypeInv, HearInv, TrimmerStarts
  PROVE  HearInv'
<1>1. PICK loaded \in {TRUE, vad.there} : trimmer' = [NoTrimmer EXCEPT !.active = loaded]
  BY DEF TrimmerStarts
<1>2. loaded \in BOOLEAN /\ main' = [main EXCEPT !.at = "built"] /\ main.at = "opened"
      /\ session' = session
  BY DEF TrimmerStarts, TypeInv, Vads, Goes
<1>3. main'.at = "built"
  BY <1>2 DEF TypeInv, Mains
<1>4. /\ trimmer' \in TypedTrimmers /\ trimmer'.decided = <<>> /\ trimmer'.core = FreshCore
  BY <1>1, <1>2, HearingTypes DEF TypedTrimmers
<1>5. ~session.on /\ session \in Sessions
  BY <1>2 DEF HearInv, HearType, Early
<1> QED
  BY <1>2, <1>3, <1>4, <1>5, NobodyHears DEF HearType, AtTheClose

LEMMA TooShortHears ==
  ASSUME TypeInv, HearInv, TooShort
  PROVE  HearInv'
<1>1. main'.at = "idle"
  BY EndsInIdle DEF TooShort, TypeInv
<1>2. session' = NoSession /\ trimmer' = trimmer /\ trimmer \in TypedTrimmers
  BY DEF TooShort, HearInv, HearType
<1> QED
  BY <1>1, <1>2, NobodyHears, HearingTypes DEF HearType, AtTheClose, Early

LEMMA FinalTakesSessionHears ==
  ASSUME TypeInv, HearInv, FinalTakesSession
  PROVE  HearInv'
<1>1. main' = main /\ main.at \in {"idle", "pending"}
  BY DEF FinalTakesSession
<1>2. session' = NoSession /\ trimmer' = trimmer /\ trimmer \in TypedTrimmers
  BY DEF FinalTakesSession, HearInv, HearType
<1> QED
  BY <1>1, <1>2, NobodyHears, HearingTypes DEF HearType, AtTheClose, Early

LEMMA StreamingStopsHears ==
  ASSUME TypeInv, HearInv, StreamingStops
  PROVE  HearInv'
<1>1. main'.at = "idle"
  BY EndsInIdle DEF StreamingStops, TypeInv
<1>2. session \in Sessions /\ trimmer \in TypedTrimmers
  BY DEF HearInv, HearType
<1>3. trimmer' \in TypedTrimmers
  <2>1. FinishTrim(trimmer.core) \in Cores
    BY <1>2, HearingTypes DEF TypedTrimmers
  <2>2. \/ trimmer' = trimmer
        \/ trimmer' = [trimmer EXCEPT !.core = FinishTrim(trimmer.core)]
    BY DEF StreamingStops
  <2> QED
    BY <1>2, <2>1, <2>2 DEF TypedTrimmers
<1>4. \/ session' = NoSession
      \/ session' = [session EXCEPT !.open = FALSE, !.due = session.heard]
  BY DEF StreamingStops
<1>5. CASE session' = NoSession
  BY <1>1, <1>3, <1>5, NobodyHears, HearingTypes DEF HearType, AtTheClose, Early
<1>6. CASE session' = [session EXCEPT !.open = FALSE, !.due = session.heard]
  <2>1. session' \in Sessions /\ ~session'.open /\ session'.heard = session'.due
    BY <1>2, <1>6 DEF Sessions
  <2> QED
    BY <1>1, <1>3, <2>1 DEF HearInv, HearType, Hears, AtTheClose, Early
<1> QED
  BY <1>4, <1>5, <1>6

LEMMA SessionStopsHears ==
  ASSUME TypeInv, HearInv, SessionStops
  PROVE  HearInv'
<1>1. /\ session \in Sessions /\ session' = [session EXCEPT !.running = FALSE]
      /\ UNCHANGED <<trimmer, main, audio, suppressed>>
  BY DEF SessionStops, HearInv, HearType, world
<1>2. /\ session' \in Sessions /\ ~session'.running /\ session'.on = session.on
      /\ session'.open = session.open /\ session'.heard = session.heard
      /\ session'.due = session.due
  BY <1>1 DEF Sessions
<1>3. Captured' = Captured /\ Given(session', trimmer') = Given(session, trimmer)
  BY <1>1, <1>2 DEF Captured, Given
<1>4. Hears(session', trimmer', Captured')
  BY <1>1, <1>2, <1>3 DEF HearInv, Hears, Follows
<1> QED
  BY <1>1, <1>2, <1>4 DEF HearInv, HearType, Early, AtTheClose, Attended

(***************************************************************************)
(* The other steps.                                                        *)
(***************************************************************************)

LEMMA CallbackHears ==
  ASSUME HearInv, Deliver \/ LeaveOut \/ Drop \/ FeedVad
  PROVE  HearInv'
<1>1. UNCHANGED <<session, trimmer, main, suppressed, audio>>
  BY DEF Deliver, LeaveOut, Drop, FeedVad, speech
<1> QED
  BY <1>1, HearingUnmoved

LEMMA OthersHear ==
  ASSUME HearInv, PreloadAsrEngine \/ JobResetsVad \/ JobFeedsVad \/ Crash
  PROVE  HearInv'
<1>1. UNCHANGED <<session, trimmer, main, suppressed, audio>>
  BY DEF PreloadAsrEngine, JobResetsVad, JobFeedsVad, Crash, world, speech
<1> QED
  BY <1>1, HearingUnmoved

LEMMA NobodyAttends ==
  ASSUME HearInv, ~Attended(main)
  PROVE  ~(session.on /\ session.open)
  BY DEF HearInv

LEMMA BeginCaptureOnlyHears ==
  ASSUME TypeInv, HearInv, BeginCaptureOnly
  PROVE  HearInv'
<1>1. /\ UNCHANGED <<session, trimmer>> /\ main.at = "idle"
      /\ main' = [Idle EXCEPT !.at = "pending", !.first = delivered + 1]
  BY DEF BeginCaptureOnly, speech
<1>2. main'.at = "pending"
  BY <1>1 DEF Idle
<1>3. ~(session.on /\ session.open)
  BY <1>1, NobodyAttends DEF Attended, AtTheClose
<1> QED
  BY <1>1, <1>2, <1>3, HearingRests DEF Early, AtTheClose

LEMMA DiscardPendingCaptureHears ==
  ASSUME TypeInv, HearInv, DiscardPendingCapture
  PROVE  HearInv'
<1>1. /\ UNCHANGED <<session, trimmer>> /\ main.at = "pending"
      /\ main' = [main EXCEPT !.at = IF stale THEN "closing" ELSE "idle",
                              !.next = "idle"]
  BY DEF DiscardPendingCapture, speech
<1>2. main'.at \in {"closing", "idle"} /\ main'.next = "idle"
  BY <1>1 DEF TypeInv, Mains
<1>3. ~(session.on /\ session.open)
  BY <1>1, NobodyAttends DEF Attended, AtTheClose
<1> QED
  BY <1>1, <1>2, <1>3, HearingRests DEF Early, AtTheClose

LEMMA OpenCaptureHears ==
  ASSUME TypeInv, HearInv, OpenCapture
  PROVE  HearInv'
<1>1. /\ UNCHANGED <<session, trimmer>> /\ main.at = "detached"
      /\ main' = [main EXCEPT !.at = "opened", !.first = delivered + 1]
  BY DEF OpenCapture, speech
<1>2. main'.at = "opened"
  BY <1>1 DEF TypeInv, Mains
<1>3. ~session.on
  BY <1>1 DEF HearInv, Early
<1> QED
  BY <1>1, <1>2, <1>3, HearingUnheard DEF Early, AtTheClose

\* The main thread goes on without a session.
LEMMA StartGoesOnHears ==
  ASSUME TypeInv, HearInv, UNCHANGED <<session, trimmer>>, Early(main.at),
         NEW place \in {"built", "recording"}, Goes(place)
  PROVE  HearInv'
<1>1. main'.at = place
  BY DEF Goes, TypeInv, Mains
<1>2. ~session.on
  BY DEF HearInv
<1> QED
  BY <1>1, <1>2, HearingUnheard DEF Early, AtTheClose

LEMMA StartsHear ==
  ASSUME TypeInv, HearInv,
         \/ SessionStartFails \/ PlainStarts \/ LocalVadResets \/ LocalVadPrimed
         \/ BatchBegins
  PROVE  HearInv'
<1>1. UNCHANGED <<session, trimmer>> /\ main.at \in {"opened", "built"}
  BY DEF SessionStartFails, PlainStarts, LocalVadResets, LocalVadPrimed, BatchBegins, speech
<1>2. Goes("built") \/ Goes("recording")
  BY DEF SessionStartFails, PlainStarts, LocalVadResets, LocalVadPrimed, BatchBegins
<1> QED
  BY <1>1, <1>2, StartGoesOnHears DEF Early

LEMMA StopRecordingSessionHears ==
  ASSUME TypeInv, HearInv, StopRecordingSession
  PROVE  HearInv'
<1>1. /\ UNCHANGED <<session, trimmer>> /\ main.at = "recording"
      /\ main' = [main EXCEPT !.at = IF stale THEN "closing" ELSE "stopped",
                              !.next = "stopped", !.pcm = audio]
      /\ suppressed' = TRUE /\ audio' = <<>> /\ audio \in Seq(Blocks)
  BY DEF StopRecordingSession, StopAudioCapture, speech, TypeInv
<1>2. main'.at \in {"closing", "stopped"} /\ main'.next = "stopped" /\ main'.pcm = audio
  BY <1>1 DEF TypeInv, Mains
<1>3. Captured = audio /\ Captured' = audio \o <<>> /\ audio \o <<>> = audio
  BY <1>1, <1>2 DEF Captured
<1>4. Attended(main)' /\ ~Early(main.at)'
  BY <1>2 DEF Attended, AtTheClose, Early
<1> QED
  BY <1>1, <1>3, <1>4, HearingRests

LEMMA CloseAudioCaptureHears ==
  ASSUME TypeInv, HearInv, CloseAudioCapture
  PROVE  HearInv'
<1>1. /\ UNCHANGED <<session, trimmer>> /\ main.at = "closing"
      /\ main' = [main EXCEPT !.at = main.next] /\ audio' = <<>>
  BY DEF CloseAudioCapture, speech, Goes
<1>2. main'.at = main.next /\ main.next \in {"idle", "stopped"} /\ main'.pcm = main.pcm
  BY <1>1 DEF TypeInv, Mains, Places
<1>3. ASSUME session.on, session.open
      PROVE  Attended(main)' /\ Captured' = Captured
  <2>1. AtTheClose(main)
    BY <1>1, <1>3 DEF HearInv, Attended
  <2>2. audio = <<>> /\ main'.at = "stopped"
    BY <1>2, <2>1 DEF HearInv, AtTheClose
  <2> QED
    BY <1>1, <1>2, <2>2 DEF Attended, Captured
<1>4. ~AtTheClose(main)' /\ ~Early(main.at)'
  BY <1>2 DEF AtTheClose, Early
<1> QED
  BY <1>1, <1>3, <1>4, HearingRests

LEMMA LocalStopsHears ==
  ASSUME TypeInv, HearInv, LocalStops
  PROVE  HearInv'
<1>1. UNCHANGED <<session, trimmer>> /\ ~session.on
  BY DEF LocalStops
<1>2. PICK o : main' = [main EXCEPT !.at = "idle", !.outcome = o]
  BY DEF LocalStops
<1>3. main'.at = "idle"
  BY <1>2 DEF TypeInv, Mains
<1> QED
  BY <1>1, <1>3, HearingUnheard DEF Early, AtTheClose

LEMMA BatchStopsHears ==
  ASSUME TypeInv, HearInv, BatchStops
  PROVE  HearInv'
<1>1. UNCHANGED <<session, trimmer>> /\ ~session.on
  BY DEF BatchStops, speech
<1>2. main'.at = "idle"
  BY EndsInIdle DEF BatchStops, TypeInv
<1> QED
  BY <1>1, <1>2, HearingUnheard DEF Early, AtTheClose

LEMMA KeepAliveExpiresHears ==
  ASSUME TypeInv, HearInv, KeepAliveExpires
  PROVE  HearInv'
<1>1. /\ UNCHANGED <<session, trimmer>> /\ main.at = "idle"
      /\ main' = [main EXCEPT !.at = "closing", !.next = "idle"]
  BY DEF KeepAliveExpires, speech
<1>2. main'.at = "closing" /\ main'.next = "idle"
  BY <1>1 DEF TypeInv, Mains
<1>3. ~(session.on /\ session.open)
  BY <1>1, NobodyAttends DEF Attended, AtTheClose
<1> QED
  BY <1>1, <1>2, <1>3, HearingRests DEF Early, AtTheClose

LEMMA ReloadMessageHears ==
  ASSUME TypeInv, HearInv, ReloadMessage
  PROVE  HearInv'
<1>1. UNCHANGED <<session, trimmer, suppressed, audio>>
  BY DEF ReloadMessage, world
<1>2. CASE main' = main
  BY <1>1, <1>2, HearingUnmoved
<1>3. CASE main.at = "idle" /\ main' = [main EXCEPT !.at = "closing", !.next = "idle"]
  <2>1. main'.at = "closing" /\ main'.next = "idle"
    BY <1>3 DEF TypeInv, Mains
  <2>2. ~(session.on /\ session.open)
    BY <1>3, NobodyAttends DEF Attended, AtTheClose
  <2> QED
    BY <1>1, <2>1, <2>2, HearingRests DEF Early, AtTheClose
<1> QED
  BY <1>2, <1>3 DEF ReloadMessage

LEMMA InitHears == Init => HearInv
<1> SUFFICES ASSUME Init PROVE HearInv
  OBVIOUS
<1>1. session = NoSession /\ trimmer = NoTrimmer /\ main.at = "idle"
  BY DEF Init, Idle
<1> QED
  BY <1>1, HearingTypes DEF HearInv, HearType, Hears, Early, AtTheClose

\* The session, its trimmer and the captured audio stay in step.
THEOREM HearInvariance == Spec => []HearInv
<1>1. TypeInv /\ HearInv /\ [Next]_vars => HearInv'
  <2> SUFFICES ASSUME TypeInv, HearInv, [Next]_vars
               PROVE  HearInv'
    OBVIOUS
  <2>1. CASE Callback
    BY <2>1, CallbackHears, RecordHears DEF Callback
  <2>2. CASE Starts
    BY <2>2, BeginCaptureOnlyHears, DiscardPendingCaptureHears, DetachHears,
       OpenCaptureHears, StartsHear, TrimmerStartsHears,
       ActivateStreamingSessionHears DEF Starts
  <2>3. CASE Stops
    BY <2>3, StopRecordingSessionHears, CloseAudioCaptureHears, TooShortHears,
       StreamingStopsHears, LocalStopsHears, BatchStopsHears, KeepAliveExpiresHears,
       FinalTakesSessionHears, ReloadMessageHears DEF Stops
  <2>4. CASE Engine \/ Crash
    BY <2>4, OthersHear, SessionStopsHears DEF Engine
  <2>5. CASE UNCHANGED vars
    <3>1. UNCHANGED <<session, trimmer, main, suppressed, audio>>
      BY <2>5 DEF vars, world, speech
    <3> QED
      BY <3>1, HearingUnmoved
  <2> QED
    BY <2>1, <2>2, <2>3, <2>4, <2>5 DEF Next
<1>2. Inv => TypeInv
  BY DEF Inv
<1> QED
  BY <1>1, <1>2, InitHears, Invariance, PTL DEF Spec

\* A session that runs has heard the recording, or what the trimmer keeps of
\* it, from its first block on, and one that has ended nothing more.
THEOREM SessionsHearTheCapture == Spec => []SessionHearsCapture
<1>1. HearInv => SessionHearsCapture
  <2> SUFFICES ASSUME HearInv
               PROVE  SessionHearsCapture
    OBVIOUS
  <2>1. ASSUME session.on, session.open
        PROVE  Follows(session, trimmer, Captured)
    BY <2>1 DEF HearInv, Hears
  <2>2. session.on /\ ~session.open => session.heard = session.due
    BY DEF HearInv, Hears
  <2>3. ASSUME session.on, session.open, trimmer.active
        PROVE  session.heard = Kept(trimmer.decided)
    <3>1. trimmer.decided \in Seq(Decisions)
      BY DEF HearInv, HearType, TypedTrimmers
    <3>2. CoreInv(trimmer.core, trimmer.decided, session.heard)
      BY <2>1, <2>3 DEF Follows
    <3> QED
      BY <3>1, <3>2, HeardIsKept
  <2> QED
    BY <2>1, <2>2, <2>3 DEF SessionHearsCapture, Follows, Given, Chunks
<1> QED
  BY <1>1, HearInvariance, PTL

---------------------------------------------------------------------------
(***************************************************************************)
(* The local VAD has heard the recording.                                  *)
(***************************************************************************)

\* h is d but for one block that came in addition.
Nearly(h, d) == h = d \/ d \in OneLess(h)

\* The blocks a are due but for one that waveIn had in its hands.
IsDue(d, a, first) == d = a \/ (a # <<>> /\ a[1].n < first /\ d = Tail(a))

\* The VAD heard h of the blocks a.  The callback p may be about to feed it
\* the last of them, or a block from before the VAD was reset.
Behind(p, h, a, first) ==
  \E d \in Seq(Blocks) :
    /\ IsDue(d, a, first)
    /\ \/ p.at # "feed" /\ Nearly(h, d)
       \/ p.at = "feed" /\ h = d
       \/ /\ p.at = "feed"
          /\ \E before \in Seq(Blocks) : d = Append(before, p.block) /\ Nearly(h, before)

PacketInv ==
  /\ packet.api = "wasapi" => device = "wasapi"
  /\ packet.at = "feed" => packet.api = "wasapi"
  /\ packet.at = "got" => packet.api # "closed"
  /\ packet.at = "got" /\ packet.api # device /\ Capturing =>
       audio = <<>> /\ packet.block.n < main.first

Own == ~vad.shared /\ reloads = 0
Hearing == Own /\ device = "wasapi" /\ vadReady /\ ~session.on

PrimeInv ==
  main.at = "built" /\ main.mode = "local" /\ Own =>
    /\ Len(vad.heard) <= 1
    /\ packet.at = "feed" => vad.heard = <<>>

BehindInv ==
  Hearing =>
    /\ main.at = "recording" => Behind(packet, vad.heard, audio, main.first)
    /\ main.at = "stopped" => Behind(packet, vad.heard, main.pcm, main.first)

\* The outcome of the last recording is gone once another one has begun.
Busy(m) == m.at \notin {"idle", "closing"} \/ AtTheClose(m)
OutcomeInv == (Busy(main) => main.outcome = NoOutcome) /\ VadHearsRecording

FedInv ==
  /\ vad.heard \in Seq(Blocks)
  /\ Early(main.at) => ~vadReady
  /\ PacketInv /\ PrimeInv /\ BehindInv /\ OutcomeInv

LEMMA LosesInside ==
  ASSUME NEW h \in Seq(Blocks), NEW b \in Blocks, NEW i \in 1..Len(h)
  PROVE  RemoveAt(Append(h, b), i) = Append(RemoveAt(h, i), b)
<1> DEFINE front == SubSeq(h, 1, i - 1)
           back == SubSeq(h, i + 1, Len(h))
<1>1. SubSeq(Append(h, b), 1, i - 1) = front /\ front \in Seq(Blocks)
  OBVIOUS
<1>2. /\ SubSeq(Append(h, b), i + 1, Len(h) + 1) = Append(back, b)
      /\ back \in Seq(Blocks)
  <2>1. ASSUME NEW k \in 1..Len(h) + 1
        PROVE  /\ SubSeq(Append(h, b), k, Len(h) + 1) = Append(SubSeq(h, k, Len(h)), b)
               /\ SubSeq(h, k, Len(h)) \in Seq(Blocks)
    OBVIOUS
  <2>2. i + 1 \in 1..Len(h) + 1
    OBVIOUS
  <2> QED
    BY <2>1, <2>2
<1>3. Len(Append(h, b)) = Len(h) + 1
  OBVIOUS
<1>4. /\ RemoveAt(h, i) = front \o back
      /\ RemoveAt(Append(h, b), i) = front \o Append(back, b)
  BY <1>1, <1>2, <1>3 DEF RemoveAt
<1> HIDE DEF front, back
<1>5. front \o Append(back, b) = Append(front \o back, b)
  BY <1>1, <1>2, BlockComesLast
<1> QED
  BY <1>4, <1>5

LEMMA LosesLast ==
  ASSUME NEW h \in Seq(Blocks), NEW b \in Blocks
  PROVE  RemoveAt(Append(h, b), Len(h) + 1) = h
<1>1. /\ SubSeq(Append(h, b), 1, Len(h)) = h
      /\ SubSeq(Append(h, b), Len(h) + 2, Len(h) + 1) = <<>>
      /\ Len(Append(h, b)) = Len(h) + 1 /\ (Len(h) + 1) - 1 = Len(h)
      /\ (Len(h) + 1) + 1 = Len(h) + 2 /\ h \o <<>> = h
  OBVIOUS
<1> QED
  BY <1>1 DEF RemoveAt

LEMMA LosesFirst ==
  ASSUME NEW a \in Seq(Blocks), NEW b \in Blocks, NEW s, s = <<b>> \o a
  PROVE  RemoveAt(s, 1) = a
<1>1. /\ s \in Seq(Blocks) /\ Len(s) = Len(a) + 1 /\ Len(a) \in Nat
      /\ \A i \in 1..Len(a) : s[i + 1] = a[i]
  OBVIOUS
<1>2. SubSeq(s, 1, 0) = <<>> /\ 1 - 1 = 0 /\ 1 + 1 = 2
  BY <1>1
<1>3. SubSeq(s, 2, Len(s)) = a
  <2>1. /\ SubSeq(s, 2, Len(s)) \in Seq(Blocks) /\ Len(SubSeq(s, 2, Len(s))) = Len(a)
        /\ \A i \in 1..Len(a) : SubSeq(s, 2, Len(s))[i] = a[i]
    BY <1>1
  <2> QED
    BY <2>1, SequencesAreEqual
<1>4. <<>> \o a = a
  OBVIOUS
<1>5. RemoveAt(s, 1) = SubSeq(s, 1, 1 - 1) \o SubSeq(s, 1 + 1, Len(s))
  BY Zenon DEF RemoveAt
<1>6. SubSeq(s, 1, 1 - 1) = <<>> /\ SubSeq(s, 1 + 1, Len(s)) = a
  BY <1>2, <1>3
<1> QED
  BY <1>4, <1>5, <1>6, Zenon

LEMMA NearlyAppend ==
  ASSUME NEW h \in Seq(Blocks), NEW d \in Seq(Blocks), NEW b \in Blocks, Nearly(h, d)
  PROVE  Nearly(Append(h, b), Append(d, b))
<1>1. CASE h = d
  BY <1>1 DEF Nearly
<1>2. CASE d \in OneLess(h)
  <2>1. PICK i \in 1..Len(h) : d = RemoveAt(h, i)
    BY <1>2 DEF OneLess
  <2>2. i \in DOMAIN Append(h, b)
    OBVIOUS
  <2>3. Append(d, b) = RemoveAt(Append(h, b), i)
    BY <2>1, LosesInside
  <2> QED
    BY <2>2, <2>3 DEF Nearly, OneLess
<1> QED
  BY <1>1, <1>2 DEF Nearly

LEMMA NearlyStale ==
  ASSUME NEW h \in Seq(Blocks), NEW b \in Blocks, NEW s, s = <<b>> \o h
  PROVE  Nearly(Append(h, b), h) /\ Nearly(s, h)
<1>1. Len(h) + 1 \in DOMAIN Append(h, b) /\ 1 \in DOMAIN s
  OBVIOUS
<1>2. RemoveAt(Append(h, b), Len(h) + 1) = h
  BY LosesLast
<1>3. RemoveAt(s, 1) = h
  BY LosesFirst
<1>4. h \in OneLess(Append(h, b))
  BY <1>1, <1>2 DEF OneLess
<1>5. h \in OneLess(s)
  BY <1>1, <1>3 DEF OneLess
<1> QED
  BY <1>4, <1>5 DEF Nearly

LEMMA DueAppend ==
  ASSUME NEW a \in Seq(Blocks), NEW d \in Seq(Blocks), NEW b \in Blocks, NEW first,
         IsDue(d, a, first)
  PROVE  IsDue(Append(d, b), Append(a, b), first)
<1>1. CASE d = a
  BY <1>1 DEF IsDue
<1>2. CASE a # <<>> /\ a[1].n < first /\ d = Tail(a)
  <2>1. /\ Append(a, b)[1] = a[1] /\ Append(a, b) # <<>>
        /\ Tail(Append(a, b)) = Append(Tail(a), b)
    BY <1>2
  <2> QED
    BY <1>2, <2>1 DEF IsDue
<1> QED
  BY <1>1, <1>2 DEF IsDue

(***************************************************************************)
(* Steps that leave most alone.                                            *)
(***************************************************************************)

LEMMA FedTypes ==
  /\ NoVad.heard = <<>> /\ ResetVad.heard = <<>> /\ NoVad.heard \in Seq(Blocks)
  /\ ResetVad.heard \in Seq(Blocks)
  BY DEF NoVad, ResetVad

LEMMA FedVadHeard ==
  ASSUME vad \in Vads(vad), NEW blocks
  PROVE  /\ FedVad(blocks).shared = vad.shared
         /\ ~vad.shared => FedVad(blocks).heard = vad.heard \o blocks
         /\ vad.shared => FedVad(blocks).heard = vad.heard
  BY DEF FedVad, Vads

\* VadHearsRecording says nothing of a recording that was not local.
LEMMA OtherOutcomes ==
  ASSUME main.outcome.api # "wasapi" \/ reloads > 0
  PROVE  VadHearsRecording
<1>1. reloads > 0 => reloads # 0
  OBVIOUS
<1> QED
  BY <1>1 DEF VadHearsRecording

LEMMA NoOutcomeYet == NoOutcome.api # "wasapi"
  BY DEF NoOutcome

LEMMA OutcomeStays ==
  ASSUME VadHearsRecording, main'.outcome = main.outcome, main'.first = main.first,
         reloads' = reloads
  PROVE  VadHearsRecording'
  BY DEF VadHearsRecording, OneLess

\* The outcome goes on, and the recording is no more under way than before.
LEMMA OutcomeRests ==
  ASSUME OutcomeInv, main'.outcome = main.outcome, main'.first = main.first,
         reloads' = reloads, Busy(main)' => Busy(main)
  PROVE  OutcomeInv'
  BY OutcomeStays DEF OutcomeInv, Busy

LEMMA OutcomeGone ==
  ASSUME main'.outcome = NoOutcome
  PROVE  OutcomeInv'
<1>1. (main.outcome.api # "wasapi" \/ reloads > 0)'
  BY NoOutcomeYet
<1>2. VadHearsRecording'
  BY <1>1 DEF VadHearsRecording
<1> QED
  BY <1>2 DEF OutcomeInv

LEMMA PacketRests ==
  ASSUME PacketInv, UNCHANGED <<packet, device, audio>>, main'.first = main.first,
         Capturing' => Capturing
  PROVE  PacketInv'
  BY DEF PacketInv

\* The main thread, the capture and the VAD rest.
LEMMA FeedingUnmoved ==
  ASSUME FedInv, UNCHANGED <<packet, device, audio, vad, main, reloads>>,
         vadReady' = vadReady, session'.on = session.on
  PROVE  FedInv'
<1>1. PacketInv'
  BY PacketRests DEF FedInv, Capturing
<1>2. PrimeInv' /\ BehindInv'
  BY DEF FedInv, PrimeInv, BehindInv, Own, Hearing
<1>3. OutcomeInv'
  BY OutcomeRests DEF FedInv, Busy, AtTheClose
<1> QED
  BY <1>1, <1>2, <1>3 DEF FedInv

\* A step to a place where nothing is asked of the VAD.
LEMMA FeedingElsewhere ==
  ASSUME PacketInv', OutcomeInv', vad'.heard \in Seq(Blocks),
         Early(main.at)' => ~vadReady',
         ~(main.at = "built" /\ main.mode = "local" /\ Own)',
         ~(Hearing /\ main.at \in {"recording", "stopped"})'
  PROVE  FedInv'
  BY DEF FedInv, PrimeInv, BehindInv

LEMMA NotReadyNotHearing ==
  ASSUME ~vadReady' \/ session'.on \/ device' = "closed" \/ vad'.shared \/ reloads' > 0
  PROVE  ~Hearing'
<1>1. reloads' > 0 => reloads' # 0
  OBVIOUS
<1> QED
  BY <1>1 DEF Hearing, Own

(***************************************************************************)
(* The callback.                                                           *)
(***************************************************************************)

LEMMA DeliverFeeds ==
  ASSUME TypeInv, FedInv, Deliver
  PROVE  FedInv'
<1>1. PICK voice \in BOOLEAN :
        packet' = [at |-> "got", api |-> device,
                   block |-> [n |-> delivered + 1, voice |-> voice]]
  BY DEF Deliver
<1>2. /\ packet.at = "wait" /\ packet'.at = "got" /\ packet'.api = device
      /\ device # "closed"
      /\ UNCHANGED <<device, audio, vad, main, reloads, vadReady, session>>
  BY <1>1 DEF Deliver, speech, others
<1>3. PacketInv'
  BY <1>2 DEF PacketInv
<1>4. PrimeInv' /\ BehindInv'
  <2>1. \A h, a, first : Behind(packet, h, a, first) => Behind(packet', h, a, first)
    BY <1>2 DEF Behind
  <2> QED
    BY <1>2, <2>1 DEF FedInv, PrimeInv, BehindInv, Own, Hearing
<1>5. OutcomeInv'
  BY <1>2, OutcomeRests DEF FedInv, Busy, AtTheClose
<1> QED
  BY <1>2, <1>3, <1>4, <1>5 DEF FedInv

LEMMA DropFeeds ==
  ASSUME TypeInv, FedInv, Drop \/ LeaveOut
  PROVE  FedInv'
<1>1. /\ packet.at = "got" /\ packet'.at = "wait" /\ packet'.api = "closed"
      /\ UNCHANGED <<device, audio, vad, main, reloads, vadReady, session>>
  BY DEF Drop, LeaveOut, Waiting, speech, others
<1>2. PacketInv'
  BY <1>1 DEF PacketInv
<1>3. PrimeInv' /\ BehindInv'
  <2>1. \A h, a, first : Behind(packet, h, a, first) => Behind(packet', h, a, first)
    BY <1>1 DEF Behind
  <2> QED
    BY <1>1, <2>1 DEF FedInv, PrimeInv, BehindInv, Own, Hearing
<1>4. OutcomeInv'
  BY <1>1, OutcomeRests DEF FedInv, Busy, AtTheClose
<1> QED
  BY <1>1, <1>2, <1>3, <1>4 DEF FedInv

LEMMA BehindFed ==
  ASSUME NEW p, NEW q, NEW h \in Seq(Blocks), NEW a \in Seq(Blocks), NEW first,
         p.block \in Blocks, Behind(p, h, a, first), p.at = "feed", q.at # "feed"
  PROVE  Behind(q, Append(h, p.block), a, first)
<1> DEFINE b == p.block
           fed == Append(h, b)
<1>1. fed \in Seq(Blocks)
  OBVIOUS
<1>2. PICK d \in Seq(Blocks) :
        /\ IsDue(d, a, first)
        /\ \/ h = d
           \/ \E before \in Seq(Blocks) : d = Append(before, b) /\ Nearly(h, before)
  BY DEF Behind
<1>3. Nearly(fed, d)
  <2>1. CASE h = d
    BY <2>1, NearlyStale
  <2>2. ASSUME NEW before \in Seq(Blocks), d = Append(before, b), Nearly(h, before)
        PROVE  Nearly(fed, d)
    BY <2>2, NearlyAppend
  <2> QED
    BY <1>2, <2>1, <2>2
<1> QED
  BY <1>2, <1>3 DEF Behind

LEMMA FeedVadFeeds ==
  ASSUME TypeInv, FedInv, FeedVad
  PROVE  FedInv'
<1> DEFINE b == packet.block
<1>1. /\ packet.at = "feed" /\ packet'.at = "wait" /\ packet'.api = "closed"
      /\ UNCHANGED <<device, audio, main, reloads, vadReady, session>>
      /\ vad' = FedVad(<<b>>)
  BY DEF FeedVad, Waiting, others
<1>2. /\ b \in Blocks /\ audio \in Seq(Blocks) /\ main.pcm \in Seq(Blocks)
      /\ vad \in Vads(vad) /\ vad.heard \in Seq(Blocks)
  BY DEF TypeInv, Mains, FedInv
<1>3. /\ vad'.shared = vad.shared
      /\ ~vad.shared => vad'.heard = Append(vad.heard, b)
      /\ vad'.heard \in Seq(Blocks)
  <2>1. vad.heard \o <<b>> = Append(vad.heard, b) /\ Append(vad.heard, b) \in Seq(Blocks)
    BY <1>2
  <2> QED
    BY <1>1, <1>2, <2>1, FedVadHeard
<1>4. PacketInv'
  BY <1>1 DEF PacketInv
<1>5. PrimeInv'
  <2>1. Own' => vad'.heard = Append(vad.heard, b) /\ Own
    BY <1>1, <1>3 DEF Own
  <2>2. vad.heard = <<>> => Len(Append(vad.heard, b)) = 1
    BY <1>2
  <2> QED
    BY <1>1, <2>1, <2>2 DEF PrimeInv, FedInv
<1>6. BehindInv'
  <2>1. Hearing' => vad'.heard = Append(vad.heard, b) /\ Hearing
    BY <1>1, <1>3 DEF Hearing, Own
  <2>2. ASSUME NEW a \in Seq(Blocks), Behind(packet, vad.heard, a, main.first)
        PROVE  Behind(packet', Append(vad.heard, b), a, main.first)
    BY <1>1, <1>2, <2>2, BehindFed
  <2> QED
    BY <1>1, <1>2, <2>1, <2>2 DEF FedInv, BehindInv
<1>7. OutcomeInv'
  BY <1>1, OutcomeRests DEF FedInv, Busy, AtTheClose
<1> QED
  BY <1>1, <1>3, <1>4, <1>5, <1>6, <1>7 DEF FedInv

LEMMA RecordKeepsSession ==
  ASSUME TypeInv, HearType, Record
  PROVE  /\ session'.on = session.on
         /\ ~session.on => vad' = vad
         /\ vad' = vad \/ vad' = FedVad(<<packet.block>>)
<1> DEFINE one == <<packet.block>>
           sent == Trimmed(session, one)
<1>1. /\ one \in Seq(Blocks) /\ session \in Sessions /\ trimmer \in TypedTrimmers
  BY DEF TypeInv, HearType
<1>2. \/ Listening /\ session' = sent.session /\ vad' = FedVad(one)
      \/ Listening /\ session' = EnqueuePcmChunk(session, one) /\ vad' = vad
      \/ session' = session /\ vad' = vad
  BY DEF Record
<1> HIDE DEF one
<1>3. sent.session.on = session.on
  BY <1>1, TrimmedHears
<1>4. EnqueuePcmChunk(session, one).on = session.on
  BY <1>1, EnqueueType
<1> HIDE DEF sent
<1> QED
  BY <1>2, <1>3, <1>4 DEF Listening, one

\* A block is recorded, and the callback goes on to feed it, or waveIn had it
\* in its hands before the capture began.
LEMMA BehindRecorded ==
  ASSUME NEW p, NEW q, NEW h \in Seq(Blocks), NEW a \in Seq(Blocks), NEW first,
         p.block \in Blocks, Behind(p, h, a, first), p.at = "got",
         \/ q.at = "feed" /\ q.block = p.block
         \/ q.at # "feed" /\ a = <<>> /\ p.block.n < first
  PROVE  Behind(q, h, Append(a, p.block), first)
<1> DEFINE b == p.block
<1>1. PICK d \in Seq(Blocks) : IsDue(d, a, first) /\ Nearly(h, d)
  BY DEF Behind
<1>2. CASE q.at = "feed" /\ q.block = b
  <2>1. IsDue(Append(d, b), Append(a, b), first) /\ Append(d, b) \in Seq(Blocks)
    BY <1>1, DueAppend
  <2> QED
    BY <1>1, <1>2, <2>1 DEF Behind
<1>3. CASE q.at # "feed" /\ a = <<>> /\ b.n < first
  <2>1. d = <<>>
    BY <1>1, <1>3 DEF IsDue
  <2>2. Append(a, b) # <<>> /\ Append(a, b)[1] = b /\ Tail(Append(a, b)) = <<>>
    BY <1>3
  <2>3. IsDue(d, Append(a, b), first)
    BY <1>3, <2>1, <2>2 DEF IsDue
  <2> QED
    BY <1>1, <1>3, <2>3 DEF Behind
<1> QED
  BY <1>2, <1>3

LEMMA RecordFeeds ==
  ASSUME TypeInv, CaptureInv, HearInv, FedInv, Record
  PROVE  FedInv'
<1> DEFINE b == packet.block
<1>1. /\ packet.at = "got" /\ ~suppressed /\ audio' = Append(audio, b)
      /\ packet' = IF FeedsVad THEN [packet EXCEPT !.at = "feed"] ELSE Waiting
      /\ UNCHANGED <<device, main, reloads, vadReady>>
  BY DEF Record, others
<1>2. /\ b \in Blocks /\ audio \in Seq(Blocks) /\ main.pcm \in Seq(Blocks)
      /\ vad \in Vads(vad) /\ vad.heard \in Seq(Blocks) /\ packet.api \in Apis
  BY DEF TypeInv, Mains, FedInv
<1>3. /\ session'.on = session.on
      /\ ~session.on => vad' = vad
      /\ vad' = vad \/ vad' = FedVad(<<b>>)
  BY RecordKeepsSession DEF HearInv
<1>4. \/ /\ FeedsVad /\ packet'.at = "feed" /\ packet'.block = b /\ packet'.api = packet.api
      \/ ~FeedsVad /\ packet'.at = "wait" /\ packet'.api = "closed"
  BY <1>1 DEF Waiting, TypeInv
<1>5. PacketInv'
  BY <1>1, <1>4 DEF FedInv, PacketInv, FeedsVad
<1>6. vad'.heard \in Seq(Blocks)
  <2>1. vad.heard \o <<b>> \in Seq(Blocks)
    BY <1>2
  <2> QED
    BY <1>2, <1>3, <2>1, FedVadHeard
<1>7. PrimeInv'
  <2> SUFFICES ASSUME main.at = "built", main.mode = "local", Own'
               PROVE  /\ Len(vad'.heard) <= 1
                      /\ packet'.at = "feed" => vad'.heard = <<>>
    BY <1>1 DEF PrimeInv
  <2>1. ~session.on /\ ~vadReady
    BY DEF HearInv, FedInv, Early
  <2>2. vad' = vad /\ packet'.at # "feed"
    BY <1>3, <1>4, <2>1 DEF FeedsVad
  <2> QED
    BY <1>1, <2>2 DEF FedInv, PrimeInv, Own
<1>8. BehindInv'
  <2> SUFFICES ASSUME Hearing'
               PROVE  /\ main.at = "recording" =>
                           Behind(packet', vad'.heard, Append(audio, b), main.first)
                      /\ main.at = "stopped" =>
                           Behind(packet', vad'.heard, main.pcm, main.first)
    BY <1>1 DEF BehindInv
  <2>1. Hearing /\ vad' = vad /\ device = "wasapi" /\ vadReady /\ ~session.on
    BY <1>1, <1>3 DEF Hearing, Own
  <2>2. main.at # "stopped"
    BY <1>1, <2>1 DEF CaptureInv, Capturing
  <2>3. ASSUME main.at = "recording"
        PROVE  Behind(packet', vad.heard, Append(audio, b), main.first)
    <3>1. Behind(packet, vad.heard, audio, main.first)
      BY <2>1, <2>3 DEF FedInv, BehindInv
    <3>2. \/ packet'.at = "feed" /\ packet'.block = b
          \/ packet'.at # "feed" /\ audio = <<>> /\ b.n < main.first
      <4>1. CASE FeedsVad
        BY <1>4, <4>1
      <4>2. CASE ~FeedsVad
        <5>1. packet.api # device
          BY <2>1, <4>2 DEF FeedsVad
        <5>2. Capturing
          BY <2>3 DEF Capturing
        <5> QED
          BY <1>1, <1>4, <4>2, <5>1, <5>2 DEF FedInv, PacketInv
      <4> QED
        BY <4>1, <4>2
    <3> QED
      BY <1>1, <1>2, <3>1, <3>2, BehindRecorded
  <2> QED
    BY <2>1, <2>2, <2>3
<1>9. OutcomeInv'
  BY <1>1, OutcomeRests DEF FedInv, Busy, AtTheClose
<1> QED
  BY <1>1, <1>5, <1>6, <1>7, <1>8, <1>9 DEF FedInv

(***************************************************************************)
(* A recording begins.                                                     *)
(***************************************************************************)

LEMMA PacketAtTheStart ==
  ASSUME TypeInv, CaptureInv, PacketInv, ~Capturing, StartAudioCapture,
         main'.first = delivered + 1, packet' = packet
  PROVE  PacketInv'
<1>1. /\ (device = "closed" \/ suppressed) => audio' = <<>>
      /\ device # "closed" => device' = device
  BY CaptureStarts DEF StartAudioCapture
<1>2. suppressed \/ device = "closed"
  BY DEF CaptureInv
<1>3. packet.at = "got" => packet.block.n = delivered
  BY DEF CaptureInv
<1>4. delivered < delivered + 1
  BY DEF TypeInv
<1> QED
  BY <1>1, <1>2, <1>3, <1>4 DEF PacketInv

LEMMA BeginCaptureOnlyFeeds ==
  ASSUME TypeInv, CaptureInv, HearInv, FedInv, BeginCaptureOnly
  PROVE  FedInv'
<1>1. /\ main.at = "idle" /\ StartAudioCapture
      /\ main' = [Idle EXCEPT !.at = "pending", !.first = delivered + 1]
      /\ packet' = packet /\ vad' = vad
  BY DEF BeginCaptureOnly, speech
<1>2. main'.at = "pending" /\ main'.first = delivered + 1 /\ main'.outcome = NoOutcome
  BY <1>1 DEF Idle
<1>3. ~Capturing
  BY <1>1 DEF Capturing
<1>4. PacketInv'
  BY <1>1, <1>2, <1>3, PacketAtTheStart DEF FedInv
<1> QED
  BY <1>1, <1>2, <1>4, OutcomeGone, FeedingElsewhere DEF FedInv, Early

LEMMA OpenCaptureFeeds ==
  ASSUME TypeInv, CaptureInv, HearInv, FedInv, OpenCapture
  PROVE  FedInv'
<1>1. /\ main.at = "detached" /\ StartAudioCapture
      /\ main' = [main EXCEPT !.at = "opened", !.first = delivered + 1]
      /\ packet' = packet /\ vad' = vad /\ vadReady' = vadReady
  BY DEF OpenCapture, speech
<1>2. /\ main'.at = "opened" /\ main'.first = delivered + 1 /\ main'.outcome = main.outcome
  BY <1>1 DEF TypeInv, Mains
<1>3. ~Capturing /\ main.outcome = NoOutcome /\ ~vadReady
  BY <1>1 DEF Capturing, FedInv, OutcomeInv, Busy, Early
<1>4. PacketInv'
  BY <1>1, <1>2, <1>3, PacketAtTheStart DEF FedInv
<1> QED
  BY <1>1, <1>2, <1>3, <1>4, OutcomeGone, FeedingElsewhere DEF FedInv

LEMMA DiscardPendingCaptureFeeds ==
  ASSUME TypeInv, FedInv, DiscardPendingCapture
  PROVE  FedInv'
<1>1. /\ main.at = "pending" /\ packet' = packet /\ vad' = vad /\ device' = device
      /\ main' = [main EXCEPT !.at = IF stale THEN "closing" ELSE "idle",
                              !.next = "idle"]
  BY DEF DiscardPendingCapture, StopAudioCapture, speech
<1>2. main'.at \in {"closing", "idle"} /\ main'.outcome = main.outcome
  BY <1>1 DEF TypeInv, Mains
<1>3. main.outcome = NoOutcome
  BY <1>1 DEF FedInv, OutcomeInv, Busy
<1>4. PacketInv'
  BY <1>1, <1>2 DEF FedInv, PacketInv, Capturing
<1> QED
  BY <1>1, <1>2, <1>3, <1>4, OutcomeGone, FeedingElsewhere DEF FedInv, Early

LEMMA DetachFeeds ==
  ASSUME TypeInv, FedInv, Detach
  PROVE  FedInv'
<1>1. /\ main.at \in {"idle", "pending"} /\ ~vadReady' /\ vad' = vad
      /\ UNCHANGED <<device, packet, audio>>
  BY DEF Detach, world
<1>2. PICK mode \in Modes :
        main' = [main EXCEPT !.at = IF @ = "idle" THEN "detached" ELSE "opened",
                             !.mode = mode, !.outcome = NoOutcome, !.pcm = <<>>]
  BY DEF Detach
<1>3. /\ main'.at = IF main.at = "idle" THEN "detached" ELSE "opened"
      /\ main'.outcome = NoOutcome /\ main'.first = main.first
  BY <1>2 DEF TypeInv, Mains
<1>4. PacketInv'
  BY <1>1, <1>3, PacketRests DEF FedInv, Capturing
<1> QED
  BY <1>1, <1>3, <1>4, OutcomeGone, FeedingElsewhere DEF FedInv

LEMMA PlacesApart ==
  ASSUME TypeInv, NEW place, Goes(place)
  PROVE  /\ main'.at = place /\ main'.first = main.first /\ main'.mode = main.mode
         /\ main'.outcome = main.outcome
  BY DEF TypeInv, Mains, Goes

\* From its opening on nothing is asked of the VAD until it is reset.
LEMMA StartGoesOnFeeds ==
  ASSUME TypeInv, FedInv, UNCHANGED <<packet, device, audio>>, ~vadReady',
         vad'.heard \in Seq(Blocks), main.at = "opened",
         NEW place \in {"built", "recording"},
         Goes(place), place = "built" => main.mode # "local"
  PROVE  FedInv'
<1>1. /\ main'.at = place /\ main'.first = main.first /\ main'.mode = main.mode
      /\ main'.outcome = main.outcome
  BY PlacesApart
<1>2. main.outcome = NoOutcome
  BY DEF FedInv, OutcomeInv, Busy
<1>3. PacketInv'
  BY <1>1, PacketRests DEF FedInv, Capturing
<1> QED
  BY <1>1, <1>2, <1>3, OutcomeGone, NotReadyNotHearing, FeedingElsewhere

LEMMA StartsFeed ==
  ASSUME TypeInv, FedInv, SessionStartFails \/ PlainStarts \/ BatchBegins
  PROVE  FedInv'
<1>1. /\ main.at = "opened" /\ UNCHANGED <<packet, device, audio, vad, vadReady>>
      /\ Goes("recording") \/ (Goes("built") /\ main.mode = "plain")
  BY DEF SessionStartFails, PlainStarts, BatchBegins, world, speech
<1>2. ~vadReady' /\ vad'.heard \in Seq(Blocks)
  BY <1>1 DEF FedInv, Early
<1> QED
  BY <1>1, <1>2, StartGoesOnFeeds

LEMMA TrimmerStartsFeeds ==
  ASSUME TypeInv, FedInv, TrimmerStarts
  PROVE  FedInv'
<1>1. /\ main.at = "opened" /\ main.mode = "trim" /\ ~vadReady' /\ Goes("built")
      /\ UNCHANGED <<packet, device, audio>> /\ vad' \in {ResetVad, vad}
  BY DEF TrimmerStarts, world
<1>2. vad'.heard \in Seq(Blocks)
  BY <1>1, FedTypes DEF FedInv
<1> QED
  BY <1>1, <1>2, StartGoesOnFeeds

LEMMA ActivateStreamingSessionFeeds ==
  ASSUME TypeInv, HearInv, FedInv, ActivateStreamingSession
  PROVE  FedInv'
<1>1. /\ main.at = "built" /\ Goes("recording") /\ UNCHANGED <<packet, device, audio>>
      /\ vad' = vad \/ vad' = FedVad(audio)
      /\ \/ session' = Trimmed(NewSession, audio).session
         \/ session' = EnqueuePcmChunk(NewSession, audio)
  BY DEF ActivateStreamingSession, world
<1>2. /\ main'.at = "recording" /\ main'.first = main.first /\ main'.outcome = main.outcome
  BY <1>1, PlacesApart
<1>3. /\ vad.heard \in Seq(Blocks) /\ audio \in Seq(Blocks) /\ vad \in Vads(vad)
      /\ trimmer \in TypedTrimmers
  BY DEF FedInv, TypeInv, HearInv, HearType
<1>4. vad'.heard \in Seq(Blocks)
  <2>1. vad.heard \o audio \in Seq(Blocks)
    BY <1>3
  <2> QED
    BY <1>1, <1>3, <2>1, FedVadHeard
<1>5. session'.on
  <2>1. Trimmed(NewSession, audio).session.on
    BY <1>3, HearingTypes, TrimmedHears
  <2>2. EnqueuePcmChunk(NewSession, audio).on
    BY <1>3, HearingTypes, EnqueueType
  <2> QED
    BY <1>1, <2>1, <2>2
<1>6. main.outcome = NoOutcome
  BY <1>1 DEF FedInv, OutcomeInv, Busy
<1>7. PacketInv'
  BY <1>1, <1>2, PacketRests DEF FedInv, Capturing
<1> QED
  BY <1>2, <1>4, <1>5, <1>6, <1>7, OutcomeGone, NotReadyNotHearing, FeedingElsewhere
     DEF Early

LEMMA LocalVadResetsFeeds ==
  ASSUME TypeInv, FedInv, LocalVadResets
  PROVE  FedInv'
<1>1. PICK loaded \in {TRUE, vad.there} :
        /\ vad' = IF loaded THEN ResetVad ELSE vad
        /\ Goes(IF loaded THEN "built" ELSE "recording")
  BY DEF LocalVadResets
<1>2. /\ main.at = "opened" /\ ~vadReady' /\ UNCHANGED <<packet, device, audio>>
      /\ vad'.heard \in Seq(Blocks) /\ loaded \in BOOLEAN
  BY <1>1, FedTypes DEF LocalVadResets, world, FedInv, TypeInv, Vads
<1>3. CASE loaded
  <2>1. main'.at = "built" /\ main'.first = main.first /\ main'.outcome = main.outcome
    BY <1>1, <1>3, PlacesApart
  <2>2. vad'.heard = <<>>
    BY <1>1, <1>3, FedTypes
  <2>3. PrimeInv'
    BY <2>2 DEF PrimeInv
  <2>4. BehindInv'
    BY <1>2, NotReadyNotHearing DEF BehindInv
  <2>5. PacketInv'
    BY <1>2, <2>1, PacketRests DEF FedInv, Capturing
  <2>6. main.outcome = NoOutcome
    BY <1>2 DEF FedInv, OutcomeInv, Busy
  <2> QED
    BY <1>2, <2>1, <2>3, <2>4, <2>5, <2>6, OutcomeGone DEF FedInv
<1>4. CASE ~loaded
  <2>1. Goes("recording")
    BY <1>1, <1>4
  <2> QED
    BY <1>2, <2>1, StartGoesOnFeeds
<1> QED
  BY <1>2, <1>3, <1>4

\* What was fed since the reset, at most one block, and what was captured.
LEMMA BehindPrimed ==
  ASSUME NEW p, NEW x \in Seq(Blocks), NEW a \in Seq(Blocks), NEW first, Len(x) <= 1,
         p.at = "feed" => x = <<>>
  PROVE  Behind(p, x \o a, a, first)
<1>1. IsDue(a, a, first)
  BY DEF IsDue
<1>2. CASE x = <<>>
  <2>1. x \o a = a
    BY <1>2
  <2> QED
    BY <1>1, <2>1 DEF Behind, Nearly
<1>3. CASE x # <<>>
  <2>1. Len(x) = 1
    <3>1. Len(x) \in Nat /\ (Len(x) = 0 => x = <<>>)
      OBVIOUS
    <3>2. \A n \in Nat : n <= 1 => n = 0 \/ n = 1
      OBVIOUS
    <3> QED
      BY <1>3, <3>1, <3>2
  <2>2. x[1] \in Blocks
    BY <2>1
  <2>3. x = <<x[1]>>
    BY <2>1
  <2>4. Nearly(x \o a, a)
    BY <2>2, <2>3, NearlyStale
  <2> QED
    BY <1>1, <1>3, <2>4 DEF Behind
<1> QED
  BY <1>2, <1>3

LEMMA LocalVadPrimedFeeds ==
  ASSUME TypeInv, HearInv, FedInv, LocalVadPrimed
  PROVE  FedInv'
<1>1. /\ main.at = "built" /\ main.mode = "local" /\ Goes("recording")
      /\ UNCHANGED <<packet, device, audio, session, reloads>>
      /\ vad' = IF audio = <<>> THEN vad ELSE FedVad(audio)
  BY DEF LocalVadPrimed, world, others
<1>2. /\ main'.at = "recording" /\ main'.first = main.first /\ main'.outcome = main.outcome
  BY <1>1, PlacesApart
<1>3. /\ vad.heard \in Seq(Blocks) /\ audio \in Seq(Blocks) /\ vad \in Vads(vad)
  BY DEF FedInv, TypeInv
<1>4. /\ vad'.shared = vad.shared
      /\ ~vad.shared => vad'.heard = vad.heard \o audio
      /\ vad'.heard \in Seq(Blocks)
  <2>1. /\ vad.heard \o audio \in Seq(Blocks)
        /\ audio = <<>> => vad.heard \o audio = vad.heard
    BY <1>3
  <2> QED
    BY <1>1, <1>3, <2>1, FedVadHeard
<1>5. PrimeInv'
  BY <1>2 DEF PrimeInv
<1>6. BehindInv'
  <2> SUFFICES ASSUME Hearing'
               PROVE  Behind(packet, vad'.heard, audio, main.first)
    BY <1>1, <1>2 DEF BehindInv
  <2>1. Own
    BY <1>1, <1>4 DEF Hearing, Own
  <2>2. Len(vad.heard) <= 1 /\ (packet.at = "feed" => vad.heard = <<>>)
    BY <1>1, <2>1 DEF FedInv, PrimeInv
  <2> QED
    BY <1>3, <1>4, <2>1, <2>2, BehindPrimed DEF Own
<1>7. PacketInv'
  BY <1>1, <1>2, PacketRests DEF FedInv, Capturing
<1>8. main.outcome = NoOutcome
  BY <1>1 DEF FedInv, OutcomeInv, Busy
<1> QED
  BY <1>2, <1>4, <1>5, <1>6, <1>7, <1>8, OutcomeGone DEF FedInv, Early

(***************************************************************************)
(* A recording ends.                                                       *)
(***************************************************************************)

LEMMA StopRecordingSessionFeeds ==
  ASSUME TypeInv, FedInv, StopRecordingSession
  PROVE  FedInv'
<1>1. /\ main.at = "recording"
      /\ UNCHANGED <<packet, device, vad, vadReady, session, reloads>>
      /\ main' = [main EXCEPT !.at = IF stale THEN "closing" ELSE "stopped",
                              !.next = "stopped", !.pcm = audio]
  BY DEF StopRecordingSession, StopAudioCapture, speech
<1>2. /\ main'.at \in {"closing", "stopped"} /\ main'.outcome = main.outcome
      /\ main'.first = main.first /\ main'.pcm = audio
  BY <1>1 DEF TypeInv, Mains
<1>3. PacketInv'
  BY <1>1, <1>2 DEF FedInv, PacketInv, Capturing
<1>4. PrimeInv' /\ ~Early(main.at)'
  BY <1>2 DEF PrimeInv, Early
<1>5. BehindInv'
  BY <1>1, <1>2 DEF FedInv, BehindInv, Hearing, Own
<1>6. main.outcome = NoOutcome
  BY <1>1 DEF FedInv, OutcomeInv, Busy
<1> QED
  BY <1>1, <1>2, <1>3, <1>4, <1>5, <1>6, OutcomeGone DEF FedInv

LEMMA CloseAudioCaptureFeeds ==
  ASSUME TypeInv, FedInv, CloseAudioCapture
  PROVE  FedInv'
<1>1. /\ main.at = "closing" /\ UNCHANGED <<packet, vad, reloads>>
      /\ main' = [main EXCEPT !.at = main.next] /\ device' = "closed"
      /\ device = "wasapi" => packet.api # "wasapi"
  BY DEF CloseAudioCapture, speech, others, Goes
<1>2. /\ main'.at = main.next /\ main.next \in {"idle", "stopped"}
      /\ main'.outcome = main.outcome /\ main'.first = main.first
  BY <1>1 DEF TypeInv, Mains
<1>3. PacketInv'
  BY <1>1, <1>2 DEF FedInv, PacketInv, Capturing
<1>4. OutcomeInv'
  <2>1. Busy(main)' => Busy(main)
    BY <1>1, <1>2 DEF Busy, AtTheClose
  <2> QED
    BY <1>1, <1>2, <2>1, OutcomeRests DEF FedInv
<1> QED
  BY <1>1, <1>2, <1>3, <1>4, NotReadyNotHearing, FeedingElsewhere DEF FedInv, Early

\* A recording ends without a word of the local VAD.
LEMMA EndsFeed ==
  ASSUME TypeInv, FedInv, main.at = "stopped", NEW verdict, Ends(verdict),
         UNCHANGED <<packet, device, vad>>
  PROVE  FedInv'
<1>1. /\ main' = [main EXCEPT !.at = "idle", !.outcome.verdict = verdict,
                              !.outcome.pcm = main.pcm]
      /\ main.outcome = NoOutcome /\ main \in Mains(main)
  BY DEF Ends, FedInv, OutcomeInv, Busy, TypeInv
<1>2. main'.at = "idle"
  BY EndsInIdle DEF TypeInv
<1>3. main'.outcome.api = "closed"
  <2> DEFINE o == [[NoOutcome EXCEPT !.verdict = verdict] EXCEPT !.pcm = main.pcm]
  <2>1. main' = [main EXCEPT !.at = "idle", !.outcome = o]
    BY <1>1 DEF Mains
  <2>2. o.api = "closed"
    BY DEF NoOutcome
  <2> HIDE DEF o
  <2> QED
    BY <1>1, <2>1, <2>2 DEF Mains
<1>4. OutcomeInv'
  <2>1. VadHearsRecording'
    BY <1>3 DEF VadHearsRecording
  <2> QED
    BY <1>2, <2>1 DEF OutcomeInv, Busy, AtTheClose
<1>5. PacketInv'
  BY <1>2 DEF FedInv, PacketInv, Capturing
<1> QED
  BY <1>2, <1>4, <1>5, FeedingElsewhere DEF FedInv, Early

LEMMA StopsFeed ==
  ASSUME TypeInv, FedInv, TooShort \/ StreamingStops \/ BatchStops
  PROVE  FedInv'
<1>1. /\ main.at = "stopped" /\ UNCHANGED <<packet, device, vad>>
      /\ Ends("short") \/ Ends("noSpeech") \/ Ends("recognize")
  BY DEF TooShort, StreamingStops, BatchStops, world, speech
<1> QED
  BY <1>1, EndsFeed

\* The VAD is as far as the end of a recording asks for.
Due(a, first) ==
  {a} \union {Tail(p) : p \in {q \in {a} : q # <<>> /\ q[1].n < first}}

LEMMA BehindIsHeard ==
  ASSUME NEW p, NEW h \in Seq(Blocks), NEW a \in Seq(Blocks), NEW first, p.block \in Blocks,
         Behind(p, h, a, first)
  PROVE  \E fed \in {h} \union OneLess(h), whole \in Due(a, first) :
           fed = whole \/ (whole # <<>> /\ fed = Front(whole))
<1>1. PICK d \in Seq(Blocks) :
        /\ IsDue(d, a, first)
        /\ \/ Nearly(h, d)
           \/ \E before \in Seq(Blocks) : d = Append(before, p.block) /\ Nearly(h, before)
  BY DEF Behind, Nearly
<1>2. d \in Due(a, first)
  BY <1>1 DEF IsDue, Due
<1>3. CASE Nearly(h, d)
  BY <1>2, <1>3 DEF Nearly
<1>4. ASSUME NEW before \in Seq(Blocks), d = Append(before, p.block), Nearly(h, before)
      PROVE  before \in {h} \union OneLess(h) /\ d # <<>> /\ before = Front(d)
  <2>1. ASSUME NEW b \in Blocks, NEW s, s = Append(before, b)
        PROVE  s # <<>> /\ Len(s) - 1 = Len(before) /\ SubSeq(s, 1, Len(before)) = before
    <3>1. Len(s) = Len(before) + 1 /\ Len(before) \in Nat /\ s \in Seq(Blocks)
      BY <2>1
    <3>2. SubSeq(s, 1, Len(before)) = before
      BY <2>1
    <3> QED
      BY <3>1, <3>2
  <2>2. before = Front(d)
    BY <1>4, <2>1 DEF Front
  <2> QED
    BY <1>4, <2>1, <2>2 DEF Nearly
<1> QED
  BY <1>1, <1>2, <1>3, <1>4 DEF Nearly

LEMMA LocalStopsFeeds ==
  ASSUME TypeInv, FedInv, LocalStops
  PROVE  FedInv'
<1>1. /\ main.at = "stopped" /\ vadReady /\ ~session.on
      /\ UNCHANGED <<packet, device, reloads>> /\ ~vadReady'
  BY DEF LocalStops, world, others
<1>2. /\ main \in Mains(main) /\ vad \in Vads(vad) /\ main.pcm \in Seq(Blocks)
      /\ packet.block \in Blocks /\ vad.heard \in Seq(Blocks)
  BY DEF TypeInv, Mains, FedInv
<1>3. PICK samples, post :
        /\ vad' = [vad EXCEPT !.post = post]
        /\ main' = [main EXCEPT !.at = "idle", !.outcome = LocalOutcome(post, samples)]
  BY DEF LocalStops
<1>4. vad'.heard = vad.heard /\ main'.at = "idle" /\ main'.first = main.first
  BY <1>2, <1>3 DEF Mains, Vads
<1>5. /\ main'.outcome.api = device /\ main'.outcome.heard = vad.heard
      /\ main'.outcome.pcm = main.pcm /\ main'.outcome.shared = vad.shared
  <2>1. main'.outcome = LocalOutcome(post, samples)
    BY <1>2, <1>3 DEF Mains
  <2> QED
    BY <2>1 DEF LocalOutcome
<1>6. VadHearsRecording'
  <2>1. CASE device = "wasapi" /\ ~vad.shared /\ reloads = 0
    <3>1. Behind(packet, vad.heard, main.pcm, main.first)
      BY <1>1, <2>1 DEF FedInv, BehindInv, Hearing, Own
    <3>2. \E fed \in {vad.heard} \union OneLess(vad.heard),
             whole \in Due(main.pcm, main.first) :
            fed = whole \/ (whole # <<>> /\ fed = Front(whole))
      BY <1>2, <3>1, BehindIsHeard
    <3> QED
      BY <1>4, <1>5, <3>2 DEF VadHearsRecording, OneLess, Due
  <2>2. CASE ~(device = "wasapi" /\ ~vad.shared /\ reloads = 0)
    BY <1>1, <1>5, <2>2 DEF VadHearsRecording
  <2> QED
    BY <2>1, <2>2
<1>7. OutcomeInv'
  BY <1>4, <1>6 DEF OutcomeInv, Busy, AtTheClose
<1>8. PacketInv'
  BY <1>1, <1>4 DEF FedInv, PacketInv, Capturing
<1> QED
  BY <1>1, <1>2, <1>4, <1>7, <1>8, FeedingElsewhere DEF Early

LEMMA KeepAliveExpiresFeeds ==
  ASSUME TypeInv, FedInv, KeepAliveExpires
  PROVE  FedInv'
<1>1. /\ main.at = "idle" /\ UNCHANGED <<packet, device, vad, reloads>>
      /\ main' = [main EXCEPT !.at = "closing", !.next = "idle"]
  BY DEF KeepAliveExpires, world, speech, others
<1>2. /\ main'.at = "closing" /\ main'.next = "idle" /\ main'.outcome = main.outcome
      /\ main'.first = main.first
  BY <1>1 DEF TypeInv, Mains
<1>3. PacketInv'
  BY <1>1, <1>2 DEF FedInv, PacketInv, Capturing
<1>4. OutcomeInv'
  BY <1>1, <1>2, OutcomeRests DEF FedInv, Busy, AtTheClose
<1> QED
  BY <1>1, <1>2, <1>3, <1>4, FeedingElsewhere DEF FedInv, Early

LEMMA FinalTakesSessionFeeds ==
  ASSUME FedInv, FinalTakesSession
  PROVE  FedInv'
<1>1. /\ main.at \in {"idle", "pending"}
      /\ UNCHANGED <<packet, device, audio, vad, main, reloads>>
  BY DEF FinalTakesSession, world, others
<1>2. PacketInv'
  BY <1>1, PacketRests DEF FedInv, Capturing
<1>3. OutcomeInv'
  BY <1>1, OutcomeRests DEF FedInv, Busy, AtTheClose
<1> QED
  BY <1>1, <1>2, <1>3, FeedingElsewhere DEF FedInv, Early

LEMMA ReloadMessageFeeds ==
  ASSUME TypeInv, FedInv, ReloadMessage
  PROVE  FedInv'
<1>1. /\ main.at \in {"idle", "pending", "recording"} /\ reloads' = reloads + 1
      /\ UNCHANGED <<packet, device, audio>> /\ vad' = NoVad
      /\ \/ main.at = "idle" /\ main' = [main EXCEPT !.at = "closing", !.next = "idle"]
         \/ main' = main
  BY DEF ReloadMessage, world
<1>2. reloads' > 0 /\ reloads' # 0
  BY <1>1 DEF TypeInv
<1>3. \/ main' = main
      \/ main'.at = "closing" /\ main'.next = "idle" /\ main.at = "idle"
  BY <1>1 DEF TypeInv, Mains
<1>4. /\ main'.outcome = main.outcome /\ main'.first = main.first
      /\ main'.at \in {"idle", "pending", "recording", "closing"}
      /\ Capturing' => Capturing
      /\ Busy(main)' => Busy(main)
  BY <1>1, <1>3 DEF TypeInv, Mains, Capturing, Busy, AtTheClose
<1>5. PacketInv'
  BY <1>1, <1>4, PacketRests DEF FedInv
<1>6. OutcomeInv'
  BY <1>2, <1>4 DEF FedInv, OutcomeInv, VadHearsRecording
<1>7. ~Hearing'
  BY <1>2 DEF Hearing, Own
<1> QED
  BY <1>1, <1>4, <1>5, <1>6, <1>7, FedTypes, FeedingElsewhere DEF Early

(***************************************************************************)
(* The other threads.                                                      *)
(***************************************************************************)

\* A thread that touches nothing but the VAD takes it from this recording.
LEMMA SharingFeeds ==
  ASSUME FedInv, UNCHANGED <<packet, device, audio, main, vadReady, session>>,
         reloads' = reloads, vad'.heard \in Seq(Blocks),
         \/ vad'.shared
         \/ ~Hearing /\ ~Hearing' /\ ~(main.at = "built" /\ main.mode = "local" /\ Own')
  PROVE  FedInv'
<1>1. PacketInv'
  BY PacketRests DEF FedInv, Capturing
<1>2. OutcomeInv'
  BY OutcomeRests DEF FedInv, Busy, AtTheClose
<1>3. ~Hearing' /\ ~(main.at = "built" /\ main.mode = "local" /\ Own)'
  BY DEF Hearing, Own
<1> QED
  BY <1>1, <1>2, <1>3, FeedingElsewhere DEF FedInv, Early

LEMMA PreloadAsrEngineFeeds ==
  ASSUME TypeInv, VadInv, FedInv, PreloadAsrEngine
  PROVE  FedInv'
<1>1. /\ ~vad.there /\ vad' = ResetVad
      /\ UNCHANGED <<packet, device, audio, main, vadReady, session, reloads>>
  BY DEF PreloadAsrEngine, world, others
<1>2. reloads = 0 => ~vadReady /\ ~(main.at = "built" /\ main.mode = "local")
  BY <1>1 DEF VadInv, NeedsVad
<1>3. ~Hearing /\ ~Hearing' /\ ~(main.at = "built" /\ main.mode = "local" /\ Own')
  BY <1>1, <1>2 DEF Hearing, Own
<1> QED
  BY <1>1, <1>3, FedTypes, SharingFeeds

LEMMA JobFeeds ==
  ASSUME TypeInv, FedInv, JobResetsVad \/ JobFeedsVad
  PROVE  FedInv'
<1>1. UNCHANGED <<packet, device, audio, main, vadReady, session, reloads>>
  BY DEF JobResetsVad, JobFeedsVad, world
<1>2. vad'.shared /\ vad'.heard \in Seq(Blocks)
  <2>1. CASE JobResetsVad
    <3>1. vad' = [ResetVad EXCEPT !.shared = TRUE]
      BY <2>1 DEF JobResetsVad
    <3> QED
      BY <3>1 DEF ResetVad, NoVad
  <2>2. CASE JobFeedsVad
    <3>1. PICK post : vad' = [vad EXCEPT !.post = post, !.shared = TRUE, !.heard = <<>>]
      BY <2>2 DEF JobFeedsVad, TypeInv, Vads
    <3> QED
      BY <3>1 DEF TypeInv, Vads
  <2> QED
    BY <2>1, <2>2
<1> QED
  BY <1>1, <1>2, SharingFeeds

LEMMA RestFeeds ==
  ASSUME TypeInv, HearType, FedInv, SessionStops \/ Crash \/ UNCHANGED vars
  PROVE  FedInv'
<1>1. /\ UNCHANGED <<packet, device, audio, vad, main, reloads, vadReady>>
      /\ session' = session \/ session' = [session EXCEPT !.running = FALSE]
  BY DEF SessionStops, Crash, vars, world, speech, others
<1>2. session'.on = session.on
  BY <1>1 DEF HearType, Sessions
<1> QED
  BY <1>1, <1>2, FeedingUnmoved

LEMMA InitFeeds == Init => FedInv
<1> SUFFICES ASSUME Init PROVE FedInv
  OBVIOUS
<1>1. /\ main.at = "idle" /\ main.outcome = NoOutcome /\ packet.at = "wait"
      /\ packet.api = "closed" /\ vad = NoVad
  BY DEF Init, Idle, Waiting
<1>2. PacketInv /\ PrimeInv /\ BehindInv
  BY <1>1 DEF PacketInv, PrimeInv, BehindInv
<1>3. OutcomeInv
  BY <1>1, NoOutcomeYet DEF OutcomeInv, VadHearsRecording
<1> QED
  BY <1>1, <1>2, <1>3, FedTypes DEF FedInv, Early

LEMMA FedKeeps ==
  ASSUME TypeInv, CaptureInv, VadInv, HearInv, FedInv, [Next]_vars
  PROVE  FedInv'
<1>1. CASE Callback
  BY <1>1, DeliverFeeds, DropFeeds, RecordFeeds, FeedVadFeeds DEF Callback
<1>2. CASE Starts
  BY <1>2, BeginCaptureOnlyFeeds, DiscardPendingCaptureFeeds, DetachFeeds,
     OpenCaptureFeeds, StartsFeed, TrimmerStartsFeeds, ActivateStreamingSessionFeeds,
     LocalVadResetsFeeds, LocalVadPrimedFeeds DEF Starts
<1>3. CASE Stops
  BY <1>3, StopRecordingSessionFeeds, CloseAudioCaptureFeeds, StopsFeed,
     LocalStopsFeeds, KeepAliveExpiresFeeds, FinalTakesSessionFeeds,
     ReloadMessageFeeds DEF Stops
<1>4. CASE Engine \/ Crash \/ UNCHANGED vars
  BY <1>4, PreloadAsrEngineFeeds, JobFeeds, RestFeeds DEF Engine, HearInv
<1> QED
  BY <1>1, <1>2, <1>3, <1>4 DEF Next

\* At the end of a local recording the VAD has heard it: each block once and
\* in order, but for the last one, and for one that is none of it.
THEOREM TheVadHearsTheRecording == Spec => []VadHearsRecording
<1>1. Inv /\ HearInv /\ FedInv /\ [Next]_vars => FedInv'
  BY FedKeeps DEF Inv
<1>2. FedInv => VadHearsRecording
  BY DEF FedInv, OutcomeInv
<1> QED
  BY <1>1, <1>2, InitFeeds, Invariance, HearInvariance, PTL DEF Spec

---------------------------------------------------------------------------
(***************************************************************************)
(* The postprocessor of the VAD, after any frames.                         *)
(***************************************************************************)

PostStates == {"SILENCE", "POSSIBLE_SPEECH", "SPEECH", "POSSIBLE_SILENCE"}

Posts ==
  [state : PostStates, window : Seq(BOOLEAN), frames : Nat, speech : Nat,
   silence : Nat, hitMax : BOOLEAN, start : Nat, lastEnd : Nat,
   segments : Seq(Nat \X Nat)]

VoicedFrom(voices, a, b) == \A i \in a .. b : voices[i]

\* No more than the last k frames up to frame t are voiced.
RunsAtMost(voices, t, k) ==
  \A a \in 1 .. t : VoicedFrom(voices, a, t) => t - a + 1 <= k

OpenFrames(p) == IF p.start = 0 THEN {} ELSE p.start .. p.frames

Covered(p) == Selected(p) \union OpenFrames(p)

\* The smoothing window has the last frames.
WindowInv(p, voices) ==
  LET m == Len(p.window)
  IN  /\ p.frames = Len(voices) /\ m <= p.frames /\ m <= SmoothWindow
      /\ m = p.frames \/ m = SmoothWindow
      /\ \A i \in 1 .. m : p.window[i] = voices[p.frames - m + i]

\* The segments are in order and disjoint.  No frame is lost right before the
\* end of the last one, nor between it and an open one that begins late.
OrderInv(p) ==
  /\ \A i \in DOMAIN p.segments :
       /\ 1 <= p.segments[i][1] /\ p.segments[i][1] <= p.segments[i][2]
       /\ p.segments[i][2] <= p.lastEnd
  /\ \A i, j \in DOMAIN p.segments : i < j => p.segments[i][2] < p.segments[j][1]

SegmentInv(p) ==
  /\ p.lastEnd <= p.frames /\ OrderInv(p)
  /\ \A f \in 1 .. p.lastEnd : f > p.lastEnd - SmoothWindow => f \in Selected(p)
  /\ p.start # 0 =>
       /\ p.lastEnd < p.start /\ p.start <= p.frames
       /\ p.start <= p.frames - SmoothWindow + 1 \/ p.start = p.lastEnd + 1

Speaking(p) == p.state \in {"SPEECH", "POSSIBLE_SILENCE"}

PhaseInv(p) ==
  /\ p.hitMax => p.state = "SPEECH" /\ p.lastEnd = p.frames
  /\ p.start # 0 <=> Speaking(p) /\ ~p.hitMax
  /\ p.state = "POSSIBLE_SPEECH" =>
       /\ 1 <= p.speech /\ p.lastEnd <= p.frames - p.speech
       /\ p.speech = 1 \/ p.speech < MinSpeech

\* How long a run the postprocessor may still be unaware of.
RunInv(p, voices) ==
  /\ p.state \in {"SILENCE", "POSSIBLE_SILENCE"} =>
       RunsAtMost(voices, p.frames, SmoothWindow - 1)
  /\ p.state = "POSSIBLE_SPEECH" =>
       RunsAtMost(voices, p.frames, p.speech + SmoothWindow - 1)
  /\ p.state = "SPEECH" =>
       \A a \in 1 .. p.frames :
         VoicedFrom(voices, a, p.frames) => a .. p.frames \subseteq Covered(p)

KeptInv(p, voices) ==
  \A run \in Runs(voices) : run[1] .. run[2] \subseteq Covered(p)

PostInv(p, voices) ==
  /\ p \in Posts /\ voices \in Seq(BOOLEAN)
  /\ WindowInv(p, voices) /\ SegmentInv(p) /\ PhaseInv(p)
  /\ RunInv(p, voices) /\ KeptInv(p, voices)

LEMMA VadFacts ==
  /\ SmoothWindow \in Nat /\ SmoothWindow >= 1 /\ MaxSpeech \in Nat
  /\ PadStart \in Nat /\ PadStart >= SmoothWindow
  /\ MinSpeech \in Nat /\ MinSilence \in Nat
  /\ ConfirmedAfter \in Nat /\ ConfirmedAfter >= SmoothWindow + 1
  /\ ConfirmedAfter >= MinSpeech + SmoothWindow - 1
  BY VadAssumption DEF PadStart, Larger, ConfirmedAfter

LEMMA FreshHolds == PostInv(FreshPost, <<>>)
<1> DEFINE p == FreshPost
<1>1. p \in Posts /\ <<>> \in Seq(BOOLEAN) /\ p.frames = 0 /\ p.window = <<>>
      /\ p.start = 0 /\ p.lastEnd = 0 /\ p.segments = <<>> /\ p.state = "SILENCE"
      /\ p.hitMax = FALSE
  BY DEF FreshPost, Posts, PostStates
<1> HIDE DEF p
<1>2. WindowInv(p, <<>>)
  BY <1>1, VadFacts DEF WindowInv
<1>3. SegmentInv(p) /\ PhaseInv(p)
  BY <1>1 DEF SegmentInv, OrderInv, PhaseInv, Speaking
<1>4. RunInv(p, <<>>)
  BY <1>1 DEF RunInv, RunsAtMost
<1>5. KeptInv(p, <<>>)
  BY DEF KeptInv, Runs
<1> QED
  BY <1>1, <1>2, <1>3, <1>4, <1>5 DEF PostInv, p

\* A window of voiced frames only is speech.
LEMMA AllVoicedIsSpeech ==
  ASSUME NEW window \in Seq(BOOLEAN), \A i \in 1 .. Len(window) : window[i]
  PROVE  IsSpeech(window)
<1>1. {i \in DOMAIN window : window[i]} = 1 .. Len(window)
  OBVIOUS
<1>2. Voiced(window) = Len(window)
  <2> DEFINE n == Len(window)
  <2>0. n \in Nat
    OBVIOUS
  <2> HIDE DEF n
  <2>1. Cardinality(1 .. n) = n
    <3>1. Cardinality(1 .. n) = IF 1 > n THEN 0 ELSE n - 1 + 1
      BY <2>0, FS_Interval
    <3> QED
      BY <2>0, <3>1
  <2> QED
    BY <1>1, <2>1 DEF Voiced, n
<1>3. \A n, a, b \in Nat : a <= b => n * b >= a * n
  OBVIOUS
<1> QED
  BY <1>2, <1>3, VadAssumption DEF IsSpeech

LEMMA WindowStep ==
  ASSUME NEW p \in Posts, NEW voices \in Seq(BOOLEAN), WindowInv(p, voices),
         NEW voice \in BOOLEAN,
         NEW q \in Posts, q.frames = p.frames + 1, q.window = SmoothProb(p, voice)
  PROVE  WindowInv(q, Append(voices, voice))
<1> DEFINE w == p.window
           m == Len(w)
           t == p.frames
           longer == Append(w, voice)
           vs == Append(voices, voice)
<1>1. w \in Seq(BOOLEAN) /\ m \in Nat /\ t \in Nat /\ t = Len(voices)
      /\ (m = t \/ m = SmoothWindow) /\ m <= t /\ m <= SmoothWindow
      /\ \A i \in 1 .. m : w[i] = voices[t - m + i]
  BY DEF Posts, WindowInv
<1>2. Len(vs) = t + 1 /\ vs[t + 1] = voice /\ \A i \in 1 .. t : vs[i] = voices[i]
  BY <1>1
<1>3. Len(longer) = m + 1 /\ longer[m + 1] = voice
      /\ \A i \in 1 .. m : longer[i] = w[i]
  BY <1>1
<1>4. \A i \in 1 .. m + 1 : longer[i] = vs[t - m + i]
  <2> TAKE i \in 1 .. m + 1
  <2>1. CASE i = m + 1
    BY <2>1, <1>1, <1>2, <1>3
  <2>2. CASE i # m + 1
    <3>1. i \in 1 .. m /\ t - m + i \in 1 .. t
      BY <2>2, <1>1
    <3> QED
      BY <3>1, <1>1, <1>2, <1>3
  <2> QED
    BY <2>1, <2>2
<1>5. longer \in Seq(BOOLEAN)
  BY <1>1
<1> HIDE DEF longer, vs, w, m, t
<1>6. CASE m + 1 > SmoothWindow
  <2>1. q.window = Tail(longer) /\ m = SmoothWindow
    <3>1. m = SmoothWindow /\ Len(longer) > SmoothWindow
      BY <1>6, <1>1, <1>3, VadFacts
    <3> QED
      BY <3>1 DEF SmoothProb, longer, w
  <2>2. Len(q.window) = m /\ \A i \in 1 .. m : q.window[i] = longer[i + 1]
    BY <2>1, <1>1, <1>3, <1>5
  <2>3. \A i \in 1 .. m : q.window[i] = vs[(t + 1) - m + i]
    <3> TAKE i \in 1 .. m
    <3>1. i + 1 \in 1 .. m + 1 /\ t - m + (i + 1) = (t + 1) - m + i
      BY <1>1
    <3> QED
      BY <3>1, <2>2, <1>4
  <2> QED
    <3>1. q.frames = t + 1 /\ Len(q.window) = m /\ m <= SmoothWindow
          /\ m <= t + 1 /\ t + 1 = Len(vs)
      BY <2>1, <2>2, <1>1, <1>2 DEF t
    <3> QED
      BY <3>1, <2>1, <2>3 DEF WindowInv, vs
<1>7. CASE ~(m + 1 > SmoothWindow)
  <2>1. q.window = longer /\ m = t
    BY <1>7, <1>1, <1>3, VadFacts DEF SmoothProb, longer, w
  <2>2. \A i \in 1 .. m + 1 : q.window[i] = vs[(t + 1) - (m + 1) + i]
    <3> TAKE i \in 1 .. m + 1
    <3>1. (t + 1) - (m + 1) + i = t - m + i
      BY <1>1
    <3> QED
      BY <3>1, <2>1, <1>4
  <2> QED
    BY <2>1, <2>2, <1>1, <1>2, <1>3, <1>7, VadFacts DEF WindowInv, vs, t
<1> QED
  BY <1>6, <1>7

\* After a window that is no speech there is an unvoiced frame.
LEMMA NoSpeechBreaksRuns ==
  ASSUME NEW p \in Posts, NEW voices \in Seq(BOOLEAN), WindowInv(p, voices),
         ~IsSpeech(p.window)
  PROVE  RunsAtMost(voices, p.frames, SmoothWindow - 1)
<1> DEFINE w == p.window
           m == Len(w)
           t == p.frames
<1>0. w \in Seq(BOOLEAN) /\ m \in Nat /\ t \in Nat
  BY DEF Posts
<1>1. w \in Seq(BOOLEAN) /\ m \in Nat /\ t \in Nat /\ m <= t /\ m <= SmoothWindow
      /\ \A i \in 1 .. m : w[i] = voices[t - m + i]
  BY <1>0 DEF WindowInv
<1>2. PICK i \in 1 .. m : ~w[i]
  BY <1>1, AllVoicedIsSpeech
<1>3. ~voices[t - m + i] /\ t - m + i \in 1 .. t
  BY <1>1, <1>2
<1> HIDE DEF w, m, t
<1> SUFFICES ASSUME NEW a \in 1 .. t, VoicedFrom(voices, a, t)
             PROVE  t - a + 1 <= SmoothWindow - 1
  BY DEF RunsAtMost, t
<1>4. ~(t - m + i \in a .. t)
  BY <1>3 DEF VoicedFrom
<1> QED
  BY <1>1, <1>2, <1>3, <1>4, VadFacts

LEMMA RunsGrow ==
  ASSUME NEW voices \in Seq(BOOLEAN), NEW voice \in BOOLEAN, NEW t \in Nat,
         t = Len(voices), NEW k \in Int, k >= 0, RunsAtMost(voices, t, k)
  PROVE  RunsAtMost(Append(voices, voice), t + 1, k + 1)
<1> DEFINE vs == Append(voices, voice)
<1>1. \A i \in 1 .. t : vs[i] = voices[i]
  OBVIOUS
<1> HIDE DEF vs
<1> SUFFICES ASSUME NEW a \in 1 .. t + 1, VoicedFrom(vs, a, t + 1)
             PROVE  (t + 1) - a + 1 <= k + 1
  BY DEF RunsAtMost, vs
<1>2. CASE a = t + 1
  BY <1>2
<1>3. CASE a # t + 1
  <2>1. a \in 1 .. t /\ VoicedFrom(voices, a, t)
    BY <1>1, <1>3 DEF VoicedFrom
  <2> QED
    BY <2>1 DEF RunsAtMost
<1> QED
  BY <1>2, <1>3

SameSegments(p, q) == q.segments = p.segments /\ q.lastEnd = p.lastEnd

LEMMA SelectedAppend ==
  ASSUME NEW p \in Posts, NEW q \in Posts, NEW a \in Nat, NEW b \in Nat,
         q.segments = Append(p.segments, <<a, b>>)
  PROVE  Selected(q) = Selected(p) \union (a .. b)
<1> DEFINE s == p.segments
           u == q.segments
           n == Len(s)
<1>0. s \in Seq(Nat \X Nat)
  BY DEF Posts
<1>1. n \in Nat /\ Len(u) = n + 1
      /\ u[n + 1] = <<a, b>> /\ \A i \in 1 .. n : u[i] = s[i]
  BY <1>0
<1>2. DOMAIN s = 1 .. n /\ DOMAIN u = 1 .. n + 1
  BY <1>0
<1> HIDE DEF s, u, n
<1>3. \A f : f \in Selected(q) <=> f \in Selected(p) \union (a .. b)
  <2> TAKE f
  <2>1. ASSUME f \in Selected(q) PROVE f \in Selected(p) \union (a .. b)
    <3>1. PICK i \in 1 .. n + 1 : f \in u[i][1] .. u[i][2]
      BY <2>1, <1>2 DEF Selected, u
    <3>2. CASE i = n + 1
      BY <3>1, <3>2, <1>1
    <3>3. CASE i # n + 1
      <4>1. i \in DOMAIN s /\ f \in s[i][1] .. s[i][2]
        BY <3>1, <3>3, <1>1, <1>2
      <4> QED
        BY <4>1 DEF Selected, s
    <3> QED
      BY <3>2, <3>3
  <2>2. ASSUME f \in Selected(p) PROVE f \in Selected(q)
    <3>1. PICK i \in 1 .. n : f \in s[i][1] .. s[i][2]
      BY <2>2, <1>2 DEF Selected, s
    <3>2. i \in DOMAIN u /\ f \in u[i][1] .. u[i][2]
      BY <3>1, <1>1, <1>2
    <3> QED
      BY <3>2 DEF Selected, u
  <2>3. ASSUME f \in a .. b PROVE f \in Selected(q)
    <3>1. n + 1 \in DOMAIN u /\ f \in u[n + 1][1] .. u[n + 1][2]
      BY <2>3, <1>1, <1>2
    <3> QED
      BY <3>1 DEF Selected, u
  <2> QED
    BY <2>1, <2>2, <2>3
<1> QED
  BY <1>3

\* With a segment open, nothing of the last frames is lost.
LEMMA LateFramesCovered ==
  ASSUME NEW p \in Posts, SegmentInv(p), p.start # 0
  PROVE  \A f \in 1 .. p.frames : f > p.frames - SmoothWindow => f \in Covered(p)
<1>1. p.start \in Nat /\ p.frames \in Nat /\ p.lastEnd \in Nat
      /\ p.lastEnd < p.start /\ p.start <= p.frames
      /\ (p.start <= p.frames - SmoothWindow + 1 \/ p.start = p.lastEnd + 1)
  BY DEF Posts, SegmentInv
<1> SUFFICES ASSUME NEW f \in 1 .. p.frames, f > p.frames - SmoothWindow
             PROVE  f \in Covered(p)
  OBVIOUS
<1>2. CASE f >= p.start
  BY <1>1, <1>2 DEF Covered, OpenFrames
<1>3. CASE f < p.start
  <2>1. f \in 1 .. p.lastEnd /\ f > p.lastEnd - SmoothWindow
    BY <1>1, <1>3, VadFacts
  <2> QED
    BY <2>1 DEF SegmentInv, Covered
<1> QED
  BY <1>1, <1>2, <1>3

LEMMA CloseStep ==
  ASSUME NEW p \in Posts, SegmentInv(p), p.start # 0, NEW q \in Posts,
         q.segments = Append(p.segments, <<p.start, p.frames>>),
         q.frames = p.frames, q.lastEnd = p.frames, q.start = 0
  PROVE  SegmentInv(q) /\ Covered(q) = Covered(p)
<1> DEFINE s == p.segments
           u == q.segments
           n == Len(s)
           a == p.start
           b == p.frames
<1>0. s \in Seq(Nat \X Nat) /\ a \in Nat /\ b \in Nat /\ p.lastEnd \in Nat
  BY DEF Posts
<1>1. n \in Nat /\ Len(u) = n + 1 /\ u[n + 1] = <<a, b>>
      /\ \A i \in 1 .. n : u[i] = s[i]
  BY <1>0
<1>2. DOMAIN s = 1 .. n /\ DOMAIN u = 1 .. n + 1
  BY <1>0
<1>3. /\ \A i \in 1 .. n : 1 <= s[i][1] /\ s[i][1] <= s[i][2] /\ s[i][2] <= p.lastEnd
      /\ \A i, j \in 1 .. n : i < j => s[i][2] < s[j][1]
  <2>1. OrderInv(p)
    BY DEF SegmentInv
  <2> HIDE DEF n
  <2> QED
    BY <2>1, <1>2 DEF OrderInv
<1>11. 1 <= a /\ p.lastEnd < a /\ a <= b
  BY <1>0 DEF SegmentInv
<1>4. \A i \in 1 .. n : s[i][1] \in Nat /\ s[i][2] \in Nat
  <2> TAKE i \in 1 .. n
  <2>1. s[i] \in Nat \X Nat
    BY <1>0
  <2> QED
    BY <2>1
<1>5. Selected(q) = Selected(p) \union (a .. b)
  BY <1>0, SelectedAppend
<1>6. Covered(q) = Covered(p)
  BY <1>5 DEF Covered, OpenFrames
<1> HIDE DEF s, u, n, a, b
<1>7. \A i \in 1 .. n + 1 :
        1 <= u[i][1] /\ u[i][1] <= u[i][2] /\ u[i][2] <= b
  <2> TAKE i \in 1 .. n + 1
  <2>1. CASE i = n + 1
    BY <2>1, <1>0, <1>1, <1>11
  <2>2. CASE i # n + 1
    <3>1. i \in 1 .. n
      BY <2>2, <1>1
    <3>2. u[i] = s[i] /\ 1 <= s[i][1] /\ s[i][1] <= s[i][2] /\ s[i][2] <= p.lastEnd
          /\ s[i][2] \in Nat
      BY <3>1, <1>1, <1>3, <1>4
    <3>3. s[i][2] <= b
      BY <3>2, <1>0, <1>11
    <3> QED
      BY <3>2, <3>3
  <2> QED
    BY <2>1, <2>2
<1>8. \A i, j \in 1 .. n + 1 : i < j => u[i][2] < u[j][1]
  <2> TAKE i, j \in 1 .. n + 1
  <2> HAVE i < j
  <2>1. i \in 1 .. n
    BY <1>1
  <2>2. CASE j = n + 1
    <3>1. u[j] = <<a, b>> /\ u[i] = s[i] /\ s[i][2] <= p.lastEnd /\ s[i][2] \in Nat
      BY <2>1, <2>2, <1>1, <1>3, <1>4
    <3>2. s[i][2] < a
      BY <3>1, <1>0, <1>11
    <3> QED
      BY <3>1, <3>2
  <2>3. CASE j # n + 1
    <3>1. j \in 1 .. n
      BY <2>3, <1>1
    <3> QED
      BY <3>1, <2>1, <1>1, <1>3
  <2> QED
    BY <2>2, <2>3
<1>9. OrderInv(q)
  <2>1. q.lastEnd = b
    BY DEF b
  <2> QED
    BY <2>1, <1>2, <1>7, <1>8 DEF OrderInv, u
<1>10. \A f \in 1 .. b : f > b - SmoothWindow => f \in Selected(q)
  <2>1. Covered(q) = Selected(q)
    BY DEF Covered, OpenFrames
  <2> QED
    BY <2>1, <1>6, LateFramesCovered DEF b
<1> QED
  <2>1. q.lastEnd = b /\ q.frames = b /\ b <= b
    BY <1>0 DEF b
  <2> QED
    BY <2>1, <1>6, <1>9, <1>10 DEF SegmentInv

\* A segment that opens begins early enough for a run that the window and
\* minSpeechFrame have delayed.
LEMMA OpenStep ==
  ASSUME NEW p \in Posts, SegmentInv(p), p.start = 0,
         p.speech >= 1, p.lastEnd <= p.frames - p.speech,
         NEW q \in Posts, SameSegments(p, q), q.frames = p.frames,
         q.start = OpenSegment(p).start
  PROVE  /\ SegmentInv(q) /\ q.start # 0
         /\ \A f \in 1 .. p.frames :
              f > p.frames - (p.speech + SmoothWindow - 1) => f \in Covered(q)
<1> DEFINE t == p.frames
           e == p.lastEnd
           c == t - p.speech + 1 - PadStart
           a == q.start
<1>1. t \in Nat /\ e \in Nat /\ p.speech \in Nat /\ a \in Nat /\ c \in Int
      /\ c <= t - p.speech + 1 - SmoothWindow
  <2>1. t \in Nat /\ e \in Nat /\ p.speech \in Nat /\ a \in Nat
    BY DEF Posts
  <2> HIDE DEF t, e, a
  <2> QED
    BY <2>1, VadFacts
<1>2. a = AfterLast(p, Larger(1, c))
  BY DEF OpenSegment, Posts
<1>3. (a = e + 1 \/ (a = c /\ c > e + 1 /\ c > 1))
  BY <1>1, <1>2 DEF AfterLast, Larger
<1>4. Selected(q) = Selected(p)
  BY DEF SameSegments, Selected
<1>5. q.frames = t /\ q.lastEnd = e
  BY DEF SameSegments
<1> HIDE DEF t, e, c, a
<1>6. e < a /\ a <= t /\ a # 0 /\ (a <= t - SmoothWindow + 1 \/ a = e + 1)
  BY <1>1, <1>3, VadFacts DEF t, e
<1>7. SegmentInv(q)
  BY <1>4, <1>5, <1>6 DEF SegmentInv, OrderInv, SameSegments, a, t, e
<1>8. ASSUME NEW f \in 1 .. t, f > t - (p.speech + SmoothWindow - 1)
      PROVE  f \in Covered(q)
  <2>1. CASE f >= a
    BY <2>1, <1>1, <1>5, <1>6 DEF Covered, OpenFrames, a
  <2>2. CASE f < a
    <3>1. f \in 1 .. e /\ f > e - SmoothWindow
      BY <2>2, <1>1, <1>3, <1>8, VadFacts DEF t, e
    <3> QED
      BY <3>1, <1>4 DEF SegmentInv, Covered, e
  <2> QED
    BY <2>1, <2>2, <1>1
<1> QED
  BY <1>6, <1>7, <1>8 DEF a, t

\* A frame more.
NextFrame(p, window) == [p EXCEPT !.frames = @ + 1, !.window = window]

LEMMA ReopenStep ==
  ASSUME NEW p \in Posts, SegmentInv(p), PhaseInv(p), NEW window \in Seq(BOOLEAN),
         NEW q, q = Reopen(NextFrame(p, window))
  PROVE  /\ q \in Posts /\ q.frames = p.frames + 1 /\ q.window = window
         /\ q.state = p.state /\ q.speech = p.speech /\ q.silence = p.silence
         /\ SameSegments(p, q) /\ ~q.hitMax
         /\ SegmentInv(q) /\ Covered(p) \subseteq Covered(q)
         /\ q.start # 0 <=> Speaking(p)
         /\ q.start # 0 => q.frames \in Covered(q)
<1> DEFINE r == NextFrame(p, window)
           a == AfterLast(r, r.frames)
<1>1. r \in Posts /\ r.frames = p.frames + 1 /\ r.window = window
      /\ r.state = p.state /\ r.speech = p.speech /\ r.silence = p.silence
      /\ r.segments = p.segments /\ r.lastEnd = p.lastEnd /\ r.start = p.start
      /\ r.hitMax = p.hitMax
  <2>1. p.frames + 1 \in Nat
    BY DEF Posts
  <2>2. r = [p EXCEPT !.frames = p.frames + 1, !.window = window]
    BY DEF NextFrame
  <2> HIDE DEF r
  <2>3. r \in Posts
    BY <2>1, <2>2 DEF Posts
  <2> QED
    BY <2>2, <2>3 DEF Posts
<1> HIDE DEF r
<1>2. p.frames \in Nat /\ p.lastEnd \in Nat /\ p.start \in Nat
      /\ p.hitMax \in BOOLEAN /\ p.lastEnd <= p.frames
  BY DEF Posts, SegmentInv
<1>3. q = IF p.hitMax THEN [r EXCEPT !.start = a, !.hitMax = FALSE] ELSE r
  BY <1>1 DEF Reopen, r
<1>4. Selected(q) = Selected(p)
  <2>1. q.segments = p.segments
    BY <1>1, <1>3 DEF Posts
  <2> QED
    BY <2>1 DEF Selected
<1>5. CASE p.hitMax
  <2>1. a = p.frames + 1
    BY <1>1, <1>2 DEF AfterLast, Larger
  <2>2. q \in Posts /\ q.frames = p.frames + 1 /\ q.window = window
        /\ q.state = p.state /\ q.speech = p.speech /\ q.silence = p.silence
        /\ SameSegments(p, q) /\ ~q.hitMax /\ q.start = p.frames + 1
    BY <1>1, <1>2, <1>3, <1>5, <2>1 DEF Posts, SameSegments
  <2>3. p.start = 0 /\ p.lastEnd = p.frames /\ Speaking(p)
    BY <1>5 DEF PhaseInv, Speaking
  <2>4. SegmentInv(q)
    BY <1>2, <1>4, <2>2, <2>3 DEF SegmentInv, OrderInv, SameSegments
  <2>5. Covered(p) \subseteq Covered(q) /\ q.frames \in Covered(q)
    BY <1>2, <1>4, <2>2, <2>3 DEF Covered, OpenFrames
  <2> QED
    BY <1>2, <2>2, <2>3, <2>4, <2>5
<1>6. CASE ~p.hitMax
  <2>1. q \in Posts /\ q.frames = p.frames + 1 /\ q.window = window
        /\ q.state = p.state /\ q.speech = p.speech /\ q.silence = p.silence
        /\ SameSegments(p, q) /\ ~q.hitMax /\ q.start = p.start
    BY <1>1, <1>3, <1>6 DEF SameSegments
  <2>2. q.start # 0 <=> Speaking(p)
    BY <1>6, <2>1 DEF PhaseInv
  <2>3. SegmentInv(q)
    <3>1. q.lastEnd <= q.frames
      BY <1>2, <2>1 DEF SameSegments
    <3>2. OrderInv(q)
      BY <2>1 DEF SegmentInv, OrderInv, SameSegments
    <3>3. \A f \in 1 .. q.lastEnd : f > q.lastEnd - SmoothWindow => f \in Selected(q)
      BY <1>4, <2>1 DEF SegmentInv, SameSegments
    <3>4. q.start # 0 =>
            /\ q.lastEnd < q.start /\ q.start <= q.frames
            /\ q.start <= q.frames - SmoothWindow + 1 \/ q.start = q.lastEnd + 1
      <4>1. p.start # 0 =>
              /\ p.lastEnd < p.start /\ p.start <= p.frames
              /\ p.start <= p.frames - SmoothWindow + 1 \/ p.start = p.lastEnd + 1
        BY DEF SegmentInv
      <4>2. q.lastEnd = p.lastEnd /\ q.start = p.start /\ q.frames = p.frames + 1
        BY <2>1 DEF SameSegments
      <4> HAVE q.start # 0
      <4>3. p.lastEnd < p.start /\ p.start <= p.frames
            /\ (p.start <= p.frames - SmoothWindow + 1 \/ p.start = p.lastEnd + 1)
        BY <4>1, <4>2
      <4>4. p.start <= p.frames + 1
            /\ (p.start <= (p.frames + 1) - SmoothWindow + 1 \/ p.start = p.lastEnd + 1)
        BY <4>3, <1>2, VadFacts
      <4> QED
        BY <4>2, <4>3, <4>4
    <3> QED
      BY <3>1, <3>2, <3>3, <3>4 DEF SegmentInv
  <2>4. Covered(p) \subseteq Covered(q)
    BY <1>2, <1>4, <2>1 DEF Covered, OpenFrames
  <2>5. q.start # 0 => q.frames \in Covered(q)
    BY <1>2, <2>1, <2>3 DEF Covered, OpenFrames, SegmentInv
  <2> QED
    BY <2>1, <2>2, <2>3, <2>4, <2>5
<1> QED
  BY <1>2, <1>5, <1>6

CoversRuns(p, voices) ==
  \A a \in 1 .. p.frames :
    VoicedFrom(voices, a, p.frames) => a .. p.frames \subseteq Covered(p)

\* What a frame does once a segment has been reopened.
Moves(q, z, voices) ==
  /\ z \in Posts /\ z.frames = q.frames /\ z.window = q.window
  /\ SegmentInv(z) /\ PhaseInv(z) /\ RunInv(z, voices)
  /\ Covered(q) \subseteq Covered(z)

Counted(q, state, silence, run) ==
  [q EXCEPT !.state = state, !.silence = silence, !.speech = run]

LEMMA CountsTyped ==
  ASSUME NEW q \in Posts, NEW state \in PostStates, NEW silence \in Nat,
         NEW run \in Nat, NEW z, z = Counted(q, state, silence, run)
  PROVE  /\ z \in Posts /\ z.frames = q.frames /\ z.window = q.window
         /\ SameSegments(q, z) /\ z.start = q.start /\ z.hitMax = q.hitMax
         /\ z.state = state /\ z.speech = run
  BY DEF Posts, SameSegments, Counted

LEMMA CloseTyped ==
  ASSUME NEW p \in Posts
  PROVE  /\ CloseSegment(p) \in Posts
         /\ CloseSegment(p).segments = Append(p.segments, <<p.start, p.frames>>)
         /\ CloseSegment(p).lastEnd = p.frames /\ CloseSegment(p).start = 0
         /\ CloseSegment(p).speech = 0
         /\ CloseSegment(p).frames = p.frames /\ CloseSegment(p).window = p.window
         /\ CloseSegment(p).state = p.state /\ CloseSegment(p).hitMax = p.hitMax
         /\ CloseSegment(p).silence = p.silence
<1>1. p.start \in Nat /\ p.frames \in Nat /\ p.segments \in Seq(Nat \X Nat)
  BY DEF Posts
<1>2. Append(p.segments, <<p.start, p.frames>>) \in Seq(Nat \X Nat)
  BY <1>1
<1> QED
  BY <1>1, <1>2 DEF CloseSegment, Posts

\* Silence is heard, or speech begins to be suspected.
LEMMA SilenceStep ==
  ASSUME NEW q \in Posts, NEW voices, NEW spoken \in BOOLEAN, SegmentInv(q), ~q.hitMax,
         q.start = 0, q.lastEnd < q.frames, q.state = "SILENCE",
         RunsAtMost(voices, q.frames, SmoothWindow),
         ~spoken => RunsAtMost(voices, q.frames, SmoothWindow - 1),
         NEW z, z = InSilence(q, spoken)
  PROVE  Moves(q, z, voices)
<1>1. q.frames \in Nat /\ q.lastEnd \in Nat /\ q.silence \in Nat
  BY DEF Posts
<1>2. CASE spoken
  <2>1. z \in Posts /\ z.frames = q.frames /\ z.window = q.window /\ SameSegments(q, z)
        /\ z.start = 0 /\ ~z.hitMax /\ z.state = "POSSIBLE_SPEECH" /\ z.speech = 1
    BY <1>2 DEF InSilence, Posts, PostStates, SameSegments
  <2>2. SegmentInv(z) /\ Covered(z) = Covered(q)
    BY <2>1 DEF SegmentInv, OrderInv, SameSegments, Covered, Selected, OpenFrames
  <2>3. PhaseInv(z)
    BY <1>1, <2>1 DEF PhaseInv, Speaking, SameSegments
  <2>4. RunInv(z, voices)
    <3>1. 1 + SmoothWindow - 1 = SmoothWindow
      BY VadFacts
    <3> QED
      BY <2>1, <3>1 DEF RunInv
  <2> QED
    BY <2>1, <2>2, <2>3, <2>4 DEF Moves
<1>3. CASE ~spoken
  <2>1. z \in Posts /\ z.frames = q.frames /\ z.window = q.window /\ SameSegments(q, z)
        /\ z.start = 0 /\ ~z.hitMax /\ z.state = "SILENCE"
    <3>1. z = [q EXCEPT !.silence = q.silence + 1, !.speech = 0]
      BY <1>3 DEF InSilence
    <3>2. q.silence + 1 \in Nat
      BY <1>1
    <3> QED
      BY <3>1, <3>2 DEF Posts, SameSegments
  <2>2. SegmentInv(z) /\ Covered(z) = Covered(q)
    BY <2>1 DEF SegmentInv, OrderInv, SameSegments, Covered, Selected, OpenFrames
  <2>3. PhaseInv(z)
    BY <2>1 DEF PhaseInv, Speaking
  <2>4. RunInv(z, voices)
    BY <1>3, <2>1 DEF RunInv
  <2> QED
    BY <2>1, <2>2, <2>3, <2>4 DEF Moves
<1> QED
  BY <1>2, <1>3

\* Speech is confirmed and a segment opens, or it was none.
LEMMA PossibleSpeechStep ==
  ASSUME NEW q \in Posts, NEW voices, NEW spoken \in BOOLEAN, SegmentInv(q), ~q.hitMax,
         q.start = 0, q.state = "POSSIBLE_SPEECH",
         1 <= q.speech, q.lastEnd <= q.frames - 1 - q.speech,
         RunsAtMost(voices, q.frames, q.speech + SmoothWindow),
         ~spoken => RunsAtMost(voices, q.frames, SmoothWindow - 1),
         NEW z, z = InPossibleSpeech(q, spoken)
  PROVE  Moves(q, z, voices)
<1> DEFINE longer == [q EXCEPT !.speech = @ + 1]
<1>1. q.frames \in Nat /\ q.lastEnd \in Nat /\ q.silence \in Nat /\ q.speech \in Nat
  BY DEF Posts
<1>2. longer \in Posts /\ longer.frames = q.frames /\ longer.window = q.window
      /\ SameSegments(q, longer) /\ longer.start = 0 /\ ~longer.hitMax
      /\ longer.state = q.state /\ longer.speech = q.speech + 1
  BY <1>1 DEF Posts, SameSegments
<1>3. z = IF ~spoken THEN [q EXCEPT !.state = "SILENCE", !.silence = 1, !.speech = 0]
          ELSE IF longer.speech < MinSpeech THEN longer
          ELSE [OpenSegment(longer) EXCEPT !.state = "SPEECH", !.silence = 0]
  BY DEF InPossibleSpeech
<1> HIDE DEF longer
<1>4. SegmentInv(longer) /\ Covered(longer) = Covered(q)
  BY <1>2 DEF SegmentInv, OrderInv, SameSegments, Covered, Selected, OpenFrames
<1>5. longer.lastEnd = q.lastEnd /\ longer.speech >= 1
      /\ longer.lastEnd <= longer.frames - longer.speech
      /\ longer.speech + SmoothWindow - 1 = q.speech + SmoothWindow
  BY <1>1, <1>2, VadFacts DEF SameSegments
<1>6. CASE ~spoken
  <2>1. z \in Posts /\ z.frames = q.frames /\ z.window = q.window /\ SameSegments(q, z)
        /\ z.start = 0 /\ ~z.hitMax /\ z.state = "SILENCE"
    <3>1. z = Counted(q, "SILENCE", 1, 0)
      BY <1>3, <1>6 DEF Counted
    <3>2. "SILENCE" \in PostStates /\ 1 \in Nat /\ 0 \in Nat
      BY DEF PostStates
    <3>3. /\ z \in Posts /\ z.frames = q.frames /\ z.window = q.window
          /\ SameSegments(q, z) /\ z.start = q.start /\ z.hitMax = q.hitMax
          /\ z.state = "SILENCE"
      BY <3>1, <3>2, CountsTyped
    <3> QED
      BY <3>3
  <2>2. SegmentInv(z) /\ Covered(z) = Covered(q)
    BY <2>1 DEF SegmentInv, OrderInv, SameSegments, Covered, Selected, OpenFrames
  <2>3. PhaseInv(z)
    BY <2>1 DEF PhaseInv, Speaking
  <2>4. RunInv(z, voices)
    BY <1>6, <2>1 DEF RunInv
  <2> QED
    BY <2>1, <2>2, <2>3, <2>4 DEF Moves
<1>7. CASE spoken /\ longer.speech < MinSpeech
  <2>1. z = longer
    BY <1>3, <1>7
  <2>2. PhaseInv(z)
    BY <1>1, <1>2, <1>5, <1>7, <2>1 DEF PhaseInv, Speaking
  <2>3. RunInv(z, voices)
    BY <1>2, <1>5, <2>1 DEF RunInv
  <2> QED
    BY <1>2, <1>4, <2>1, <2>2, <2>3 DEF Moves
<1>8. CASE spoken /\ ~(longer.speech < MinSpeech)
  <2>0. OpenSegment(longer).start \in Nat
    <3> DEFINE c == longer.frames - longer.speech + 1 - PadStart
    <3>1. c \in Int /\ longer.lastEnd + 1 \in Nat
      BY <1>1, <1>2, <1>5, VadFacts
    <3>2. OpenSegment(longer).start = AfterLast(longer, Larger(1, c))
      BY <1>2 DEF OpenSegment, Posts
    <3> HIDE DEF c
    <3> QED
      BY <3>1, <3>2 DEF AfterLast, Larger
  <2>1. z = [OpenSegment(longer) EXCEPT !.state = "SPEECH", !.silence = 0]
    BY <1>3, <1>8
  <2>2. z \in Posts /\ z.frames = q.frames /\ z.window = q.window
        /\ SameSegments(longer, z)
        /\ z.start = OpenSegment(longer).start /\ ~z.hitMax /\ z.state = "SPEECH"
    BY <1>2, <2>0, <2>1 DEF OpenSegment, Posts, PostStates, SameSegments
  <2>3. /\ SegmentInv(z) /\ z.start # 0
        /\ \A f \in 1 .. q.frames :
             f > q.frames - (longer.speech + SmoothWindow - 1) => f \in Covered(z)
    BY <1>2, <1>4, <1>5, <2>2, OpenStep
  <2>4. PhaseInv(z)
    BY <2>2, <2>3 DEF PhaseInv, Speaking
  <2>5. Covered(q) \subseteq Covered(z)
    <3>1. Selected(z) = Selected(q)
      BY <1>2, <2>2 DEF SameSegments, Selected
    <3> QED
      BY <3>1 DEF Covered, OpenFrames
  <2>6. RunInv(z, voices)
    <3>1. ASSUME NEW a \in 1 .. q.frames, VoicedFrom(voices, a, q.frames),
                 NEW f \in a .. q.frames
          PROVE  f \in Covered(z)
      <4>1. q.frames - a + 1 <= q.speech + SmoothWindow
        BY <3>1 DEF RunsAtMost
      <4>2. f \in 1 .. q.frames /\ f > q.frames - (longer.speech + SmoothWindow - 1)
        BY <4>1, <1>1, <1>5, VadFacts
      <4> QED
        BY <4>2, <2>3
    <3> QED
      BY <3>1, <2>2 DEF RunInv
  <2> QED
    BY <2>2, <2>3, <2>4, <2>5, <2>6 DEF Moves
<1> QED
  BY <1>6, <1>7, <1>8

\* A segment goes on, or ends at its maximum.
LEMMA SplitStep ==
  ASSUME NEW q \in Posts, NEW r \in Posts, NEW voices, SegmentInv(q), q.start # 0,
         CoversRuns(q, voices),
         r.frames = q.frames, r.window = q.window, SameSegments(q, r),
         r.start = q.start, ~r.hitMax, r.state = "SPEECH",
         NEW z, z = SplitAtMax(r)
  PROVE  Moves(q, z, voices)
<1>1. SegmentInv(r) /\ Covered(r) = Covered(q)
  BY DEF SegmentInv, OrderInv, SameSegments, Covered, Selected, OpenFrames
<1>2. CASE r.speech >= MaxSpeech
  <2>1. z = [CloseSegment(r) EXCEPT !.hitMax = TRUE]
    BY <1>2 DEF SplitAtMax
  <2>2. z \in Posts /\ z.frames = r.frames /\ z.window = r.window
        /\ z.segments = Append(r.segments, <<r.start, r.frames>>)
        /\ z.lastEnd = r.frames /\ z.start = 0 /\ z.hitMax /\ z.state = "SPEECH"
    <3> DEFINE c == CloseSegment(r)
    <3>1. c \in Posts /\ c.segments = Append(r.segments, <<r.start, r.frames>>)
          /\ c.lastEnd = r.frames /\ c.start = 0 /\ c.frames = r.frames
          /\ c.window = r.window /\ c.state = "SPEECH"
      BY CloseTyped
    <3>2. z = [c EXCEPT !.hitMax = TRUE]
      BY <2>1
    <3> HIDE DEF c
    <3> QED
      BY <3>1, <3>2 DEF Posts
  <2>3. SegmentInv(z) /\ Covered(z) = Covered(r)
    BY <1>1, <2>2, CloseStep
  <2>4. PhaseInv(z)
    BY <2>2 DEF PhaseInv, Speaking
  <2>5. RunInv(z, voices)
    BY <1>1, <2>2, <2>3 DEF RunInv, CoversRuns
  <2> QED
    BY <1>1, <2>2, <2>3, <2>4, <2>5 DEF Moves
<1>3. CASE ~(r.speech >= MaxSpeech)
  <2>1. z = r
    BY <1>3 DEF SplitAtMax
  <2>2. PhaseInv(z)
    BY <2>1 DEF PhaseInv, Speaking
  <2>3. RunInv(z, voices)
    BY <1>1, <2>1 DEF RunInv, CoversRuns
  <2> QED
    BY <1>1, <2>1, <2>2, <2>3 DEF Moves
<1> QED
  BY <1>2, <1>3

LEMMA SpeechStep ==
  ASSUME NEW q \in Posts, NEW voices, NEW spoken \in BOOLEAN, SegmentInv(q), ~q.hitMax,
         q.start # 0, q.state = "SPEECH", CoversRuns(q, voices),
         ~spoken => RunsAtMost(voices, q.frames, SmoothWindow - 1),
         NEW z, z = InSpeech(q, spoken)
  PROVE  Moves(q, z, voices)
<1> DEFINE longer == [q EXCEPT !.speech = @ + 1]
<1>1. longer \in Posts /\ longer = [q EXCEPT !.speech = q.speech + 1]
  BY DEF Posts
<1>2. CASE spoken
  <2> DEFINE r == [longer EXCEPT !.silence = 0]
  <2>1. r \in Posts /\ r.frames = q.frames /\ r.window = q.window /\ SameSegments(q, r)
        /\ r.start = q.start /\ ~r.hitMax /\ r.state = "SPEECH"
    BY <1>1 DEF Posts, SameSegments
  <2>2. z = SplitAtMax(r)
    BY <1>2 DEF InSpeech
  <2> HIDE DEF r
  <2> QED
    BY <2>1, <2>2, SplitStep
<1>3. CASE ~spoken
  <2>1. z = [longer EXCEPT !.state = "POSSIBLE_SILENCE", !.silence = 1]
    BY <1>3 DEF InSpeech
  <2>2. z \in Posts /\ z.frames = q.frames /\ z.window = q.window /\ SameSegments(q, z)
        /\ z.start = q.start /\ ~z.hitMax /\ z.state = "POSSIBLE_SILENCE"
    <3>1. z = Counted(q, "POSSIBLE_SILENCE", 1, q.speech + 1)
      BY <1>1, <2>1 DEF Counted, Posts
    <3>2. "POSSIBLE_SILENCE" \in PostStates /\ 1 \in Nat /\ q.speech + 1 \in Nat
      BY DEF Posts, PostStates
    <3>3. /\ z \in Posts /\ z.frames = q.frames /\ z.window = q.window
          /\ SameSegments(q, z) /\ z.start = q.start /\ z.hitMax = q.hitMax
          /\ z.state = "POSSIBLE_SILENCE"
      BY <3>1, <3>2, CountsTyped
    <3> QED
      BY <3>3
  <2>3. SegmentInv(z) /\ Covered(z) = Covered(q)
    BY <2>2 DEF SegmentInv, OrderInv, SameSegments, Covered, Selected, OpenFrames
  <2>4. PhaseInv(z)
    BY <2>2 DEF PhaseInv, Speaking
  <2>5. RunInv(z, voices)
    BY <1>3, <2>2 DEF RunInv
  <2> QED
    BY <2>2, <2>3, <2>4, <2>5 DEF Moves
<1> QED
  BY <1>2, <1>3

LEMMA PossibleSilenceStep ==
  ASSUME NEW q \in Posts, NEW voices, NEW spoken \in BOOLEAN, SegmentInv(q), ~q.hitMax,
         q.start # 0, q.state = "POSSIBLE_SILENCE", CoversRuns(q, voices),
         ~spoken => RunsAtMost(voices, q.frames, SmoothWindow - 1),
         NEW z, z = InPossibleSilence(q, spoken)
  PROVE  Moves(q, z, voices)
<1> DEFINE longer == [q EXCEPT !.speech = @ + 1]
           quiet == [longer EXCEPT !.silence = @ + 1]
<1>0. q.speech + 1 \in Nat /\ q.silence + 1 \in Nat
  BY DEF Posts
<1>1. longer \in Posts /\ longer = [q EXCEPT !.speech = q.speech + 1]
  BY <1>0 DEF Posts
<1>2. quiet \in Posts
      /\ quiet = [q EXCEPT !.speech = q.speech + 1, !.silence = q.silence + 1]
  BY <1>0, <1>1 DEF Posts
<1>3. CASE spoken
  <2> DEFINE r == [longer EXCEPT !.state = "SPEECH", !.silence = 0]
  <2>1. r \in Posts /\ r.frames = q.frames /\ r.window = q.window /\ SameSegments(q, r)
        /\ r.start = q.start /\ ~r.hitMax /\ r.state = "SPEECH"
    BY <1>1 DEF Posts, PostStates, SameSegments
  <2>2. z = SplitAtMax(r)
    BY <1>3 DEF InPossibleSilence
  <2> HIDE DEF r
  <2> QED
    BY <2>1, <2>2, SplitStep
<1>4. quiet.frames = q.frames /\ quiet.window = q.window /\ SameSegments(q, quiet)
      /\ quiet.start = q.start /\ ~quiet.hitMax /\ quiet.state = "POSSIBLE_SILENCE"
  BY <1>2 DEF Posts, SameSegments
<1>5. z = IF spoken THEN z ELSE IF quiet.silence < MinSilence THEN quiet
          ELSE [CloseSegment(quiet) EXCEPT !.state = "SILENCE"]
  BY DEF InPossibleSilence
<1> HIDE DEF longer, quiet
<1>6. SegmentInv(quiet) /\ Covered(quiet) = Covered(q)
  BY <1>4 DEF SegmentInv, OrderInv, SameSegments, Covered, Selected, OpenFrames
<1>7. CASE ~spoken /\ quiet.silence < MinSilence
  <2>1. z = quiet
    BY <1>5, <1>7
  <2>2. PhaseInv(z)
    BY <1>4, <2>1 DEF PhaseInv, Speaking
  <2>3. RunInv(z, voices)
    BY <1>4, <1>7, <2>1 DEF RunInv
  <2> QED
    BY <1>2, <1>4, <1>6, <2>1, <2>2, <2>3 DEF Moves
<1>8. CASE ~spoken /\ ~(quiet.silence < MinSilence)
  <2>1. z = [CloseSegment(quiet) EXCEPT !.state = "SILENCE"]
    BY <1>5, <1>8
  <2>2. z \in Posts /\ z.frames = quiet.frames /\ z.window = quiet.window
        /\ z.segments = Append(quiet.segments, <<quiet.start, quiet.frames>>)
        /\ z.lastEnd = quiet.frames /\ z.start = 0 /\ ~z.hitMax /\ z.state = "SILENCE"
    <3> DEFINE c == CloseSegment(quiet)
    <3>1. c \in Posts
          /\ c.segments = Append(quiet.segments, <<quiet.start, quiet.frames>>)
          /\ c.lastEnd = quiet.frames /\ c.start = 0 /\ c.frames = quiet.frames
          /\ c.window = quiet.window /\ ~c.hitMax
      BY <1>2, <1>4, CloseTyped
    <3>2. z = [c EXCEPT !.state = "SILENCE"]
      BY <2>1
    <3> HIDE DEF c
    <3> QED
      BY <3>1, <3>2 DEF Posts, PostStates
  <2>3. SegmentInv(z) /\ Covered(z) = Covered(quiet)
    BY <1>2, <1>4, <1>6, <2>2, CloseStep
  <2>4. PhaseInv(z)
    BY <2>2 DEF PhaseInv, Speaking
  <2>5. RunInv(z, voices)
    BY <1>4, <1>8, <2>2 DEF RunInv
  <2> QED
    BY <1>4, <1>6, <2>2, <2>3, <2>4, <2>5 DEF Moves
<1> QED
  BY <1>3, <1>7, <1>8

LEMMA PossiblyQuietCovers ==
  ASSUME NEW q \in Posts, NEW voices, SegmentInv(q), q.start # 0,
         RunsAtMost(voices, q.frames, SmoothWindow)
  PROVE  CoversRuns(q, voices)
<1> SUFFICES ASSUME NEW a \in 1 .. q.frames, VoicedFrom(voices, a, q.frames),
                    NEW f \in a .. q.frames
             PROVE  f \in Covered(q)
  BY DEF CoversRuns
<1>1. q.frames \in Nat /\ q.frames - a + 1 <= SmoothWindow
  BY DEF RunsAtMost, Posts
<1>2. f \in 1 .. q.frames /\ f > q.frames - SmoothWindow
  BY <1>1, VadFacts
<1> QED
  BY <1>2, LateFramesCovered

LEMMA SpeechGoesOn ==
  ASSUME NEW p \in Posts, NEW voices \in Seq(BOOLEAN), p.frames = Len(voices),
         CoversRuns(p, voices), NEW voice \in BOOLEAN,
         NEW q \in Posts, q.frames = p.frames + 1, Covered(p) \subseteq Covered(q),
         q.frames \in Covered(q)
  PROVE  CoversRuns(q, Append(voices, voice))
<1> DEFINE vs == Append(voices, voice)
           t == p.frames
<1>1. t \in Nat /\ \A i \in 1 .. t : vs[i] = voices[i]
  BY DEF Posts
<1> HIDE DEF vs, t
<1> SUFFICES ASSUME NEW a \in 1 .. t + 1, VoicedFrom(vs, a, t + 1), NEW f \in a .. t + 1
             PROVE  f \in Covered(q)
  BY DEF CoversRuns, vs, t
<1>2. CASE f = t + 1
  BY <1>2 DEF t
<1>3. CASE f # t + 1
  <2>1. a \in 1 .. t /\ f \in a .. t /\ VoicedFrom(voices, a, t)
    BY <1>1, <1>3 DEF VoicedFrom
  <2> QED
    BY <2>1 DEF CoversRuns, t
<1> QED
  BY <1>2, <1>3

\* A run long enough is covered by the end of its confirmation.
LEMMA KeptStep ==
  ASSUME NEW p \in Posts, NEW voices \in Seq(BOOLEAN), p.frames = Len(voices),
         KeptInv(p, voices), NEW voice \in BOOLEAN, NEW z \in Posts,
         z.frames = p.frames + 1, Covered(p) \subseteq Covered(z), PhaseInv(z),
         RunInv(z, Append(voices, voice))
  PROVE  KeptInv(z, Append(voices, voice))
<1> DEFINE vs == Append(voices, voice)
           t == p.frames
<1>1. t \in Nat /\ Len(vs) = t + 1 /\ t = Len(voices) /\ \A i \in 1 .. t : vs[i] = voices[i]
  BY DEF Posts
<1>2. DOMAIN voices = 1 .. t /\ DOMAIN vs = 1 .. t + 1
  BY <1>1
<1> HIDE DEF vs, t
<1> SUFFICES ASSUME NEW run \in Runs(vs), NEW f \in run[1] .. run[2]
             PROVE  f \in Covered(z)
  BY DEF KeptInv, vs
<1> DEFINE a == run[1]
           b == run[2]
<1>3. a \in 1 .. t + 1 /\ b \in 1 .. t + 1 /\ b - a + 1 >= ConfirmedAfter
      /\ VoicedFrom(vs, a, b)
  BY <1>2 DEF Runs, VoicedFrom
<1>4. f \in a .. b
  OBVIOUS
<1>5. run = <<a, b>>
  BY DEF Runs
<1> HIDE DEF a, b
<1>6. CASE b # t + 1
  <2>1. a \in 1 .. t /\ b \in 1 .. t /\ VoicedFrom(voices, a, b)
    BY <1>1, <1>3, <1>6, VadFacts DEF VoicedFrom
  <2>2. <<a, b>> \in Runs(voices)
    BY <1>2, <1>3, <2>1 DEF Runs, VoicedFrom
  <2> QED
    BY <1>4, <2>2 DEF KeptInv
<1>7. CASE b = t + 1
  <2>1. z.frames = t + 1 /\ z.speech \in Nat /\ z.state \in PostStates
    BY DEF t, Posts
  <2>2. a \in 1 .. z.frames /\ VoicedFrom(vs, a, z.frames)
        /\ z.frames - a + 1 >= ConfirmedAfter
    BY <1>3, <1>7, <2>1
  <2>3. z.state \notin {"SILENCE", "POSSIBLE_SILENCE"}
    <3> SUFFICES ASSUME z.state \in {"SILENCE", "POSSIBLE_SILENCE"}
                 PROVE  FALSE
      OBVIOUS
    <3>1. z.frames - a + 1 <= SmoothWindow - 1
      BY <2>2 DEF RunInv, RunsAtMost, vs
    <3> QED
      BY <1>1, <2>1, <2>2, <3>1, VadFacts
  <2>4. z.state # "POSSIBLE_SPEECH"
    <3> SUFFICES ASSUME z.state = "POSSIBLE_SPEECH"
                 PROVE  FALSE
      OBVIOUS
    <3>1. z.frames - a + 1 <= z.speech + SmoothWindow - 1
      BY <2>2 DEF RunInv, RunsAtMost, vs
    <3>2. z.speech = 1 \/ z.speech < MinSpeech
      BY DEF PhaseInv
    <3> QED
      BY <1>1, <2>1, <2>2, <3>1, <3>2, VadFacts
  <2>5. z.state = "SPEECH"
    BY <2>1, <2>3, <2>4 DEF PostStates
  <2>6. a .. z.frames \subseteq Covered(z)
    BY <2>2, <2>5 DEF RunInv, vs
  <2> QED
    BY <1>4, <1>7, <2>1, <2>6
<1> QED
  BY <1>6, <1>7

LEMMA ProcessOneFrameIs ==
  ASSUME NEW p, NEW voice, NEW window, window = SmoothProb(p, voice),
         NEW q, q = Reopen(NextFrame(p, window))
  PROVE  /\ q.state = "SILENCE" =>
              ProcessOneFrame(p, voice) = InSilence(q, IsSpeech(window))
         /\ q.state = "POSSIBLE_SPEECH" =>
              ProcessOneFrame(p, voice) = InPossibleSpeech(q, IsSpeech(window))
         /\ q.state = "SPEECH" =>
              ProcessOneFrame(p, voice) = InSpeech(q, IsSpeech(window))
         /\ q.state = "POSSIBLE_SILENCE" =>
              ProcessOneFrame(p, voice) = InPossibleSilence(q, IsSpeech(window))
  BY DEF ProcessOneFrame, NextFrame

\* Every frame preserves the invariant.
LEMMA FrameStep ==
  ASSUME NEW p, NEW voices, PostInv(p, voices), NEW voice \in BOOLEAN
  PROVE  PostInv(ProcessOneFrame(p, voice), Append(voices, voice))
<1> DEFINE vs == Append(voices, voice)
           t == p.frames
           window == SmoothProb(p, voice)
           q == Reopen(NextFrame(p, window))
           spoken == IsSpeech(window)
           z == ProcessOneFrame(p, voice)
<1>1. p \in Posts /\ voices \in Seq(BOOLEAN) /\ WindowInv(p, voices)
      /\ SegmentInv(p) /\ PhaseInv(p) /\ RunInv(p, voices) /\ KeptInv(p, voices)
  BY DEF PostInv
<1>2. vs \in Seq(BOOLEAN) /\ t \in Nat /\ t = Len(voices) /\ p.lastEnd \in Nat
      /\ p.speech \in Nat /\ p.state \in PostStates /\ p.lastEnd <= t
  BY <1>1 DEF Posts, WindowInv, SegmentInv
<1>3. window \in Seq(BOOLEAN)
  <2> DEFINE longer == Append(p.window, voice)
  <2>0. p.window \in Seq(BOOLEAN)
    BY <1>1 DEF Posts
  <2>1. longer \in Seq(BOOLEAN) /\ Len(longer) >= 1
    BY <2>0
  <2>2. window = IF Len(longer) > SmoothWindow THEN Tail(longer) ELSE longer
    BY DEF SmoothProb
  <2> HIDE DEF longer, window
  <2>3. Tail(longer) \in Seq(BOOLEAN)
    BY <2>1
  <2> QED
    BY <2>1, <2>2, <2>3
<1>4. spoken \in BOOLEAN
  BY DEF IsSpeech
<1>5. /\ q.state = "SILENCE" => z = InSilence(q, spoken)
      /\ q.state = "POSSIBLE_SPEECH" => z = InPossibleSpeech(q, spoken)
      /\ q.state = "SPEECH" => z = InSpeech(q, spoken)
      /\ q.state = "POSSIBLE_SILENCE" => z = InPossibleSilence(q, spoken)
  BY ProcessOneFrameIs
<1>15. q = Reopen(NextFrame(p, window))
  OBVIOUS
<1> HIDE DEF q
<1>6. /\ q \in Posts /\ q.frames = p.frames + 1 /\ q.window = window
      /\ q.state = p.state /\ q.speech = p.speech
      /\ SameSegments(p, q) /\ ~q.hitMax
      /\ SegmentInv(q) /\ Covered(p) \subseteq Covered(q)
      /\ q.start # 0 <=> Speaking(p)
      /\ q.start # 0 => q.frames \in Covered(q)
  <2> HIDE DEF window
  <2>1. /\ q \in Posts /\ q.frames = p.frames + 1 /\ q.window = window
        /\ q.state = p.state /\ q.speech = p.speech /\ q.silence = p.silence
        /\ SameSegments(p, q) /\ ~q.hitMax
        /\ SegmentInv(q) /\ Covered(p) \subseteq Covered(q)
        /\ q.start # 0 <=> Speaking(p)
        /\ q.start # 0 => q.frames \in Covered(q)
    BY <1>1, <1>3, <1>15, ReopenStep
  <2> QED
    BY <2>1
<1>7. q.window = SmoothProb(p, voice)
  BY <1>6
<1> HIDE DEF z, window
<1>8. WindowInv(q, vs)
  BY <1>1, <1>6, <1>7, WindowStep
<1>9. ~spoken => RunsAtMost(vs, q.frames, SmoothWindow - 1)
  BY <1>2, <1>6, <1>8, NoSpeechBreaksRuns
<1> HIDE DEF spoken, vs
<1>10. q.frames = t + 1 /\ q.lastEnd = p.lastEnd
  BY <1>6 DEF SameSegments
<1>11. Moves(q, z, vs)
  <2>1. CASE p.state = "SILENCE"
    <3>1. RunsAtMost(vs, q.frames, SmoothWindow)
      <4>1. RunsAtMost(voices, t, SmoothWindow - 1)
        BY <1>1, <2>1 DEF RunInv
      <4>2. SmoothWindow - 1 \in Int /\ SmoothWindow - 1 >= 0
            /\ (SmoothWindow - 1) + 1 = SmoothWindow
        BY VadFacts
      <4>3. RunsAtMost(vs, t + 1, (SmoothWindow - 1) + 1)
        BY <1>1, <1>2, <4>1, <4>2, RunsGrow DEF vs
      <4> QED
        BY <1>10, <4>2, <4>3
    <3>2. q.start = 0 /\ q.lastEnd < q.frames /\ q.state = "SILENCE"
      BY <1>2, <1>6, <1>10, <2>1 DEF Speaking
    <3> QED
      BY <1>4, <1>5, <1>6, <1>9, <3>1, <3>2, SilenceStep
  <2>2. CASE p.state = "POSSIBLE_SPEECH"
    <3>1. 1 <= p.speech /\ p.lastEnd <= t - p.speech
      BY <1>1, <2>2 DEF PhaseInv
    <3>2. RunsAtMost(vs, q.frames, q.speech + SmoothWindow)
      <4>1. RunsAtMost(voices, t, p.speech + SmoothWindow - 1)
        BY <1>1, <2>2 DEF RunInv
      <4>2. p.speech + SmoothWindow - 1 \in Int /\ p.speech + SmoothWindow - 1 >= 0
            /\ (p.speech + SmoothWindow - 1) + 1 = p.speech + SmoothWindow
        BY <1>2, VadFacts
      <4>3. RunsAtMost(vs, t + 1, (p.speech + SmoothWindow - 1) + 1)
        BY <1>1, <1>2, <4>1, <4>2, RunsGrow DEF vs
      <4> QED
        BY <1>6, <1>10, <4>2, <4>3
    <3>3. q.start = 0 /\ q.state = "POSSIBLE_SPEECH" /\ 1 <= q.speech
          /\ q.lastEnd <= q.frames - 1 - q.speech
      BY <1>2, <1>6, <1>10, <2>2, <3>1 DEF Speaking
    <3> QED
      BY <1>4, <1>5, <1>6, <1>9, <3>2, <3>3, PossibleSpeechStep
  <2>3. CASE p.state = "SPEECH"
    <3>1. q.start # 0 /\ q.state = "SPEECH"
      BY <1>6, <2>3 DEF Speaking
    <3>2. CoversRuns(p, voices)
      BY <1>1, <2>3 DEF RunInv, CoversRuns
    <3>3. CoversRuns(q, vs)
      BY <1>1, <1>2, <1>6, <3>1, <3>2, SpeechGoesOn DEF vs
    <3> QED
      BY <1>4, <1>5, <1>6, <1>9, <3>1, <3>3, SpeechStep
  <2>4. CASE p.state = "POSSIBLE_SILENCE"
    <3>1. q.start # 0 /\ q.state = "POSSIBLE_SILENCE"
      BY <1>6, <2>4 DEF Speaking
    <3>2. RunsAtMost(vs, q.frames, SmoothWindow)
      <4>1. RunsAtMost(voices, t, SmoothWindow - 1)
        BY <1>1, <2>4 DEF RunInv
      <4>2. SmoothWindow - 1 \in Int /\ SmoothWindow - 1 >= 0
            /\ (SmoothWindow - 1) + 1 = SmoothWindow
        BY VadFacts
      <4>3. RunsAtMost(vs, t + 1, (SmoothWindow - 1) + 1)
        BY <1>1, <1>2, <4>1, <4>2, RunsGrow DEF vs
      <4> QED
        BY <1>10, <4>2, <4>3
    <3>3. CoversRuns(q, vs)
      BY <1>6, <3>1, <3>2, PossiblyQuietCovers
    <3> QED
      BY <1>4, <1>5, <1>6, <1>9, <3>1, <3>3, PossibleSilenceStep
  <2> QED
    BY <1>2, <2>1, <2>2, <2>3, <2>4 DEF PostStates
<1>12. z \in Posts /\ z.frames = q.frames /\ z.window = q.window
       /\ SegmentInv(z) /\ PhaseInv(z) /\ RunInv(z, vs)
       /\ Covered(p) \subseteq Covered(z)
  BY <1>6, <1>11 DEF Moves
<1>13. WindowInv(z, vs)
  BY <1>8, <1>12 DEF WindowInv
<1>14. KeptInv(z, vs)
  BY <1>1, <1>2, <1>6, <1>12, KeptStep DEF vs
<1> QED
  BY <1>2, <1>12, <1>13, <1>14 DEF PostInv, vs, z

\* How Process unfolds.
FeedsUpTo(f, p, voices, n) ==
  f = [i \in 0 .. n |-> IF i = 0 THEN p ELSE ProcessOneFrame(f[i - 1], voices[i])]

LEMMA FeedsExists ==
  ASSUME NEW p, NEW voices
  PROVE  \A n \in Nat : \E f : FeedsUpTo(f, p, voices, n)
<1> DEFINE S == {n \in Nat : \E f : FeedsUpTo(f, p, voices, n)}
<1>1. 0 \in S
  <2> DEFINE g == [i \in 0 .. 0 |-> p]
  <2>1. g = [i \in 0 .. 0 |-> IF i = 0 THEN p ELSE ProcessOneFrame(g[i - 1], voices[i])]
    OBVIOUS
  <2> QED
    BY <2>1 DEF FeedsUpTo
<1>2. ASSUME NEW n \in Nat, n \in S
      PROVE  n + 1 \in S
  <2>1. PICK f : f = [i \in 0 .. n |-> IF i = 0 THEN p
                                       ELSE ProcessOneFrame(f[i - 1], voices[i])]
    BY <1>2 DEF FeedsUpTo
  <2>2. \A i \in 0 .. n : f[i] = IF i = 0 THEN p
                                 ELSE ProcessOneFrame(f[i - 1], voices[i])
    BY <2>1
  <2> DEFINE g == [i \in 0 .. n + 1 |->
                     IF i \in 0 .. n THEN f[i] ELSE ProcessOneFrame(f[n], voices[i])]
             h == [i \in 0 .. n + 1 |->
                     IF i = 0 THEN p ELSE ProcessOneFrame(g[i - 1], voices[i])]
  <2>3. ASSUME NEW i \in 0 .. n + 1
        PROVE  g[i] = h[i]
    <3>1. CASE i \in 0 .. n /\ i # 0
      <4>1. i - 1 \in 0 .. n /\ i - 1 \in 0 .. n + 1
        BY <3>1
      <4>2. g[i - 1] = f[i - 1]
        BY <4>1
      <4> QED
        BY <2>2, <3>1, <4>2
    <3>2. CASE i = 0
      BY <2>2, <3>2
    <3>3. CASE i = n + 1
      <4>1. i - 1 = n /\ n \in 0 .. n /\ n \in 0 .. n + 1 /\ i \notin 0 .. n /\ i # 0
        BY <3>3
      <4>2. g[i - 1] = f[n]
        BY <4>1
      <4> QED
        BY <4>1, <4>2
    <3> QED
      BY <3>1, <3>2, <3>3
  <2>4. g = h
    BY <2>3
  <2>5. FeedsUpTo(g, p, voices, n + 1)
    BY <2>4 DEF FeedsUpTo
  <2> QED
    BY <2>5
<1> HIDE DEF S
<1>3. Nat \subseteq S
  BY <1>1, <1>2, SetInduction
<1> QED
  BY <1>3 DEF S

LEMMA ProcessDef ==
  ASSUME NEW p, NEW voices, Len(voices) \in Nat
  PROVE  \E f : /\ FeedsUpTo(f, p, voices, Len(voices))
                /\ Process(p, voices) = f[Len(voices)]
<1> DEFINE after == CHOOSE f : FeedsUpTo(f, p, voices, Len(voices))
<1>1. \E f : FeedsUpTo(f, p, voices, Len(voices))
  BY FeedsExists
<1>2. FeedsUpTo(after, p, voices, Len(voices))
  BY <1>1
<1>3. Process(p, voices) = after[Len(voices)]
  BY DEF Process, FeedsUpTo
<1> QED
  BY <1>2, <1>3

\* Whatever frames are fed, and however they are divided into chunks.
LEMMA ProcessStep ==
  ASSUME NEW p, NEW heard, PostInv(p, heard), NEW voices \in Seq(BOOLEAN)
  PROVE  PostInv(Process(p, voices), heard \o voices)
<1> DEFINE n == Len(voices)
           front(i) == heard \o SubSeq(voices, 1, i)
<1>1. n \in Nat /\ heard \in Seq(BOOLEAN)
  BY DEF PostInv
<1>2. PICK f : FeedsUpTo(f, p, voices, n) /\ Process(p, voices) = f[n]
  BY <1>1, ProcessDef
<1>3. f[0] = p /\ \A i \in 1 .. n : f[i] = ProcessOneFrame(f[i - 1], voices[i])
  <2> HIDE DEF n
  <2>1. f = [i \in 0 .. n |-> IF i = 0 THEN p ELSE ProcessOneFrame(f[i - 1], voices[i])]
    BY <1>2 DEF FeedsUpTo
  <2>2. \A i \in 0 .. n : f[i] = IF i = 0 THEN p
                                 ELSE ProcessOneFrame(f[i - 1], voices[i])
    BY <2>1
  <2>3. 0 \in 0 .. n /\ \A i \in 1 .. n : i \in 0 .. n /\ i # 0
    BY <1>1
  <2> QED
    BY <2>2, <2>3
<1> DEFINE S == {i \in Nat : i <= n => PostInv(f[i], front(i))}
<1>4. 0 \in S
  <2>1. front(0) = heard
    BY <1>1
  <2> QED
    BY <1>3, <2>1
<1>5. ASSUME NEW i \in Nat, i \in S
      PROVE  i + 1 \in S
  <2> SUFFICES ASSUME i + 1 <= n
               PROVE  PostInv(f[i + 1], front(i + 1))
    OBVIOUS
  <2>1. PostInv(f[i], front(i))
    BY <1>1, <1>5
  <2>2. f[i + 1] = ProcessOneFrame(f[i], voices[i + 1]) /\ voices[i + 1] \in BOOLEAN
    BY <1>1, <1>3
  <2>3. front(i + 1) = Append(front(i), voices[i + 1])
    <3>1. SubSeq(voices, 1, i + 1) = Append(SubSeq(voices, 1, i), voices[i + 1])
      BY <1>1
    <3>2. SubSeq(voices, 1, i) \in Seq(BOOLEAN)
      BY <1>1
    <3> QED
      BY <1>1, <2>2, <3>1, <3>2
  <2> QED
    BY <2>1, <2>2, <2>3, FrameStep
<1> HIDE DEF S, front, n
<1>6. Nat \subseteq S
  BY <1>4, <1>5, SetInduction
<1>7. front(n) = heard \o voices
  BY DEF front, n
<1>8. PostInv(f[n], front(n))
  BY <1>1, <1>6 DEF S
<1> QED
  BY <1>2, <1>7, <1>8

\* Segments of a recording of n frames, in order and disjoint.
InOrder(segments, n) ==
  /\ \A i \in DOMAIN segments :
       1 <= segments[i][1] /\ segments[i][1] <= segments[i][2] /\ segments[i][2] <= n
  /\ \A i, j \in DOMAIN segments : i < j => segments[i][2] < segments[j][1]

\* After the last frame the open segment is closed as well.
LEMMA FlushStep ==
  ASSUME NEW p, NEW voices, PostInv(p, voices)
  PROVE  /\ Flush(p).segments \in Seq(Nat \X Nat)
         /\ InOrder(Flush(p).segments, Len(voices))
         /\ \A run \in Runs(voices) : run[1] .. run[2] \subseteq Selected(Flush(p))
<1>1. p \in Posts /\ SegmentInv(p) /\ p.frames = Len(voices) /\ KeptInv(p, voices)
  BY DEF PostInv, WindowInv
<1>2. p.frames \in Nat /\ p.start \in Nat /\ p.lastEnd \in Nat
      /\ p.segments \in Seq(Nat \X Nat)
  BY <1>1 DEF Posts
<1>3. CASE p.start = 0
  <2>1. Flush(p) = p /\ Covered(p) = Selected(p)
    BY <1>3 DEF Flush, Covered, OpenFrames
  <2>2. InOrder(p.segments, p.frames)
    <3>1. OrderInv(p) /\ p.lastEnd <= p.frames
      BY <1>1 DEF SegmentInv
    <3>2. \A i \in DOMAIN p.segments : p.segments[i][2] \in Nat
      BY <1>2
    <3>3. ASSUME NEW i \in DOMAIN p.segments
          PROVE  p.segments[i][2] <= p.frames
      <4>1. p.segments[i][2] <= p.lastEnd
        BY <3>1 DEF OrderInv
      <4> QED
        BY <1>2, <3>1, <3>2, <4>1
    <3> QED
      BY <3>1, <3>3 DEF InOrder, OrderInv
  <2> QED
    BY <1>1, <1>2, <2>1, <2>2 DEF KeptInv
<1>4. CASE p.start # 0
  <2> DEFINE q == CloseSegment(p)
  <2>1. q \in Posts /\ q.segments = Append(p.segments, <<p.start, p.frames>>)
        /\ q.frames = p.frames /\ q.lastEnd = p.frames /\ q.start = 0
    BY <1>1, CloseTyped
  <2>2. Flush(p).segments = Append(p.segments, <<p.start, p.frames>>)
    BY <1>1, <1>4 DEF Flush, Posts
  <2> HIDE DEF q
  <2>3. SegmentInv(q) /\ Covered(q) = Covered(p)
    BY <1>1, <1>4, <2>1, CloseStep
  <2>4. Selected(Flush(p)) = Covered(p)
    BY <2>1, <2>2, <2>3 DEF Selected, Covered, OpenFrames
  <2>5. q.segments \in Seq(Nat \X Nat)
    BY <2>1 DEF Posts
  <2>6. InOrder(Flush(p).segments, Len(voices))
    BY <1>1, <2>1, <2>2, <2>3 DEF InOrder, SegmentInv, OrderInv
  <2> QED
    BY <1>1, <2>1, <2>2, <2>4, <2>5, <2>6 DEF KeptInv
<1> QED
  BY <1>3, <1>4

Piece(samples, segment) ==
  SubSeq(samples, segment[1],
         IF segment[2] < Len(samples) THEN segment[2] ELSE Len(samples))

Pieces(samples, segments) == [i \in DOMAIN segments |-> Piece(samples, segments[i])]

\* What is cut out is what the segments name, in order.
Cuts(samples, segments, out) ==
  /\ out \in Seq(Blocks) /\ Rising(out)
  /\ \A i \in DOMAIN segments : \A f \in segments[i][1] .. segments[i][2] :
       \E k \in DOMAIN out : out[k] = samples[f]
  /\ \A k \in DOMAIN out : \E i \in DOMAIN segments :
       \E f \in segments[i][1] .. segments[i][2] : out[k] = samples[f]

LEMMA PartElements ==
  ASSUME NEW T, NEW s \in Seq(T), NEW lo \in Nat, NEW hi \in Nat, 1 <= lo, lo <= hi,
         hi <= Len(s)
  PROVE  /\ SubSeq(s, lo, hi) \in Seq(T) /\ Len(SubSeq(s, lo, hi)) = hi - lo + 1
         /\ \A k \in 1 .. hi - lo + 1 : SubSeq(s, lo, hi)[k] = s[lo + k - 1]
  OBVIOUS

LEMMA ElementsMakeSeq ==
  ASSUME NEW T, NEW n \in Nat, NEW f \in [1 .. n -> T]
  PROVE  f \in Seq(T) /\ Len(f) = n
  OBVIOUS

LEMMA ConcatParts ==
  ASSUME NEW T, NEW s \in Seq(T), NEW t \in Seq(T)
  PROVE  /\ s \o t \in Seq(T) /\ Len(s \o t) = Len(s) + Len(t)
         /\ \A k \in 1 .. Len(s) : (s \o t)[k] = s[k]
         /\ \A k \in 1 .. Len(t) : (s \o t)[Len(s) + k] = t[k]
  OBVIOUS

LEMMA CutStep ==
  ASSUME NEW samples \in Seq(Blocks), Rising(samples),
         NEW segments \in Seq(Nat \X Nat), NEW segment \in Nat \X Nat,
         InOrder(Append(segments, segment), Len(samples)),
         NEW out, Cuts(samples, segments, out)
  PROVE  Cuts(samples, Append(segments, segment), out \o Piece(samples, segment))
<1> DEFINE n == Len(segments)
           more == Append(segments, segment)
           a == segment[1]
           b == segment[2]
           piece == Piece(samples, segment)
           all == out \o piece
           m == Len(out)
<1>1. n \in Nat /\ Len(more) = n + 1 /\ more[n + 1] = segment
      /\ \A i \in 1 .. n : more[i] = segments[i]
  OBVIOUS
<1>2. DOMAIN segments = 1 .. n /\ DOMAIN more = 1 .. n + 1
  BY <1>1
<1>3. a \in Nat /\ b \in Nat
      /\ \A i \in 1 .. n : segments[i][1] \in Nat /\ segments[i][2] \in Nat
  OBVIOUS
<1> HIDE DEF n, more
<1>4. 1 <= a /\ a <= b /\ b <= Len(samples) /\ \A i \in 1 .. n : segments[i][2] < a
  <2>1. n + 1 \in DOMAIN more /\ \A i \in 1 .. n : i \in DOMAIN more /\ i < n + 1
    BY <1>1, <1>2
  <2>2. InOrder(more, Len(samples))
    BY DEF more
  <2> QED
    BY <1>1, <2>1, <2>2 DEF InOrder
<1>5. out \in Seq(Blocks) /\ m \in Nat /\ DOMAIN out = 1 .. m /\ Len(samples) \in Nat
  BY DEF Cuts
<1> HIDE DEF a, b
<1>6. piece \in Seq(Blocks) /\ Len(piece) = b - a + 1
      /\ \A k \in 1 .. b - a + 1 : piece[k] = samples[a + k - 1]
  <2>1. piece = SubSeq(samples, a, b)
    BY <1>3, <1>4, <1>5 DEF Piece, a, b
  <2> HIDE DEF piece
  <2> QED
    BY <1>3, <1>4, <1>5, <2>1, PartElements
<1> HIDE DEF piece, m
<1>7. all \in Seq(Blocks) /\ Len(all) = m + (b - a + 1)
      /\ (\A k \in 1 .. m : all[k] = out[k])
      /\ \A k \in 1 .. b - a + 1 : all[m + k] = samples[a + k - 1]
  <2>1. /\ all \in Seq(Blocks) /\ Len(all) = Len(out) + Len(piece)
        /\ \A k \in 1 .. Len(out) : all[k] = out[k]
        /\ \A k \in 1 .. Len(piece) : all[Len(out) + k] = piece[k]
    BY <1>5, <1>6, ConcatParts
  <2>2. Len(out) = m
    BY DEF m
  <2> HIDE DEF all
  <2> QED
    BY <1>6, <2>1, <2>2
<1>8. DOMAIN all = 1 .. m + (b - a + 1)
  BY <1>7
<1> HIDE DEF all
<1>9. ASSUME NEW i \in 1 .. n + 1, NEW f \in more[i][1] .. more[i][2]
      PROVE  \E k \in DOMAIN all : all[k] = samples[f]
  <2>1. CASE i = n + 1
    <3>1. f \in a .. b
      BY <1>1, <2>1 DEF a, b
    <3>2. f - a + 1 \in 1 .. b - a + 1 /\ a + (f - a + 1) - 1 = f
          /\ m + (f - a + 1) \in 1 .. m + (b - a + 1)
      BY <1>3, <1>4, <1>5, <3>1
    <3> QED
      BY <1>7, <1>8, <3>2
  <2>2. CASE i # n + 1
    <3>1. i \in 1 .. n /\ f \in segments[i][1] .. segments[i][2]
      BY <1>1, <2>2
    <3>2. PICK k \in 1 .. m : out[k] = samples[f]
      BY <1>2, <1>5, <3>1 DEF Cuts
    <3>3. k \in 1 .. m + (b - a + 1)
      BY <1>3, <1>4, <1>5
    <3> QED
      BY <1>7, <1>8, <3>2, <3>3
  <2> QED
    BY <2>1, <2>2
<1>10. ASSUME NEW k \in DOMAIN all
       PROVE  \E i \in 1 .. n + 1 : \E f \in more[i][1] .. more[i][2] :
                all[k] = samples[f]
  <2>1. CASE k <= m
    <3>1. k \in 1 .. m
      BY <1>8, <2>1, <1>5
    <3>2. PICK i \in 1 .. n : \E f \in segments[i][1] .. segments[i][2] :
                                out[k] = samples[f]
      BY <1>2, <1>5, <3>1 DEF Cuts
    <3>3. i \in 1 .. n + 1 /\ more[i] = segments[i]
      BY <1>1
    <3> QED
      BY <1>7, <3>1, <3>2, <3>3
  <2>2. CASE k > m
    <3>1. k - m \in 1 .. b - a + 1 /\ m + (k - m) = k /\ a + (k - m) - 1 \in a .. b
      BY <1>3, <1>4, <1>5, <1>8, <2>2
    <3>2. all[k] = samples[a + (k - m) - 1]
      BY <1>7, <3>1
    <3>3. n + 1 \in 1 .. n + 1 /\ more[n + 1][1] = a /\ more[n + 1][2] = b
      BY <1>1 DEF a, b
    <3> QED
      BY <3>1, <3>2, <3>3
  <2> QED
    BY <1>5, <1>8, <2>1, <2>2
<1>11. ASSUME NEW i \in DOMAIN all, NEW j \in DOMAIN all, i < j
       PROVE  all[i].n < all[j].n
  <2>0. i \in Nat /\ j \in Nat /\ 1 <= i /\ j <= m + (b - a + 1)
    BY <1>3, <1>5, <1>8
  <2>1. CASE j <= m
    <3>1. i \in 1 .. m /\ j \in 1 .. m
      BY <1>5, <1>11, <2>0, <2>1
    <3> QED
      BY <1>5, <1>7, <1>11, <3>1 DEF Cuts, Rising
  <2>2. CASE i > m
    <3>1. i - m \in 1 .. b - a + 1 /\ m + (i - m) = i
          /\ j - m \in 1 .. b - a + 1 /\ m + (j - m) = j
      BY <1>3, <1>4, <1>5, <1>11, <2>0, <2>2
    <3>3. a + (i - m) - 1 \in 1 .. Len(samples)
          /\ a + (j - m) - 1 \in 1 .. Len(samples)
      <4>1. i - m \in Int /\ 1 <= i - m /\ i - m <= b - a + 1
            /\ j - m \in Int /\ 1 <= j - m /\ j - m <= b - a + 1
        BY <3>1
      <4> QED
        BY <4>1, <1>3, <1>4, <1>5
    <3>4. a + (i - m) - 1 < a + (j - m) - 1
      BY <1>3, <1>5, <1>11, <2>0
    <3>2. all[i] = samples[a + (i - m) - 1] /\ all[j] = samples[a + (j - m) - 1]
      BY <1>7, <3>1
    <3> QED
      BY <3>2, <3>3, <3>4 DEF Rising
  <2>3. CASE i <= m /\ j > m
    <3>1. i \in 1 .. m /\ j - m \in 1 .. b - a + 1 /\ m + (j - m) = j
      BY <1>3, <1>4, <1>5, <2>0, <2>3
    <3>7. a + (j - m) - 1 \in 1 .. Len(samples) /\ a <= a + (j - m) - 1
      <4>1. j - m \in Int /\ 1 <= j - m /\ j - m <= b - a + 1
        BY <3>1
      <4> QED
        BY <4>1, <1>3, <1>4, <1>5
    <3>2. all[i] = out[i] /\ all[j] = samples[a + (j - m) - 1]
      BY <1>7, <3>1
    <3>3. PICK s \in 1 .. n : \E f \in segments[s][1] .. segments[s][2] :
                                out[i] = samples[f]
      BY <1>2, <1>5, <3>1 DEF Cuts
    <3>4. PICK f \in segments[s][1] .. segments[s][2] : out[i] = samples[f]
      BY <3>3
    <3>5. 1 <= segments[s][1]
      <4>1. s \in DOMAIN more /\ more[s] = segments[s]
        BY <1>1, <1>2
      <4>2. InOrder(more, Len(samples))
        BY DEF more
      <4> QED
        BY <4>1, <4>2 DEF InOrder
    <3>6. segments[s][1] \in Nat /\ segments[s][2] \in Nat /\ segments[s][2] < a
      BY <1>3, <1>4
    <3>8. f \in Int /\ 1 <= f /\ f < a
      BY <3>5, <3>6, <1>3
    <3>9. f < a + (j - m) - 1 /\ f \in 1 .. Len(samples)
      <4>1. \A x, y, z, w \in Int : x < y /\ y <= z /\ z <= w => x < z /\ x <= w
        OBVIOUS
      <4>2. a + (j - m) - 1 \in Int /\ a + (j - m) - 1 <= Len(samples)
        BY <3>7, <1>5
      <4> QED
        BY <4>1, <4>2, <1>3, <1>5, <3>7, <3>8
    <3> QED
      BY <3>2, <3>4, <3>7, <3>9 DEF Rising
  <2> QED
    BY <1>5, <2>0, <2>1, <2>2, <2>3
<1> QED
  <2>1. Rising(all)
    BY <1>11 DEF Rising
  <2> QED
    BY <1>2, <1>7, <1>9, <1>10, <2>1 DEF Cuts, all, piece, more

LEMMA CutOut ==
  ASSUME NEW samples \in Seq(Blocks), Rising(samples)
  PROVE  \A segments \in Seq(Nat \X Nat) :
           InOrder(segments, Len(samples)) =>
             Cuts(samples, segments, FlattenSeq(Pieces(samples, segments)))
<1> DEFINE T == Nat \X Nat
           S == {segments \in Seq(T) :
                   InOrder(segments, Len(samples)) =>
                     Cuts(samples, segments, FlattenSeq(Pieces(samples, segments)))}
<1>1. <<>> \in S
  <2>1. <<>> \in Seq(T) /\ DOMAIN <<>> = {} /\ <<>> \in Seq(Blocks)
    OBVIOUS
  <2>2. Pieces(samples, <<>>) = <<>>
    BY DEF Pieces
  <2>3. Cuts(samples, <<>>, <<>>)
    BY <2>1 DEF Cuts, Rising
  <2> QED
    BY <2>1, <2>2, <2>3, FlattenEmpty
<1>2. ASSUME NEW segments \in Seq(T), NEW segment \in T, segments \in S
      PROVE  Append(segments, segment) \in S
  <2> DEFINE more == Append(segments, segment)
             n == Len(segments)
  <2>1. n \in Nat /\ Len(more) = n + 1 /\ more[n + 1] = segment /\ more \in Seq(T)
        /\ \A i \in 1 .. n : more[i] = segments[i]
    OBVIOUS
  <2>2. DOMAIN segments = 1 .. n /\ DOMAIN more = 1 .. n + 1
    BY <2>1
  <2> SUFFICES ASSUME InOrder(more, Len(samples))
               PROVE  Cuts(samples, more, FlattenSeq(Pieces(samples, more)))
    BY <2>1
  <2> HIDE DEF n, more
  <2>3. InOrder(segments, Len(samples))
    <3>1. \A i \in DOMAIN segments : i \in DOMAIN more /\ more[i] = segments[i]
      BY <2>1, <2>2
    <3> QED
      BY <3>1 DEF InOrder
  <2>4. Cuts(samples, segments, FlattenSeq(Pieces(samples, segments)))
    BY <1>2, <2>3
  <2>5. ASSUME NEW i \in 1 .. n + 1
        PROVE  Piece(samples, more[i]) \in Seq(Blocks)
    <3> DEFINE a == more[i][1]
               b == more[i][2]
    <3>1. a \in Nat /\ b \in Nat /\ Len(samples) \in Nat
      <4>1. more[i] \in Nat \X Nat
        BY <2>1
      <4> QED
        BY <4>1
    <3>2. 1 <= a /\ b <= Len(samples)
      BY <2>2 DEF InOrder
    <3>3. Piece(samples, more[i]) = SubSeq(samples, a, b)
      <4>1. (IF b < Len(samples) THEN b ELSE Len(samples)) = b
        BY <3>1, <3>2
      <4> QED
        BY <4>1 DEF Piece
    <3> HIDE DEF a, b
    <3>4. SubSeq(samples, a, b) \in Seq(Blocks)
      BY <3>1, <3>2
    <3> QED
      BY <3>3, <3>4
  <2> DEFINE ps == Pieces(samples, segments)
             piece == Piece(samples, segment)
  <2>6. piece \in Seq(Blocks) /\ ps = [i \in 1 .. n |-> Piece(samples, segments[i])]
    BY <2>1, <2>2, <2>5 DEF Pieces
  <2>7. Pieces(samples, more) = [i \in 1 .. n + 1 |-> Piece(samples, more[i])]
    BY <2>2 DEF Pieces
  <2>8. ASSUME NEW i \in 1 .. n
        PROVE  Piece(samples, segments[i]) \in Seq(Blocks)
    <3>1. i \in 1 .. n + 1 /\ more[i] = segments[i]
      BY <2>1
    <3>2. Piece(samples, more[i]) \in Seq(Blocks)
      BY <3>1, <2>5
    <3> QED
      BY <3>1, <3>2
  <2> HIDE DEF ps, piece
  <2>9. ps \in Seq(Seq(Blocks)) /\ Len(ps) = n
    <3>1. ps \in [1 .. n -> Seq(Blocks)]
      BY <2>6, <2>8
    <3> QED
      BY <3>1, <2>1, ElementsMakeSeq
  <2>10. Pieces(samples, more) = Append(ps, piece)
    <3>1. Append(ps, piece) = [i \in 1 .. n + 1 |-> IF i = n + 1 THEN piece ELSE ps[i]]
      <4> DEFINE q == Append(ps, piece)
      <4>1. q \in Seq(Seq(Blocks)) /\ Len(q) = n + 1 /\ q[n + 1] = piece
            /\ \A i \in 1 .. n : q[i] = ps[i]
        BY <2>1, <2>6, <2>9
      <4> HIDE DEF q
      <4>2. q = [i \in 1 .. n + 1 |-> q[i]]
        BY <4>1
      <4>3. ASSUME NEW i \in 1 .. n + 1
            PROVE  q[i] = IF i = n + 1 THEN piece ELSE ps[i]
        <5>1. i = n + 1 \/ i \in 1 .. n
          BY <2>1
        <5> QED
          BY <4>1, <5>1
      <4> QED
        BY <4>2, <4>3 DEF q
    <3>2. ASSUME NEW i \in 1 .. n + 1
          PROVE  Piece(samples, more[i]) = IF i = n + 1 THEN piece ELSE ps[i]
      <4>1. CASE i = n + 1
        BY <2>1, <4>1 DEF piece
      <4>2. CASE i # n + 1
        <5>1. i \in 1 .. n
          BY <2>1, <4>2
        <5> QED
          BY <2>1, <2>6, <4>2, <5>1
      <4> QED
        BY <4>1, <4>2
    <3> QED
      BY <2>7, <3>1, <3>2
  <2>11. FlattenSeq(Pieces(samples, more)) = FlattenSeq(ps) \o piece
    BY <2>6, <2>9, <2>10, FlattenAppend
  <2>12. Cuts(samples, more, FlattenSeq(ps) \o piece)
    <3>1. segments \in Seq(Nat \X Nat) /\ segment \in Nat \X Nat
      OBVIOUS
    <3>2. InOrder(Append(segments, segment), Len(samples))
      BY DEF more
    <3> QED
      BY <2>4, <3>1, <3>2, CutStep DEF ps, piece, more
  <2> QED
    BY <2>11, <2>12
<1> HIDE DEF S
<1>3. Seq(T) \subseteq S
  BY <1>1, <1>2, SeqSetInduction
<1> QED
  BY <1>3 DEF S

\* What the recognizer is given after a recording that the VAD heard as it is.
LEMMA SpeechSurvives ==
  ASSUME NEW p, NEW samples \in Seq(Blocks), Rising(samples),
         NEW voices, PostInv(p, voices), Len(voices) = Len(samples),
         NEW out, out = GetConcatenatedSamples(Flush(p), samples)
  PROVE  /\ out \in Seq(Blocks) /\ Rising(out)
         /\ \A run \in Runs(voices) : \A f \in run[1] .. run[2] :
              \E k \in DOMAIN out : out[k] = samples[f]
<1> DEFINE segments == Flush(p).segments
<1>1. /\ segments \in Seq(Nat \X Nat) /\ InOrder(segments, Len(samples))
      /\ \A run \in Runs(voices) : run[1] .. run[2] \subseteq Selected(Flush(p))
  BY FlushStep
<1>2. out = FlattenSeq(Pieces(samples, segments))
  BY DEF GetConcatenatedSamples, Pieces, Piece
<1> HIDE DEF segments
<1>3. Cuts(samples, segments, out)
  BY <1>1, <1>2, CutOut
<1>4. ASSUME NEW f \in Selected(Flush(p))
      PROVE  \E k \in DOMAIN out : out[k] = samples[f]
  <2>1. PICK i \in DOMAIN segments : f \in segments[i][1] .. segments[i][2]
    BY DEF Selected, segments
  <2> QED
    BY <1>3, <2>1 DEF Cuts
<1> QED
  BY <1>1, <1>3, <1>4 DEF Cuts

---------------------------------------------------------------------------
(***************************************************************************)
(* As long as somebody is to go by the VAD, its postprocessor is what the  *)
(* blocks it heard make of it.                                             *)
(***************************************************************************)

Judging ==
  vadReady \/ (main.at = "built" /\ (main.mode = "local" \/ trimmer.active))

JudgeInv == Judging /\ ~vad.shared => PostInv(vad.post, Voices(vad.heard))

ActiveInv == Early(main.at) /\ trimmer.active => main.at = "built" /\ main.mode = "trim"

RisingInv == main.at = "stopped" \/ AtTheClose(main) => Rising(main.pcm)

SpeechInv == JudgeInv /\ ActiveInv /\ RisingInv /\ SpeechIsKept

LEMMA VoicesType ==
  ASSUME NEW a \in Seq(Blocks)
  PROVE  /\ Voices(a) \in Seq(BOOLEAN) /\ Len(Voices(a)) = Len(a)
         /\ \A i \in 1 .. Len(a) : Voices(a)[i] = a[i].voice
<1>1. Voices(a) = [i \in 1 .. Len(a) |-> a[i].voice]
  BY DEF Voices
<1>2. \A i \in 1 .. Len(a) : a[i].voice \in BOOLEAN
  <2>1. \A i \in 1 .. Len(a) : a[i] \in Blocks
    OBVIOUS
  <2>2. \A b \in Blocks : b.voice \in BOOLEAN
    BY DEF Blocks
  <2> QED
    BY <2>1, <2>2
<1>3. Len(a) \in Nat
  OBVIOUS
<1> QED
  BY <1>1, <1>2, <1>3

LEMMA VoicesConcat ==
  ASSUME NEW a \in Seq(Blocks), NEW b \in Seq(Blocks)
  PROVE  Voices(a \o b) = Voices(a) \o Voices(b)
<1> DEFINE c == a \o b
           v == Voices(a)
           w == Voices(b)
           m == Len(a)
           n == Len(b)
<1>1. c \in Seq(Blocks) /\ Len(c) = m + n /\ m \in Nat /\ n \in Nat
  BY ConcatLength
<1>2. /\ v \in Seq(BOOLEAN) /\ Len(v) = m /\ \A i \in 1 .. m : v[i] = a[i].voice
      /\ w \in Seq(BOOLEAN) /\ Len(w) = n /\ \A i \in 1 .. n : w[i] = b[i].voice
  BY VoicesType
<1>3. /\ Voices(c) \in Seq(BOOLEAN) /\ Len(Voices(c)) = m + n
      /\ \A i \in 1 .. m + n : Voices(c)[i] = c[i].voice
  <2> HIDE DEF c
  <2> QED
    BY <1>1, VoicesType
<1> HIDE DEF v, w
<1>4. v \o w \in Seq(BOOLEAN) /\ Len(v \o w) = m + n
  <2>1. v \o w \in Seq(BOOLEAN) /\ Len(v \o w) = Len(v) + Len(w)
    BY <1>2, ConcatLength
  <2>2. Len(v) = m /\ Len(w) = n
    BY <1>2
  <2> QED
    BY <2>1, <2>2
<1>5. ASSUME NEW i \in 1 .. m + n
      PROVE  Voices(c)[i] = (v \o w)[i]
  <2>1. i \in Nat /\ 1 <= i /\ i <= m + n
    BY <1>1
  <2>2. /\ i <= m => c[i] = a[i]
        /\ m < i => c[i] = b[i - m]
    BY <2>1, ConcatElements
  <2>3. /\ i <= m => (v \o w)[i] = v[i]
        /\ m < i => (v \o w)[i] = w[i - m]
    BY <2>1, <1>2, ConcatElements
  <2> HIDE DEF m, n, c
  <2>4. \/ i \in 1 .. m /\ i <= m
        \/ i - m \in 1 .. n /\ m < i
    BY <2>1, <1>1
  <2> QED
    BY <2>2, <2>3, <2>4, <1>2, <1>3
<1> HIDE DEF m, n
<1> QED
  BY <1>3, <1>4, <1>5, SequencesAreEqual DEF v, w

LEMMA FreshVadJudges ==
  PostInv(NoVad.post, Voices(NoVad.heard)) /\ PostInv(ResetVad.post, Voices(ResetVad.heard))
<1>1. Voices(<<>>) = <<>>
  <2>1. <<>> \in Seq(Blocks) /\ Len(<<>>) = 0
    OBVIOUS
  <2>2. Voices(<<>>) \in Seq(BOOLEAN) /\ Len(Voices(<<>>)) = 0
    BY <2>1, VoicesType
  <2> QED
    BY <2>2
<1> QED
  BY <1>1, FreshHolds DEF NoVad, ResetVad

LEMMA FedVadJudges ==
  ASSUME vad \in Vads(vad), vad.heard \in Seq(Blocks), NEW blocks \in Seq(Blocks),
         ~vad.shared, PostInv(vad.post, Voices(vad.heard))
  PROVE  PostInv(FedVad(blocks).post, Voices(FedVad(blocks).heard))
<1>1. PostInv(Process(vad.post, Voices(blocks)), Voices(vad.heard) \o Voices(blocks))
  BY VoicesType, ProcessStep
<1>2. Voices(vad.heard \o blocks) = Voices(vad.heard) \o Voices(blocks)
  BY VoicesConcat
<1>3. /\ FedVad(blocks).post = Process(vad.post, Voices(blocks))
      /\ FedVad(blocks).heard = vad.heard \o blocks
  BY DEF FedVad, Vads
<1> QED
  BY <1>1, <1>2, <1>3

LEMMA JudgeRests ==
  ASSUME JudgeInv, Judging' => Judging, vad' = vad
  PROVE  JudgeInv'
  BY DEF JudgeInv

LEMMA JudgeFed ==
  ASSUME TypeInv, FedInv, JudgeInv, Judging' => Judging,
         NEW blocks \in Seq(Blocks), vad' = FedVad(blocks)
  PROVE  JudgeInv'
<1>1. vad \in Vads(vad) /\ vad.heard \in Seq(Blocks)
  BY DEF TypeInv, FedInv
<1>2. vad'.shared = vad.shared
  BY <1>1, FedVadHeard
<1>3. Judging' /\ ~vad'.shared => PostInv(vad'.post, Voices(vad'.heard))
  BY <1>1, <1>2, FedVadJudges DEF JudgeInv
<1> QED
  BY <1>3 DEF JudgeInv

LEMMA JudgeFresh ==
  ASSUME vad' = NoVad \/ vad' = ResetVad \/ vad'.shared \/ ~Judging'
  PROVE  JudgeInv'
<1>1. Judging' /\ ~vad'.shared => PostInv(vad'.post, Voices(vad'.heard))
  BY FreshVadJudges
<1> QED
  BY <1>1 DEF JudgeInv

(***************************************************************************)
(* The other parts, where the main thread rests or goes on.                *)
(***************************************************************************)

LEMMA NothingExact ==
  ASSUME main'.outcome = main.outcome \/ ~main'.outcome.exact, SpeechIsKept
  PROVE  SpeechIsKept'
  BY DEF SpeechIsKept

LEMMA NoOutcomeIsExact == ~NoOutcome.exact /\ Idle.outcome = NoOutcome
  BY DEF NoOutcome, Idle

LEMMA SpeechRests ==
  ASSUME SpeechInv, main' = main, trimmer'.active = trimmer.active, JudgeInv'
  PROVE  SpeechInv'
<1>1. SpeechIsKept'
  BY NothingExact DEF SpeechInv
<1>2. ActiveInv' /\ RisingInv'
  BY DEF SpeechInv, ActiveInv, RisingInv
<1> QED
  BY <1>1, <1>2 DEF SpeechInv

\* The main thread goes where no recording begins, and the VAD rests.
LEMMA SpeechElsewhere ==
  ASSUME SpeechInv, UNCHANGED <<vad, vadReady>>, ~Early(main'.at),
         main'.outcome = main.outcome \/ ~main'.outcome.exact,
         main'.at = "stopped" \/ AtTheClose(main') => Rising(main'.pcm)
  PROVE  SpeechInv'
<1>1. JudgeInv'
  <2>1. Judging' => Judging
    BY DEF Judging, Early
  <2> QED
    BY <2>1, JudgeRests DEF SpeechInv
<1>2. SpeechIsKept'
  BY NothingExact DEF SpeechInv
<1>3. ActiveInv' /\ RisingInv'
  BY DEF ActiveInv, RisingInv
<1> QED
  BY <1>1, <1>2, <1>3 DEF SpeechInv

\* It goes on towards a recording.
LEMMA SpeechOnTheWay ==
  ASSUME SpeechInv, main'.at \in {"detached", "opened", "built", "recording"},
         main'.outcome = main.outcome \/ ~main'.outcome.exact,
         Early(main'.at) /\ trimmer'.active => main'.at = "built" /\ main'.mode = "trim",
         JudgeInv'
  PROVE  SpeechInv'
<1>1. SpeechIsKept'
  BY NothingExact DEF SpeechInv
<1>2. ActiveInv' /\ RisingInv'
  BY DEF ActiveInv, RisingInv, AtTheClose
<1> QED
  BY <1>1, <1>2 DEF SpeechInv

(***************************************************************************)
(* The steps.                                                              *)
(***************************************************************************)

LEMMA CallbackSpeaks ==
  ASSUME TypeInv, FedInv, SpeechInv, Callback
  PROVE  SpeechInv'
<1> DEFINE one == <<packet.block>>
<1>1. main' = main /\ vadReady' = vadReady
  BY DEF Callback, Deliver, LeaveOut, Drop, Record, FeedVad, speech
<1>2. /\ trimmer \in Trimmers(trimmer) /\ one \in Seq(Blocks) /\ JudgeInv
  BY DEF TypeInv, SpeechInv
<1> HIDE DEF one
<1>3. trimmer'.active = trimmer.active /\ (vad' = vad \/ vad' = FedVad(one))
  <2>1. CASE Deliver \/ LeaveOut \/ Drop
    BY <2>1 DEF Deliver, LeaveOut, Drop, speech
  <2>2. CASE Record
    <3>1. CASE Listening /\ trimmer.active
      <4>1. trimmer' = Trimmed(session, one).trimmer /\ vad' = FedVad(one)
        BY <2>2, <3>1 DEF Record, one
      <4> QED
        BY <4>1, <1>2, TrimmedType
    <3>2. CASE ~(Listening /\ trimmer.active)
      BY <2>2, <3>2 DEF Record
    <3> QED
      BY <3>1, <3>2
  <2>3. CASE FeedVad
    BY <2>3 DEF FeedVad, one
  <2> QED
    BY <2>1, <2>2, <2>3 DEF Callback
<1>4. Judging' => Judging
  BY <1>1, <1>3 DEF Judging
<1>5. JudgeInv'
  BY <1>2, <1>3, <1>4, JudgeRests, JudgeFed
<1> QED
  BY <1>1, <1>3, <1>5, SpeechRests

LEMMA PendingSpeaks ==
  ASSUME TypeInv, SpeechInv, BeginCaptureOnly \/ DiscardPendingCapture
  PROVE  SpeechInv'
<1>1. UNCHANGED <<vad, vadReady>>
  BY DEF BeginCaptureOnly, DiscardPendingCapture, speech
<1>2. CASE BeginCaptureOnly
  <2>1. main'.at = "pending" /\ main'.outcome = NoOutcome
    BY <1>2 DEF BeginCaptureOnly, Idle
  <2> QED
    BY <2>1, <1>1, SpeechElsewhere, NoOutcomeIsExact DEF Early, AtTheClose
<1>3. CASE DiscardPendingCapture
  <2>1. /\ main'.at \in {"closing", "idle"} /\ main'.next = "idle"
        /\ main'.outcome = main.outcome
    BY <1>3 DEF DiscardPendingCapture, TypeInv, Mains
  <2> QED
    BY <2>1, <1>1, SpeechElsewhere DEF Early, AtTheClose
<1> QED
  BY <1>2, <1>3

LEMMA DetachSpeaks ==
  ASSUME TypeInv, SpeechInv, Detach
  PROVE  SpeechInv'
<1>1. /\ trimmer' = NoTrimmer /\ vadReady' = FALSE
      /\ main'.at \in {"detached", "opened"} /\ main'.outcome = NoOutcome
  BY DEF Detach, TypeInv, Mains
<1>2. ~trimmer'.active
  BY <1>1 DEF NoTrimmer
<1>3. JudgeInv'
  BY <1>1, JudgeFresh DEF Judging
<1> QED
  BY <1>1, <1>2, <1>3, SpeechOnTheWay, NoOutcomeIsExact

LEMMA StartsSpeak ==
  ASSUME TypeInv, SpeechInv,
         OpenCapture \/ SessionStartFails \/ PlainStarts \/ BatchBegins
  PROVE  SpeechInv'
<1>1. UNCHANGED <<vad, vadReady, trimmer>> /\ Early(main.at) /\ main.at # "built"
  BY DEF OpenCapture, SessionStartFails, PlainStarts, BatchBegins, speech, Early
<1>2. ~trimmer.active
  BY <1>1 DEF SpeechInv, ActiveInv
<1>3. /\ main'.at \in {"opened", "recording", "built"} /\ main'.outcome = main.outcome
      /\ main'.at = "built" => main'.mode = "plain"
  BY DEF OpenCapture, SessionStartFails, PlainStarts, BatchBegins, Goes, TypeInv, Mains
<1>4. JudgeInv'
  <2>1. Judging' => Judging
    BY <1>1, <1>2, <1>3 DEF Judging
  <2> QED
    BY <2>1, <1>1, JudgeRests DEF SpeechInv
<1> QED
  BY <1>1, <1>2, <1>3, <1>4, SpeechOnTheWay

LEMMA VadStartsSpeak ==
  ASSUME TypeInv, SpeechInv, TrimmerStarts \/ LocalVadResets
  PROVE  SpeechInv'
<1>1. vadReady' = FALSE /\ main.at = "opened" /\ main \in Mains(main)
  BY DEF TrimmerStarts, LocalVadResets, TypeInv
<1>2. PICK loaded \in BOOLEAN :
        /\ loaded => vad' = ResetVad
        /\ \/ /\ main.mode = "trim" /\ trimmer' = [NoTrimmer EXCEPT !.active = loaded]
              /\ main' = [main EXCEPT !.at = "built"]
           \/ /\ main.mode = "local" /\ trimmer' = trimmer
              /\ main' = [main EXCEPT !.at = IF loaded THEN "built" ELSE "recording"]
  <2>1. CASE TrimmerStarts
    <3>1. PICK loaded \in {TRUE, vad.there} :
            /\ vad' = IF loaded THEN ResetVad ELSE vad
            /\ trimmer' = [NoTrimmer EXCEPT !.active = loaded]
      BY <2>1 DEF TrimmerStarts
    <3>2. loaded \in BOOLEAN
      BY DEF TypeInv, Vads
    <3>3. main.mode = "trim" /\ main' = [main EXCEPT !.at = "built"]
      BY <2>1 DEF TrimmerStarts, Goes
    <3> QED
      BY <3>1, <3>2, <3>3
  <2>2. CASE LocalVadResets
    <3>1. PICK loaded \in {TRUE, vad.there} :
            /\ vad' = IF loaded THEN ResetVad ELSE vad
            /\ main' = [main EXCEPT !.at = IF loaded THEN "built" ELSE "recording"]
      BY <2>2 DEF LocalVadResets, Goes
    <3>2. loaded \in BOOLEAN
      BY DEF TypeInv, Vads
    <3>3. main.mode = "local" /\ trimmer' = trimmer
      BY <2>2 DEF LocalVadResets
    <3> QED
      BY <3>1, <3>2, <3>3
  <2> QED
    BY <2>1, <2>2
<1>3. /\ main'.at \in {"built", "recording"} /\ main'.outcome = main.outcome
      /\ main'.mode = main.mode
  BY <1>1, <1>2 DEF Mains
<1>4. ~trimmer.active
  BY <1>1 DEF SpeechInv, ActiveInv, Early
<1>5. Early(main'.at) /\ trimmer'.active => main'.at = "built" /\ main'.mode = "trim"
  BY <1>2, <1>3, <1>4 DEF Early
<1>6. JudgeInv'
  <2>1. CASE loaded
    BY <2>1, <1>2, JudgeFresh
  <2>2. CASE ~loaded
    <3>1. \/ main'.at = "recording"
          \/ main'.mode = "trim" /\ ~trimmer'.active
      BY <2>2, <1>1, <1>2, <1>3 DEF NoTrimmer, Mains
    <3>2. ~Judging'
      BY <3>1, <1>1 DEF Judging
    <3> QED
      BY <3>2, JudgeFresh
  <2> QED
    BY <2>1, <2>2
<1> QED
  BY <1>3, <1>5, <1>6, SpeechOnTheWay

LEMMA ReplaySpeaks ==
  ASSUME TypeInv, FedInv, SpeechInv, ActivateStreamingSession \/ LocalVadPrimed
  PROVE  SpeechInv'
<1>1. /\ main.at = "built" /\ main' = [main EXCEPT !.at = "recording"]
      /\ vad' = vad \/ vad' = FedVad(audio)
      /\ main.mode = "local" \/ vadReady' = trimmer.active
  BY DEF ActivateStreamingSession, LocalVadPrimed, Goes
<1>2. main'.at = "recording" /\ main'.outcome = main.outcome /\ audio \in Seq(Blocks)
  BY <1>1 DEF TypeInv, Mains
<1>3. Judging' => Judging
  BY <1>1, <1>2 DEF Judging
<1>4. JudgeInv'
  BY <1>1, <1>2, <1>3, JudgeRests, JudgeFed DEF SpeechInv
<1> QED
  BY <1>2, <1>4, SpeechOnTheWay DEF Early

(***************************************************************************)
(* A recording ends.                                                       *)
(***************************************************************************)

LEMMA CloseSpeaks ==
  ASSUME TypeInv, CaptureInv, SpeechInv,
         StopRecordingSession \/ CloseAudioCapture \/ KeepAliveExpires
  PROVE  SpeechInv'
<1>1. UNCHANGED <<vad, vadReady>> /\ main \in Mains(main)
  BY DEF StopRecordingSession, CloseAudioCapture, KeepAliveExpires, speech, TypeInv
<1>2. CASE StopRecordingSession
  <2>1. /\ main'.at \in {"closing", "stopped"} /\ main'.pcm = audio
        /\ main'.outcome = main.outcome /\ main.at = "recording"
    BY <1>1, <1>2 DEF StopRecordingSession, Mains
  <2>2. Rising(audio)
    BY <2>1 DEF CaptureInv, Capturing, GapFree
  <2> QED
    BY <2>1, <2>2, <1>1, SpeechElsewhere DEF Early
<1>3. CASE CloseAudioCapture
  <2>1. /\ main.at = "closing" /\ main'.at = main.next /\ main'.pcm = main.pcm
        /\ main'.outcome = main.outcome /\ main.next \in {"idle", "stopped"}
    BY <1>1, <1>3 DEF CloseAudioCapture, Goes, Mains
  <2>2. main'.at = "stopped" => Rising(main'.pcm)
    BY <2>1 DEF SpeechInv, RisingInv, AtTheClose
  <2> QED
    BY <2>1, <2>2, <1>1, SpeechElsewhere DEF Early, AtTheClose
<1>4. CASE KeepAliveExpires
  <2>1. main'.at = "closing" /\ main'.next = "idle" /\ main'.outcome = main.outcome
    BY <1>1, <1>4 DEF KeepAliveExpires, Mains
  <2> QED
    BY <2>1, <1>1, SpeechElsewhere DEF Early, AtTheClose
<1> QED
  BY <1>2, <1>3, <1>4

LEMMA EndsSpeak ==
  ASSUME TypeInv, FedInv, SpeechInv, TooShort \/ StreamingStops \/ BatchStops
  PROVE  SpeechInv'
<1>1. /\ UNCHANGED <<vad, vadReady>> /\ main.at = "stopped"
      /\ Ends("short") \/ Ends("noSpeech") \/ Ends("recognize")
  BY DEF TooShort, StreamingStops, BatchStops, speech
<1>2. PICK verdict : Ends(verdict)
  BY <1>1
<1>3. main.outcome = NoOutcome /\ main \in Mains(main)
  BY <1>1 DEF FedInv, OutcomeInv, Busy, TypeInv
<1>4. main'.at = "idle"
  BY <1>2, <1>3, EndsInIdle
<1>5. ~main'.outcome.exact
  <2> DEFINE o == [[NoOutcome EXCEPT !.verdict = verdict] EXCEPT !.pcm = main.pcm]
  <2>1. main' = [main EXCEPT !.at = "idle", !.outcome = o]
    BY <1>2, <1>3 DEF Ends, Mains
  <2>2. ~o.exact
    BY DEF NoOutcome
  <2> HIDE DEF o
  <2> QED
    BY <1>3, <2>1, <2>2 DEF Mains
<1> QED
  BY <1>1, <1>4, <1>5, SpeechElsewhere DEF Early, AtTheClose

\* The speech of a recording that the VAD heard as it is.
LEMMA LocalStopsSpeaks ==
  ASSUME TypeInv, FedInv, SpeechInv, LocalStops
  PROVE  SpeechInv'
<1> DEFINE post == Flush(vad.post)
           out == GetConcatenatedSamples(post, main.pcm)
<1>1. /\ main.at = "stopped" /\ vadReady /\ ~vadReady'
      /\ main' = [main EXCEPT !.at = "idle", !.outcome = LocalOutcome(post, out)]
      /\ main \in Mains(main) /\ main.pcm \in Seq(Blocks)
  BY DEF LocalStops, TypeInv, Mains
<1>2. out = GetConcatenatedSamples(Flush(vad.post), main.pcm)
  OBVIOUS
<1> HIDE DEF post, out
<1>3. main'.at = "idle" /\ main'.outcome = LocalOutcome(post, out)
  BY <1>1 DEF Mains
<1>4. /\ main'.outcome.pcm = main.pcm /\ main'.outcome.samples = out
      /\ main'.outcome.exact => vad.heard = main.pcm /\ ~vad.shared
  <2> DEFINE heardIt == vad.heard = main.pcm /\ ~vad.shared
  <2>1. LocalOutcome(post, out).exact = heardIt
    BY DEF LocalOutcome
  <2> HIDE DEF heardIt
  <2>2. main'.outcome.exact = heardIt
    BY <1>3, <2>1
  <2>3. main'.outcome.pcm = main.pcm /\ main'.outcome.samples = out
    BY <1>3 DEF LocalOutcome
  <2> QED
    BY <2>2, <2>3 DEF heardIt
<1>5. ASSUME main'.outcome.exact
      PROVE  /\ Rising(out)
             /\ \A run \in Runs(Voices(main.pcm)) : \A f \in run[1] .. run[2] :
                  \E k \in DOMAIN out : out[k] = main.pcm[f]
  <2>1. PostInv(vad.post, Voices(main.pcm))
    BY <1>1, <1>4, <1>5 DEF SpeechInv, JudgeInv, Judging
  <2>2. Rising(main.pcm)
    BY <1>1 DEF SpeechInv, RisingInv
  <2>3. Len(Voices(main.pcm)) = Len(main.pcm)
    BY <1>1, VoicesType
  <2> QED
    BY <1>1, <1>2, <2>1, <2>2, <2>3, SpeechSurvives
<1>6. SpeechIsKept'
  <2> SUFFICES ASSUME main'.outcome.exact
               PROVE  /\ \A run \in Runs(Voices(main.pcm)) : \A i \in run[1] .. run[2] :
                           main.pcm[i].n \in {out[k].n : k \in DOMAIN out}
                      /\ \A i, j \in DOMAIN out : i < j => out[i].n < out[j].n
    BY <1>4 DEF SpeechIsKept
  <2> QED
    BY <1>5 DEF Rising
<1>7. JudgeInv'
  BY <1>1, <1>3, JudgeFresh DEF Judging
<1>8. ActiveInv' /\ RisingInv'
  BY <1>3 DEF ActiveInv, RisingInv, Early, AtTheClose
<1> QED
  BY <1>6, <1>7, <1>8 DEF SpeechInv

LEMMA ReloadMessageSpeaks ==
  ASSUME TypeInv, SpeechInv, ReloadMessage
  PROVE  SpeechInv'
<1>1. /\ vad' = NoVad /\ UNCHANGED <<trimmer, vadReady>>
      /\ \/ main' = [main EXCEPT !.at = "closing", !.next = "idle"]
         \/ main' = main
  BY DEF ReloadMessage
<1>2. JudgeInv'
  BY <1>1, JudgeFresh
<1>3. CASE main' = main
  BY <1>1, <1>2, <1>3, SpeechRests
<1>4. CASE main' = [main EXCEPT !.at = "closing", !.next = "idle"]
  <2>1. main'.at = "closing" /\ main'.next = "idle" /\ main'.outcome = main.outcome
    BY <1>4 DEF TypeInv, Mains
  <2>2. ActiveInv' /\ RisingInv'
    BY <2>1 DEF ActiveInv, RisingInv, Early, AtTheClose
  <2>3. SpeechIsKept'
    BY <2>1, NothingExact DEF SpeechInv
  <2> QED
    BY <1>2, <2>2, <2>3 DEF SpeechInv
<1> QED
  BY <1>1, <1>3, <1>4

LEMMA OthersSpeak ==
  ASSUME TypeInv, FedInv, SpeechInv,
         Engine \/ FinalTakesSession \/ Crash \/ UNCHANGED vars
  PROVE  SpeechInv'
<1>1. UNCHANGED <<main, trimmer, vadReady>>
  BY DEF Engine, PreloadAsrEngine, SessionStops, JobResetsVad, JobFeedsVad,
         FinalTakesSession, Crash, vars, speech
<1>2. vad' = vad \/ vad' = ResetVad \/ vad'.shared
  <2>1. CASE Engine
    <3>1. CASE JobResetsVad \/ JobFeedsVad
      BY <3>1 DEF JobResetsVad, JobFeedsVad, ResetVad, NoVad, TypeInv, Vads
    <3>2. CASE PreloadAsrEngine \/ SessionStops
      BY <3>2 DEF PreloadAsrEngine, SessionStops
    <3> QED
      BY <2>1, <3>1, <3>2 DEF Engine
  <2>2. CASE FinalTakesSession \/ Crash \/ UNCHANGED vars
    BY <2>2 DEF FinalTakesSession, Crash, vars, speech
  <2> QED
    BY <2>1, <2>2
<1>3. Judging' = Judging
  BY <1>1 DEF Judging
<1>4. JudgeInv'
  BY <1>2, <1>3, JudgeRests, JudgeFresh DEF SpeechInv
<1> QED
  BY <1>1, <1>4, SpeechRests

LEMMA InitSpeaks == Init => SpeechInv
<1> SUFFICES ASSUME Init PROVE SpeechInv
  OBVIOUS
<1>1. main.at = "idle" /\ main.outcome = NoOutcome /\ vadReady = FALSE
  BY DEF Init, Idle
<1>2. JudgeInv /\ ActiveInv /\ RisingInv
  BY <1>1 DEF JudgeInv, Judging, ActiveInv, RisingInv, Early, AtTheClose
<1>3. SpeechIsKept
  BY <1>1, NoOutcomeIsExact DEF SpeechIsKept
<1> QED
  BY <1>2, <1>3 DEF SpeechInv

\* Speech that the VAD confirms reaches the recognizer, each block once and in
\* order, whatever the configuration of the VAD and wherever its chunks end.
THEOREM SpeechIsNeverTrimmed == Spec => []SpeechIsKept
<1>1. Inv /\ FedInv /\ SpeechInv /\ [Next]_vars => SpeechInv'
  <2> SUFFICES ASSUME TypeInv, CaptureInv, FedInv, SpeechInv, [Next]_vars
               PROVE  SpeechInv'
    BY DEF Inv
  <2>1. CASE Callback
    BY <2>1, CallbackSpeaks
  <2>2. CASE Starts
    BY <2>2, PendingSpeaks, DetachSpeaks, StartsSpeak, VadStartsSpeak, ReplaySpeaks
       DEF Starts
  <2>3. CASE Stops
    BY <2>3, CloseSpeaks, EndsSpeak, LocalStopsSpeaks, ReloadMessageSpeaks, OthersSpeak
       DEF Stops
  <2>4. CASE Engine \/ Crash \/ UNCHANGED vars
    BY <2>4, OthersSpeak
  <2> QED
    BY <2>1, <2>2, <2>3, <2>4 DEF Next
<1>2. SpeechInv => SpeechIsKept
  BY DEF SpeechInv
<1>3. Inv /\ HearInv /\ FedInv /\ [Next]_vars => FedInv'
  BY FedKeeps DEF Inv
<1> QED
  BY <1>1, <1>2, <1>3, InitFeeds, InitSpeaks, Invariance, HearInvariance, PTL DEF Spec

=============================================================================
