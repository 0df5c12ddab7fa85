---------------------- MODULE BatchRecognition_proofs ----------------------
(***************************************************************************)
(* Theorems about BatchRecognition and the AudioDiagnostics it reports to, *)
(* for any number of recordings, limits of retention, and crashes.         *)
(*                                                                         *)
(* The invariant has four parts: what the threads remember (WorkInv), what *)
(* the writer's job has done and has left to do (JobInv), who has a        *)
(* recording on its way to the disk (WriterInv), and what the files of a   *)
(* recording look like at each step of its save (DiskInv).  RetentionInv,  *)
(* which rests on them, is about the recordings that stay.                 *)
(***************************************************************************)
EXTENDS
  BatchRecognition, SequenceTheorems, FiniteSetTheorems, WellFoundedInduction, TLAPS

---------------------------------------------------------------------------
(***************************************************************************)
(* The open attempts.                                                      *)
(***************************************************************************)

Parts == {"raw", "trimmed", "part"}
Pcms == Parts \union {"none"}
Keys == {"primary", "fallback", "internal_retry"} \X Nat
Terminals == {"none", "good", "bad", "plain"}
StageRecords == [pcm : Pcms, terminal : Terminals, sent : Nat]

Stages(f) ==
  /\ f = [k \in DOMAIN f |-> f[k]]
  /\ DOMAIN f \subseteq Keys
  /\ \A k \in DOMAIN f : f[k] \in StageRecords

AttemptType(a) ==
  /\ a \in [mode : {a.mode}, size : {a.size}, pcm : Pcms, stages : {a.stages}]
  /\ Stages(a.stages)

AttemptsType(as) ==
  /\ as = [i \in DOMAIN as |-> as[i]]
  /\ DOMAIN as \subseteq Attempts
  /\ \A i \in DOMAIN as : AttemptType(as[i])

\* The requests made under a stage.
SentOf(as, i, k) ==
  IF i \in DOMAIN as /\ k \in DOMAIN as[i].stages THEN as[i].stages[k].sent ELSE 0

---------------------------------------------------------------------------
(***************************************************************************)
(* The recognition threads.                                                *)
(***************************************************************************)

Tokens == [n : Nat, cred : {"none", "saved", "typed"}]
Texts == {"auth", "no_speech", "usable_text", "operational_error"}

Sessions ==
  [pc : {"session", "token", "request", "clear"}, provider : Backends,
   kind : {"primary", "fallback"}, fallback : Backends \union {"none"},
   pcm : {"raw", "trimmed"}, requests : Nat, tries : Nat, token : Tokens,
   rejected : Nat, retried : BOOLEAN]
Answers ==
  [pc : {"judge"}, kind : {"primary", "fallback"},
   fallback : Backends \union {"none"}, text : Texts]
Dispatches == [pc : {"dispatch"}, text : Texts]
Ends == [pc : {"none", "done"}]
Workers == Sessions \union Answers \union Dispatches \union Ends

\* The stages a session of this kind may have used with its first n requests.
UsedBy(kind, n, k) ==
  IF kind = "primary"
  THEN /\ k[1] # "fallback"
       /\ IF k[1] = "primary" THEN n > 0 ELSE k[2] < n
  ELSE k[1] = "fallback" => k[2] < n

Used(w, k) ==
  CASE w.pc = "none" -> FALSE
    [] w.pc \in {"session", "token", "request"} -> UsedBy(w.kind, w.requests, k)
    [] w.pc = "clear" -> UsedBy(w.kind, w.requests + 1, k)
    [] w.pc = "judge" -> w.kind = "primary" => k[1] # "fallback"
    [] OTHER -> TRUE

\* A token in the cache is one that was issued; one that a thread has had refused,
\* and forgotten, is not the one in the cache.
TokenOK(w, cached) ==
  /\ w.pc \in {"token", "request"} /\ w.rejected # 0 => cached.n # w.rejected
  /\ w.pc = "request" /\ w.provider = "baidu" =>
       /\ w.token.cred = "saved" /\ w.token.n # w.rejected /\ w.token.n # 0
  /\ w.pc = "session" => w.rejected = 0

WorkInv ==
  /\ plan \in Plans
  /\ begun \in Nat
  /\ active \in Nat
  /\ tests \in Nat
  /\ token \in Tokens /\ (token = NoToken \/ token.n # 0)
  /\ active # 0 => active \in Attempts /\ active <= begun
  /\ worker \in [Attempts -> Workers]
  /\ \A i \in Attempts : i > begun => worker[i] = NoWorker
  /\ \A i \in Attempts : TokenOK(worker[i], token)
  /\ AttemptsType(attempts)
  /\ \A i \in DOMAIN attempts : i <= begun
  /\ \A i \in Attempts, k \in Keys :
       /\ SentOf(attempts, i, k) <= 1
       /\ SentOf(attempts, i, k) # 0 => Used(worker[i], k)

---------------------------------------------------------------------------
(***************************************************************************)
(* The writers and their jobs.                                             *)
(***************************************************************************)

Saves ==
  [group : Attempts, step : {"taken", "counted"}, audio : SUBSET Parts, late : BOOLEAN]

SaveJobs ==
  [by : Attempts, late : BOOLEAN, step : {"temp", "rename", "undo"},
   committed : SUBSET Parts, audio : SUBSET Parts, todo : Seq(Parts \union {"json"})]
CleanJobs == [by : Attempts, late : BOOLEAN, step : {"clean"}]
SweepType(j) ==
  j \in [by : Attempts \union {Settings}, late : BOOLEAN,
         step : {"pick", "audio", "manifest"}, pass : {j.pass}, victim : {j.victim},
         all : {j.all}, live : {j.live}, tried : {j.tried}, failed : BOOLEAN,
         sizes : {j.sizes}, now : {j.now}, manifests : {j.manifests}]
JobType(j) == j = NoJob \/ j \in SaveJobs \/ j \in CleanJobs \/ SweepType(j)

\* What is left of a save: WAVs, and the manifest at the end.
ToDo(j) ==
  /\ Len(j.todo) > 0
  /\ \A k \in 1 .. Len(j.todo) : j.todo[k] = "json" <=> k = Len(j.todo)
  /\ j.audio = j.committed \union {j.todo[k] : k \in 1 .. Len(j.todo) - 1}

JobOK(j) == JobType(j) /\ (j.step \in {"temp", "rename"} => ToDo(j))

JobInv == JobOK(job) /\ finals \subseteq Saves /\ waiting \subseteq Saves

OnTheirWay == finals \union waiting
Counted == {f \in finals : f.step = "counted"} \union waiting

\* Who saves or sweeps for a recording.
Writing == IF job.by \in Attempts THEN 1 ELSE 0

WriterInv ==
  /\ IsFiniteSet(finals) /\ IsFiniteSet(waiting)
  /\ \A f \in waiting : f.step = "counted"
  /\ pending = Cardinality(Counted) + Writing
  /\ \A f \in OnTheirWay :
       /\ f.group <= begun /\ f.group \notin DOMAIN attempts /\ f.group # job.by
       /\ \A g \in OnTheirWay : f.group = g.group => f = g
  /\ finals \intersect waiting = {}
  /\ job.by \notin DOMAIN attempts /\ job.by <= begun
  /\ exit \in {"open", "closing", "drained", "ended"}
  /\ job.by = Settings => exit # "ended"
  /\ ExitWaitsForWriters

---------------------------------------------------------------------------
(***************************************************************************)
(* The directory.                                                          *)
(***************************************************************************)

FileType(f) ==
  f \in [group : Attempts, part : Parts \union {"json"}, tmp : BOOLEAN,
         lists : SUBSET Parts, day : {f.day}, stamp : {f.stamp}]

SaveInv ==
  job.step \in {"temp", "rename"} =>
    /\ \A p \in Parts \union {"json"} :
         p \in job.committed <=>
           \E f \in files : f.group = job.by /\ ~f.tmp /\ f.part = p
    /\ \A f \in files : f.group = job.by /\ f.tmp =>
         /\ job.step = "rename" /\ f.part = Head(job.todo)
         /\ f.lists = IF f.part = "json" THEN job.audio ELSE {}
    /\ job.step = "rename" => \E f \in files : f.group = job.by /\ f.tmp

\* A recording that is being deleted has no temporary file, and its manifest goes last.
VictimInv ==
  job.step \in {"audio", "manifest"} /\ job.victim \in Attempts \ torn =>
    \A f \in files : f.group = job.victim =>
      ~f.tmp /\ (job.step = "manifest" => f.part = "json")

\* GroupsAreWhole, for one recording.
WholeIn(fs, g) ==
  \/ \A f \in fs : f.group # g
  \/ /\ \A f \in fs : f.group = g => ~f.tmp
     /\ \E m \in fs :
          /\ m.group = g /\ m.part = "json"
          /\ \A p \in Parts :
               p \in m.lists <=> \E f \in fs : f.group = g /\ f.part = p

\* Who has files is neither open nor on its way to the disk.
FilesInv ==
  \A f \in files :
    /\ FileType(f)
    /\ f.group <= begun /\ f.group \notin DOMAIN attempts
    /\ \A g \in OnTheirWay : f.group # g.group

DiskInv ==
  /\ FilesInv
  /\ SaveInv
  /\ VictimInv
  /\ \A g \in Attempts \ (torn \union InWork) : WholeIn(files, g)

Inv == WorkInv /\ JobInv /\ WriterInv /\ DiskInv

---------------------------------------------------------------------------
(***************************************************************************)
(* What the calls that collect an attempt do to it.                        *)
(***************************************************************************)

\* The attempts are those there were, with the requests there were.
SameSent(as, bs) ==
  /\ AttemptsType(bs)
  /\ DOMAIN bs = DOMAIN as
  /\ \A i \in Attempts, k \in Keys : SentOf(bs, i, k) = SentOf(as, i, k)

LEMMA SameSentChain ==
  ASSUME NEW as, NEW bs, NEW cs, SameSent(as, bs), SameSent(bs, cs)
  PROVE  SameSent(as, cs)
  BY DEF SameSent

LEMMA PutStage ==
  ASSUME NEW f, Stages(f), NEW key \in Keys, NEW stage \in StageRecords
  PROVE  /\ Stages(Put(f, key, stage))
         /\ DOMAIN Put(f, key, stage) = DOMAIN f \union {key}
         /\ Put(f, key, stage)[key] = stage
         /\ \A k \in DOMAIN f \ {key} : Put(f, key, stage)[k] = f[k]
<1>1. /\ DOMAIN Put(f, key, stage) = DOMAIN f \union {key}
      /\ Put(f, key, stage)[key] = stage
      /\ \A k \in DOMAIN f \ {key} : Put(f, key, stage)[k] = f[k]
  BY DEF Put
<1>2. Put(f, key, stage) = [k \in DOMAIN Put(f, key, stage) |-> Put(f, key, stage)[k]]
  BY DEF Put
<1> QED
  BY <1>1, <1>2 DEF Stages

\* bs is as with this stage in attempt i, if there is that attempt.
StageChanged(as, bs, i, key, stage) ==
  /\ AttemptsType(bs)
  /\ DOMAIN bs = DOMAIN as
  /\ \A j \in Attempts, k \in Keys :
       SentOf(bs, j, k) = SentOf(as, j, k) \/ (j = i /\ k = key /\ i \in DOMAIN as)
  /\ i \in DOMAIN as => SentOf(bs, i, key) = stage.sent

LEMMA WithStageType ==
  ASSUME NEW as, AttemptsType(as), NEW i \in Attempts, NEW key \in Keys,
         NEW stage \in StageRecords
  PROVE  StageChanged(as, WithStage(as, i, key, stage), i, key, stage)
<1>1. CASE i \notin DOMAIN as
  BY <1>1 DEF WithStage, StageChanged
<1>2. CASE i \in DOMAIN as
  <2> DEFINE a == as[i]
             f == Put(a.stages, key, stage)
             b == [a EXCEPT !.stages = f]
             bs == WithStage(as, i, key, stage)
  <2>1. AttemptType(a)
    BY <1>2 DEF AttemptsType
  <2>2. /\ Stages(f) /\ DOMAIN f = DOMAIN a.stages \union {key} /\ f[key] = stage
        /\ \A k \in DOMAIN a.stages \ {key} : f[k] = a.stages[k]
    <3>1. Stages(a.stages)
      BY <2>1 DEF AttemptType
    <3> HIDE DEF a
    <3> QED
      BY <3>1, PutStage
  <2>3. bs = [as EXCEPT ![i] = b]
    BY <1>2, <2>1 DEF WithStage, AttemptsType, AttemptType
  <2> HIDE DEF f
  <2>4. b.stages = f /\ AttemptType(b)
    BY <2>1, <2>2 DEF AttemptType
  <2> HIDE DEF b, bs
  <2>5. /\ DOMAIN bs = DOMAIN as /\ bs[i] = b
        /\ \A j \in DOMAIN as \ {i} : bs[j] = as[j]
        /\ bs = [j \in DOMAIN bs |-> bs[j]]
    BY <1>2, <2>3 DEF AttemptsType
  <2>6. AttemptsType(bs)
    BY <2>4, <2>5 DEF AttemptsType
  <2>7. \A k \in Keys : SentOf(bs, i, k) = IF k = key THEN stage.sent ELSE SentOf(as, i, k)
    BY <1>2, <2>2, <2>4, <2>5 DEF SentOf
  <2>8. \A j \in Attempts \ {i}, k \in Keys : SentOf(bs, j, k) = SentOf(as, j, k)
    BY <2>5 DEF SentOf
  <2> QED
    BY <1>2, <2>5, <2>6, <2>7, <2>8 DEF bs, StageChanged
<1> QED
  BY <1>1, <1>2

LEMMA StageOfType ==
  ASSUME NEW as, AttemptsType(as), NEW i \in Attempts, NEW key \in Keys
  PROVE  /\ StageOf(as, i, key) \in StageRecords
         /\ StageOf(as, i, key).sent = SentOf(as, i, key)
<1>1. NewStage \in StageRecords /\ NewStage.sent = 0
  BY DEF NewStage, StageRecords, Pcms, Terminals
<1>2. i \in DOMAIN as => Stages(as[i].stages)
  BY DEF AttemptsType, AttemptType
<1> QED
  BY <1>1, <1>2 DEF StageOf, FindOrCreateStage, SentOf, Stages

\* A stage that is completed or given its input keeps its requests.
LEMMA SameRequests ==
  ASSUME NEW as, AttemptsType(as), NEW i \in Attempts, NEW key \in Keys,
         NEW stage \in StageRecords, stage.sent = StageOf(as, i, key).sent
  PROVE  SameSent(as, WithStage(as, i, key, stage))
<1> DEFINE bs == WithStage(as, i, key, stage)
<1>1. stage.sent = SentOf(as, i, key)
  BY StageOfType
<1>2. StageChanged(as, bs, i, key, stage)
  BY WithStageType
<1> HIDE DEF bs
<1>3. SameSent(as, bs)
  BY <1>1, <1>2 DEF SameSent, StageChanged
<1> QED
  BY <1>3 DEF bs

LEMMA StageInputKeeps ==
  ASSUME NEW as, AttemptsType(as), NEW i \in Attempts, NEW key \in Keys, NEW pcm \in Pcms
  PROVE  SameSent(as, StageInput(as, i, key, pcm))
<1> DEFINE stage == [StageOf(as, i, key) EXCEPT !.pcm = pcm]
<1>1. stage \in StageRecords /\ stage.sent = StageOf(as, i, key).sent
  BY StageOfType DEF StageRecords
<1> HIDE DEF stage
<1>2. SameSent(as, WithStage(as, i, key, stage))
  BY <1>1, SameRequests
<1> QED
  BY <1>2 DEF StageInput, stage

LEMMA CompleteStageKeeps ==
  ASSUME NEW as, AttemptsType(as), NEW i \in Attempts, NEW key \in Keys,
         NEW terminal \in Terminals
  PROVE  SameSent(as, CompleteStage(as, i, key, terminal))
<1> DEFINE stage == [StageOf(as, i, key) EXCEPT !.terminal = terminal]
<1>1. stage \in StageRecords /\ stage.sent = StageOf(as, i, key).sent
  BY StageOfType DEF StageRecords
<1> HIDE DEF stage
<1>2. SameSent(as, WithStage(as, i, key, stage))
  BY <1>1, SameRequests
<1> QED
  BY <1>2 DEF CompleteStage, stage

LEMMA CompleteIfMissingKeeps ==
  ASSUME NEW as, AttemptsType(as), NEW i \in Attempts, NEW key \in Keys,
         NEW terminal \in Terminals
  PROVE  SameSent(as, CompleteStageIfMissing(as, i, key, terminal))
<1>1. SameSent(as, as)
  BY DEF SameSent
<1> QED
  BY <1>1, CompleteStageKeeps DEF CompleteStageIfMissing

LEMMA AttachCaptureKeeps ==
  ASSUME NEW as, AttemptsType(as), NEW i \in Attempts, NEW size
  PROVE  SameSent(as, AttachCapture(as, i, size))
<1>1. CASE i \notin DOMAIN as
  BY <1>1 DEF AttachCapture, SameSent
<1>2. CASE i \in DOMAIN as
  <2> DEFINE a == as[i]
             pcm == IF size = "none" THEN "none" ELSE "raw"
             b == [a EXCEPT !.size = size, !.pcm = pcm]
             bs == AttachCapture(as, i, size)
  <2>1. AttemptType(a)
    BY <1>2 DEF AttemptsType
  <2>2. pcm \in Pcms
    BY DEF Pcms, Parts
  <2>3. bs = [as EXCEPT ![i] = b]
    BY <1>2, <2>1 DEF AttachCapture, AttemptsType, AttemptType
  <2> HIDE DEF pcm
  <2>4. b.stages = a.stages /\ AttemptType(b)
    <3>1. /\ b \in [mode : {a.mode}, size : {size}, pcm : Pcms, stages : {a.stages}]
          /\ b.mode = a.mode /\ b.size = size /\ b.stages = a.stages
      BY <2>1, <2>2 DEF AttemptType
    <3> QED
      BY <2>1, <3>1 DEF AttemptType
  <2> HIDE DEF b, bs
  <2>5. /\ DOMAIN bs = DOMAIN as /\ bs[i] = b
        /\ \A j \in DOMAIN as \ {i} : bs[j] = as[j]
        /\ bs = [j \in DOMAIN bs |-> bs[j]]
    BY <1>2, <2>3 DEF AttemptsType
  <2>6. AttemptsType(bs)
    BY <2>4, <2>5 DEF AttemptsType
  <2>7. \A j \in Attempts, k \in Keys : SentOf(bs, j, k) = SentOf(as, j, k)
    BY <1>2, <2>4, <2>5 DEF SentOf
  <2> QED
    BY <2>5, <2>6, <2>7 DEF SameSent, bs
<1> QED
  BY <1>1, <1>2

\* bs is as with a new attempt i, or without one when nothing is collected.
Begun(as, bs, i) ==
  /\ AttemptsType(bs)
  /\ DOMAIN bs \in {DOMAIN as, DOMAIN as \union {i}}
  /\ \A j \in Attempts, k \in Keys : SentOf(bs, j, k) = SentOf(as, j, k)

LEMMA BeginAttemptKeeps ==
  ASSUME NEW as, AttemptsType(as), NEW i \in Attempts, i \notin DOMAIN as, NEW mode
  PROVE  Begun(as, BeginAttempt(as, i, mode), i)
<1>1. CASE mode = "off"
  BY <1>1 DEF BeginAttempt, Begun
<1>2. CASE mode # "off"
  <2> DEFINE a == NewAttempt(mode)
             bs == BeginAttempt(as, i, mode)
  <2>1. /\ a \in [mode : {mode}, size : {"none"}, pcm : Pcms, stages : {<<>>}]
        /\ a.stages = <<>> /\ a.mode = mode /\ a.size = "none"
    BY DEF NewAttempt, Pcms
  <2>2. DOMAIN <<>> = {} /\ Stages(<<>>)
    BY DEF Stages
  <2> HIDE DEF a
  <2>3. AttemptType(a)
    BY <2>1, <2>2 DEF AttemptType
  <2>4. bs = Put(as, i, a)
    BY <1>2 DEF BeginAttempt, a
  <2> HIDE DEF bs
  <2>5. /\ DOMAIN bs = DOMAIN as \union {i} /\ bs[i] = a
        /\ \A j \in DOMAIN as : bs[j] = as[j]
        /\ bs = [j \in DOMAIN bs |-> bs[j]]
    BY <2>4 DEF Put
  <2>6. AttemptsType(bs)
    BY <2>3, <2>5 DEF AttemptsType
  <2>7. \A j \in Attempts, k \in Keys : SentOf(bs, j, k) = SentOf(as, j, k)
    BY <2>1, <2>2, <2>5 DEF SentOf
  <2> QED
    BY <2>5, <2>6, <2>7 DEF bs, Begun
<1> QED
  BY <1>1, <1>2

\* bs is as without attempt i.
Discarded(as, bs, i) ==
  /\ AttemptsType(bs)
  /\ DOMAIN bs = DOMAIN as \ {i}
  /\ \A j \in Attempts, k \in Keys :
       SentOf(bs, j, k) = IF j = i THEN 0 ELSE SentOf(as, j, k)

LEMMA DiscardAttemptKeeps ==
  ASSUME NEW as, AttemptsType(as), NEW i
  PROVE  Discarded(as, DiscardAttempt(as, i), i)
<1> DEFINE bs == DiscardAttempt(as, i)
<1>1. /\ DOMAIN bs = DOMAIN as \ {i}
      /\ \A j \in DOMAIN as \ {i} : bs[j] = as[j]
      /\ bs = [j \in DOMAIN bs |-> bs[j]]
  BY DEF DiscardAttempt
<1> HIDE DEF bs
<1>2. AttemptsType(bs)
  BY <1>1 DEF AttemptsType
<1>3. \A j \in Attempts, k \in Keys :
        SentOf(bs, j, k) = IF j = i THEN 0 ELSE SentOf(as, j, k)
  BY <1>1 DEF SentOf
<1> QED
  BY <1>1, <1>2, <1>3 DEF bs, Discarded

---------------------------------------------------------------------------
(***************************************************************************)
(* The tokens.                                                             *)
(***************************************************************************)

\* A finite set has no fewer members than its image has.
LEMMA ImageIsSmaller ==
  ASSUME NEW S, IsFiniteSet(S), NEW f, DOMAIN f = S
  PROVE  LET T == {f[x] : x \in S}
         IN  IsFiniteSet(T) /\ Cardinality(T) <= Cardinality(S)
<1> DEFINE T == {f[x] : x \in S}
           g == [x \in S |-> f[x]]
<1>1. g \in Surjection(S, T)
  BY DEF Surjection
<1> QED
  BY <1>1, FS_Surjection

\* There is always a number left for a token: Issued() gives one that is not the
\* cached one, nor one that a thread holds or has had refused.
LEMMA IssuedIsNew ==
  ASSUME WorkInv, NEW cred \in {"saved", "typed"}
  PROVE  /\ Issued(cred) \in Tokens /\ Issued(cred).cred = cred
         /\ Issued(cred).n # 0 /\ Issued(cred).n # token.n
         /\ \A i \in Attempts :
              worker[i].pc \in {"token", "request", "clear"} =>
                Issued(cred).n # worker[i].token.n /\ Issued(cred).n # worker[i].rejected
<1> DEFINE Busy == {j \in Attempts : worker[j].pc \in {"token", "request", "clear"}}
           held == [j \in Busy |-> worker[j].token.n]
           refused == [j \in Busy |-> worker[j].rejected]
           Held == {held[j] : j \in Busy}
           Refusals == {refused[j] : j \in Busy}
           known == {token.n}
           \union UNION {{worker[j].token.n, worker[j].rejected} : j \in Busy}
           N == 2 * Cardinality(Attempts) + 2
<1>1. IsFiniteSet(Attempts) /\ Cardinality(Attempts) \in Nat /\ Busy \subseteq Attempts
  BY FS_CardinalityType, DiagnosticsAssumption
<1>2. /\ IsFiniteSet(Busy) /\ Cardinality(Busy) <= Cardinality(Attempts)
      /\ Cardinality(Busy) \in Nat
  BY <1>1, FS_Subset, FS_CardinalityType
<1>3. known = ({token.n} \union Held) \union Refusals
  <2>1. \A j \in Busy : held[j] = worker[j].token.n /\ refused[j] = worker[j].rejected
    OBVIOUS
  <2> HIDE DEF Busy, held, refused
  <2>2. \A x : x \in known <=>
          x = token.n \/ \E j \in Busy : x = worker[j].token.n \/ x = worker[j].rejected
    OBVIOUS
  <2>3. \A x : x \in Held <=> \E j \in Busy : x = held[j]
    OBVIOUS
  <2>4. \A x : x \in Refusals <=> \E j \in Busy : x = refused[j]
    OBVIOUS
  <2> HIDE DEF known, Held, Refusals
  <2> QED
    BY <2>1, <2>2, <2>3, <2>4
<1>4. /\ IsFiniteSet(Held) /\ Cardinality(Held) <= Cardinality(Busy)
      /\ IsFiniteSet(Refusals) /\ Cardinality(Refusals) <= Cardinality(Busy)
  <2>1. DOMAIN held = Busy /\ DOMAIN refused = Busy
    OBVIOUS
  <2> HIDE DEF Busy, held, refused
  <2> QED
    BY <1>2, <2>1, ImageIsSmaller
<1> HIDE DEF Held, Refusals
<1>5. IsFiniteSet(known) /\ Cardinality(known) < N
  <2>0. Cardinality(Held) \in Nat /\ Cardinality(Refusals) \in Nat
    BY <1>4, FS_CardinalityType
  <2>1. /\ IsFiniteSet(Held \union {token.n})
        /\ Cardinality(Held \union {token.n}) <= Cardinality(Held) + 1
        /\ Cardinality(Held \union {token.n}) \in Nat
    <3>1. /\ IsFiniteSet(Held \union {token.n})
          /\ Cardinality(Held \union {token.n}) =
               IF token.n \in Held THEN Cardinality(Held) ELSE Cardinality(Held) + 1
      BY <1>4, FS_AddElement
    <3> QED
      BY <2>0, <3>1
  <2>2. /\ IsFiniteSet((Held \union {token.n}) \union Refusals)
        /\ Cardinality((Held \union {token.n}) \union Refusals) =
             Cardinality(Held \union {token.n}) + Cardinality(Refusals)
               - Cardinality((Held \union {token.n}) \intersect Refusals)
        /\ Cardinality((Held \union {token.n}) \intersect Refusals) \in Nat
    BY <1>4, <2>1, FS_Union, FS_Intersection, FS_CardinalityType
  <2>3. known = (Held \union {token.n}) \union Refusals
    BY <1>3
  <2> HIDE DEF known
  <2> QED
    BY <1>1, <1>2, <1>4, <2>0, <2>1, <2>2, <2>3
<1>6. \E n \in 1 .. N : n \notin known
  <2> SUFFICES ASSUME 1 .. N \in SUBSET known
               PROVE  FALSE
    OBVIOUS
  <2>0. N \in Nat /\ N >= 1
    BY <1>1
  <2> HIDE DEF known, N
  <2>1. N \in Nat /\ Cardinality(1 .. N) = N
    <3>1. Cardinality(1 .. N) = IF 1 > N THEN 0 ELSE N - 1 + 1
      BY <2>0, FS_Interval
    <3> QED
      BY <2>0, <3>1
  <2>2. Cardinality(1 .. N) <= Cardinality(known)
    BY <1>5, FS_Subset
  <2>3. Cardinality(known) \in Nat
    BY <1>5, FS_CardinalityType
  <2> QED
    BY <1>5, <2>1, <2>2, <2>3
<1>7. Issued(cred) = [n |-> CHOOSE n \in 1 .. N : n \notin known, cred |-> cred]
  BY DEF Issued
<1>8. Issued(cred).n \in 1 .. N /\ Issued(cred).n \notin known /\ Issued(cred).cred = cred
  <2> HIDE DEF known, N
  <2>1. (CHOOSE n \in 1 .. N : n \notin known) \in 1 .. N
        /\ (CHOOSE n \in 1 .. N : n \notin known) \notin known
    BY <1>6
  <2> QED
    BY <1>7, <2>1
<1>9. N \in Nat
  BY <1>1
<1>10. Issued(cred) \in Tokens /\ Issued(cred).n # 0
  <2> HIDE DEF known, N
  <2> QED
    BY <1>7, <1>8, <1>9 DEF Tokens
<1> QED
  BY <1>8, <1>10

---------------------------------------------------------------------------
(***************************************************************************)
(* The steps of a thread.                                                  *)
(***************************************************************************)

LEMMA WorkerType ==
  ASSUME WorkInv, NEW i \in Attempts
  PROVE  /\ worker[i] \in Workers /\ TokenOK(worker[i], token)
         /\ worker[i].pc # "none" => i <= begun
         /\ worker[i].pc \in {"session", "token", "request", "clear"} =>
              worker[i] \in Sessions
         /\ worker[i].pc = "judge" => worker[i] \in Answers
         /\ worker[i].pc = "dispatch" => worker[i] \in Dispatches
<1>1. worker[i] \in Workers /\ TokenOK(worker[i], token)
  BY DEF WorkInv
<1>2. worker[i].pc # "none" => i <= begun
  <2> SUFFICES ASSUME ~(i <= begun)
               PROVE  worker[i].pc = "none"
    OBVIOUS
  <2>1. i > begun
    BY DiagnosticsAssumption DEF WorkInv
  <2> QED
    BY <2>1 DEF WorkInv, NoWorker
<1> QED
  BY <1>1, <1>2 DEF Workers, Sessions, Answers, Dispatches, Ends

\* What a step makes of the attempts, and of thread i and its token.
LEMMA WorkStep ==
  ASSUME WorkInv, NEW i \in Attempts, i <= begun, NEW w \in Workers,
         worker' = [worker EXCEPT ![i] = w], UNCHANGED <<plan, begun>>,
         active' \in {0, active}, tests' \in Nat,
         token' \in Tokens, token' = NoToken \/ token'.n # 0,
         AttemptsType(attempts'), DOMAIN attempts' \subseteq DOMAIN attempts,
         \A j \in Attempts \ {i}, k \in Keys :
           SentOf(attempts', j, k) \in {0, SentOf(attempts, j, k)},
         \A k \in Keys : /\ SentOf(attempts', i, k) <= 1
                         /\ SentOf(attempts', i, k) # 0 => Used(w, k),
         TokenOK(w, token'),
         \A j \in Attempts \ {i} : TokenOK(worker[j], token')
  PROVE  WorkInv'
<1>1. /\ worker \in [Attempts -> Workers] /\ worker' \in [Attempts -> Workers]
      /\ worker'[i] = w /\ \A j \in Attempts \ {i} : worker'[j] = worker[j]
  BY DEF WorkInv
<1>2. /\ plan' \in Plans /\ begun' \in Nat /\ active' \in Nat /\ tests' \in Nat
      /\ active' # 0 => active' \in Attempts /\ active' <= begun'
  BY DEF WorkInv
<1>3. \A j \in Attempts : j > begun' => worker'[j] = NoWorker
  BY <1>1, DiagnosticsAssumption DEF WorkInv
<1>4. \A j \in Attempts : TokenOK(worker'[j], token')
  BY <1>1
<1>5. \A j \in DOMAIN attempts' : j <= begun'
  BY DEF WorkInv
<1>6. \A j \in Attempts, k \in Keys :
        /\ SentOf(attempts', j, k) <= 1
        /\ SentOf(attempts', j, k) # 0 => Used(worker'[j], k)
  BY <1>1 DEF WorkInv
<1>7. AttemptsType(attempts')
  OBVIOUS
<1> QED
  BY <1>1, <1>2, <1>3, <1>4, <1>5, <1>6, <1>7
     DEF WorkInv, AttemptsType, AttemptType, SentOf, Used, TokenOK

LEMMA AttemptsKept ==
  ASSUME WorkInv
  PROVE  AttemptsType(attempts) /\ SameSent(attempts, attempts)
  BY DEF WorkInv, SameSent

\* A step that makes no request and leaves the token alone.
LEMMA SessionStep ==
  ASSUME WorkInv, NEW i \in Attempts, worker[i].pc # "none", NEW w \in Workers,
         worker' = [worker EXCEPT ![i] = w],
         UNCHANGED <<plan, begun, active, token, tests>>,
         SameSent(attempts, attempts'),
         \A k \in Keys : Used(worker[i], k) => Used(w, k), TokenOK(w, token)
  PROVE  WorkInv'
<1>1. i <= begun
  BY WorkerType
<1>2. /\ AttemptsType(attempts') /\ DOMAIN attempts' \subseteq DOMAIN attempts
      /\ \A j \in Attempts, k \in Keys : SentOf(attempts', j, k) = SentOf(attempts, j, k)
  BY DEF SameSent
<1>3. \A k \in Keys : /\ SentOf(attempts', i, k) <= 1
                      /\ SentOf(attempts', i, k) # 0 => Used(w, k)
  BY <1>2 DEF WorkInv
<1>4. \A j \in Attempts \ {i} : TokenOK(worker[j], token')
  BY DEF WorkInv
<1>5. /\ active' \in {0, active} /\ tests' \in Nat
      /\ token' \in Tokens /\ (token' = NoToken \/ token'.n # 0)
  BY DEF WorkInv
<1> QED
  BY <1>1, <1>2, <1>3, <1>4, <1>5, WorkStep

LEMMA AnswerType ==
  ASSUME NEW w \in Sessions, NEW text \in Texts
  PROVE  /\ Answer(w, text) \in Workers /\ Answer(w, text) \in Answers
         /\ Answer(w, text).pc = "judge" /\ Answer(w, text).kind = w.kind
  BY DEF Sessions, Answers, Workers, Answer

\* A session that ends is as far as it was with its stages.
LEMMA UsedAnswer ==
  ASSUME NEW w \in Sessions, NEW text \in Texts, NEW k \in Keys
  PROVE  /\ Used(w, k) => Used(Answer(w, text), k)
         /\ UsedBy(w.kind, w.requests + 1, k) => Used(Answer(w, text), k)
         /\ UsedBy(w.kind, w.requests, k) => UsedBy(w.kind, w.requests + 1, k)
<1>1. /\ Answer(w, text).pc = "judge" /\ Answer(w, text).kind = w.kind
      /\ w.pc \in {"session", "token", "request", "clear"} /\ w.requests \in Nat
      /\ w.kind \in {"primary", "fallback"} /\ k[2] \in Nat
  BY AnswerType DEF Sessions, Keys
<1>2. Used(Answer(w, text), k) <=> (w.kind = "primary" => k[1] # "fallback")
  BY <1>1 DEF Used
<1>3. Used(w, k) => UsedBy(w.kind, w.requests, k) \/ UsedBy(w.kind, w.requests + 1, k)
  BY <1>1 DEF Used
<1>4. UsedBy(w.kind, w.requests, k) => UsedBy(w.kind, w.requests + 1, k)
  BY <1>1 DEF UsedBy
<1>5. UsedBy(w.kind, w.requests + 1, k) => (w.kind = "primary" => k[1] # "fallback")
  BY <1>1 DEF UsedBy
<1> QED
  BY <1>2, <1>3, <1>4, <1>5

\* A session that ends without a request.
LEMMA AnswerStep ==
  ASSUME WorkInv, NEW i \in Attempts,
         worker[i].pc \in {"session", "token", "request", "clear"},
         NEW text \in Texts, With(i, Answer(worker[i], text)),
         UNCHANGED <<plan, begun, active, token, tests>>, SameSent(attempts, attempts')
  PROVE  WorkInv'
<1> DEFINE w == Answer(worker[i], text)
<1>1. worker[i] \in Sessions
  BY WorkerType
<1>2. /\ w \in Workers /\ w.pc = "judge"
      /\ \A k \in Keys : Used(worker[i], k) => Used(w, k)
  BY <1>1, AnswerType, UsedAnswer
<1>3. worker' = [worker EXCEPT ![i] = w]
  BY DEF With
<1> HIDE DEF w
<1>4. TokenOK(w, token)
  BY <1>2 DEF TokenOK
<1> QED
  BY <1>2, <1>3, <1>4, SessionStep

\* A session that has its input goes on to its request.
LEMMA GoOnStep ==
  ASSUME WorkInv, NEW i \in Attempts, worker[i].pc = "session",
         NEW pcm \in {"raw", "trimmed"}, NEW pc \in {"request", "token"},
         pc = "request" => worker[i].provider # "baidu",
         GoOn(i, pcm, pc),
         UNCHANGED <<plan, begun, active, token, tests>>, SameSent(attempts, attempts')
  PROVE  WorkInv'
<1> DEFINE w == [worker[i] EXCEPT !.pcm = pcm, !.pc = pc]
<1>1. worker[i] \in Sessions /\ TokenOK(worker[i], token)
  BY WorkerType
<1>2. /\ w \in Sessions /\ w.pc = pc /\ w.kind = worker[i].kind
      /\ w.requests = worker[i].requests /\ w.rejected = worker[i].rejected
      /\ w.provider = worker[i].provider /\ w.token = worker[i].token
  BY <1>1 DEF Sessions
<1>3. worker' = [worker EXCEPT ![i] = w]
  BY DEF GoOn, With
<1> HIDE DEF w
<1>4. \A k \in Keys : Used(worker[i], k) => Used(w, k)
  BY <1>2 DEF Used
<1>5. TokenOK(w, token)
  BY <1>1, <1>2 DEF TokenOK
<1>6. w \in Workers
  BY <1>2 DEF Workers
<1> QED
  BY <1>3, <1>4, <1>5, <1>6, SessionStep

LEMMA FinishKeeps ==
  ASSUME WorkInv, NEW i \in Attempts, FinishSession(i)
  PROVE  WorkInv'
<1>1. /\ worker[i].pc = "session"
      /\ UNCHANGED <<plan, begun, active, token, tests>>
  BY DEF FinishSession, FinishLocal, FinishBaidu, FinishQwen, FinishMimo,
         FinishQwenAudio, FinishMai, FinishDoubao, Finishing, OnlyAttempts, Elsewhere,
         tokens
<1>2. /\ worker[i] \in Sessions /\ <<worker[i].kind, 0>> \in Keys
      /\ SameSent(attempts, attempts) /\ AttemptsType(attempts)
      /\ Trimmings(i) \subseteq {"raw", "trimmed"}
      /\ {"raw", "trimmed"} \subseteq Pcms /\ "bad" \in Terminals
      /\ {"auth", "no_speech"} \subseteq Texts
  BY <1>1, WorkerType, AttemptsKept DEF Sessions, Keys, Trimmings, Pcms, Parts,
     Terminals, Texts
<1>3. CASE KeyMissing(i)
  <2>1. SameSent(attempts, attempts')
    BY <1>2, <1>3 DEF KeyMissing
  <2> QED
    BY <1>1, <1>2, <1>3, <2>1, AnswerStep DEF KeyMissing
<1>4. CASE CompleteVadNoSpeech(i)
  <2>1. SameSent(attempts, attempts')
    BY <1>2, <1>4, CompleteIfMissingKeeps DEF CompleteVadNoSpeech
  <2> QED
    BY <1>1, <1>2, <1>4, <2>1, AnswerStep DEF CompleteVadNoSpeech
<1>5. ASSUME NEW pc \in {"request", "token"}, RegisterInput(i, pc),
             pc = "request" => worker[i].provider # "baidu"
      PROVE  WorkInv'
  <2>1. PICK pcm \in {"raw", "trimmed"} :
          /\ attempts' = StageInput(attempts, i, <<worker[i].kind, 0>>, pcm)
          /\ GoOn(i, pcm, pc)
    BY <1>2, <1>5 DEF RegisterInput
  <2>2. SameSent(attempts, attempts')
    BY <1>2, <2>1, StageInputKeeps
  <2> QED
    BY <1>1, <1>5, <2>1, <2>2, GoOnStep
<1>6. ASSUME RegisterLater(i) \/ (GoOn(i, "raw", "request") /\ UNCHANGED attempts),
             worker[i].provider # "baidu"
      PROVE  WorkInv'
  <2>1. PICK pcm \in {"raw", "trimmed"} : GoOn(i, pcm, "request") /\ UNCHANGED attempts
    BY <1>2, <1>6 DEF RegisterLater
  <2>2. SameSent(attempts, attempts')
    BY <1>2, <2>1
  <2> QED
    BY <1>1, <1>6, <2>1, <2>2, GoOnStep
<1>7. \/ KeyMissing(i) \/ CompleteVadNoSpeech(i) \/ RegisterInput(i, "token")
      \/ RegisterInput(i, "request") /\ worker[i].provider # "baidu"
      \/ /\ RegisterLater(i) \/ (GoOn(i, "raw", "request") /\ UNCHANGED attempts)
         /\ worker[i].provider # "baidu"
  BY DEF FinishSession, FinishLocal, FinishBaidu, FinishQwen, FinishMimo,
         FinishQwenAudio, FinishMai, FinishDoubao, Finishing
<1> QED
  BY <1>3, <1>4, <1>5, <1>6, <1>7

---------------------------------------------------------------------------
(***************************************************************************)
(* The requests.                                                           *)
(***************************************************************************)

\* One more request was made for attempt i by w, under a stage it had not used.
OneMore(as, bs, i, w) ==
  /\ AttemptsType(bs)
  /\ DOMAIN bs = DOMAIN as
  /\ \A j \in Attempts \ {i}, k \in Keys : SentOf(bs, j, k) = SentOf(as, j, k)
  /\ \A k \in Keys :
       /\ SentOf(bs, i, k) <= 1
       /\ SentOf(bs, i, k) # 0 => UsedBy(w.kind, w.requests + 1, k)

\* The stage of the next request is one that none of those before it has had.
LEMMA StageKeyIsNew ==
  ASSUME NEW w \in Sessions
  PROVE  /\ StageKey(w) \in Keys
         /\ ~UsedBy(w.kind, w.requests, StageKey(w))
         /\ UsedBy(w.kind, w.requests + 1, StageKey(w))
         /\ \A k \in Keys :
              UsedBy(w.kind, w.requests, k) => UsedBy(w.kind, w.requests + 1, k)
<1>1. w.requests \in Nat /\ w.kind \in {"primary", "fallback"}
  BY DEF Sessions
<1>2. StageKey(w) = IF w.requests = 0 THEN <<w.kind, 0>>
                    ELSE IF w.kind = "fallback" THEN <<"fallback", w.requests>>
                    ELSE <<"internal_retry", w.requests>>
  BY <1>1 DEF StageKey, RetryStageKind, RetryStageIndex
<1>3. \A k \in Keys : k[2] \in Nat
  BY DEF Keys
<1> QED
  BY <1>1, <1>2, <1>3 DEF UsedBy, Keys

LEMMA RequestedKeeps ==
  ASSUME WorkInv, NEW i \in Attempts, worker[i].pc = "request",
         NEW pcm \in Pcms, NEW terminal \in Terminals, Requested(i, pcm, terminal)
  PROVE  OneMore(attempts, attempts', i, worker[i])
<1> DEFINE w == worker[i]
           key == StageKey(w)
           stage == [StageOf(attempts, i, key) EXCEPT !.sent = @ + 1]
           sent == WithStage(attempts, i, key, stage)
           given == IF pcm = "none" THEN sent ELSE StageInput(sent, i, key, pcm)
<1>1. w \in Sessions /\ AttemptsType(attempts)
  BY WorkerType, AttemptsKept
<1>2. /\ key \in Keys /\ ~UsedBy(w.kind, w.requests, key)
      /\ UsedBy(w.kind, w.requests + 1, key)
      /\ \A k \in Keys : UsedBy(w.kind, w.requests, k) => UsedBy(w.kind, w.requests + 1, k)
  BY <1>1, StageKeyIsNew
<1>3. \A k \in Keys : /\ SentOf(attempts, i, k) <= 1
                      /\ SentOf(attempts, i, k) # 0 => UsedBy(w.kind, w.requests, k)
  BY DEF WorkInv, Used
<1>4. attempts' = CompleteStage(given, i, key, terminal)
  BY DEF Requested
<1> HIDE DEF w, key
<1>5. stage \in StageRecords /\ stage.sent = 1
  <2>1. SentOf(attempts, i, key) = 0
    BY <1>2, <1>3
  <2>2. StageOf(attempts, i, key) \in StageRecords /\ StageOf(attempts, i, key).sent = 0
    BY <1>1, <1>2, <2>1, StageOfType
  <2> QED
    BY <2>2 DEF StageRecords
<1> HIDE DEF stage
<1>6. StageChanged(attempts, sent, i, key, stage)
  BY <1>1, <1>2, <1>5, WithStageType
<1> HIDE DEF sent
<1>7. AttemptsType(sent)
  BY <1>6 DEF StageChanged
<1>8. SameSent(sent, given)
  BY <1>2, <1>7, StageInputKeeps DEF SameSent
<1> HIDE DEF given
<1>9. SameSent(sent, attempts')
  <2>1. AttemptsType(given)
    BY <1>8 DEF SameSent
  <2>2. SameSent(given, attempts')
    BY <1>2, <1>4, <2>1, CompleteStageKeeps
  <2> QED
    BY <1>8, <2>2, SameSentChain
<1>10. /\ DOMAIN sent = DOMAIN attempts
       /\ \A j \in Attempts \ {i}, k \in Keys : SentOf(sent, j, k) = SentOf(attempts, j, k)
       /\ \A k \in Keys \ {key} : SentOf(sent, i, k) = SentOf(attempts, i, k)
       /\ SentOf(sent, i, key) \in {0, 1}
  <2>1. i \notin DOMAIN attempts => SentOf(sent, i, key) = 0
    BY <1>6 DEF StageChanged, SentOf
  <2> QED
    BY <1>2, <1>5, <1>6, <2>1 DEF StageChanged
<1>11. /\ AttemptsType(attempts') /\ DOMAIN attempts' = DOMAIN sent
       /\ \A j \in Attempts, k \in Keys : SentOf(attempts', j, k) = SentOf(sent, j, k)
  BY <1>9 DEF SameSent
<1>12. \A k \in Keys : /\ SentOf(attempts', i, k) <= 1
                       /\ SentOf(attempts', i, k) # 0 => UsedBy(w.kind, w.requests + 1, k)
  BY <1>2, <1>3, <1>10, <1>11
<1>13. \A j \in Attempts \ {i}, k \in Keys :
         SentOf(attempts', j, k) = SentOf(attempts, j, k)
  BY <1>10, <1>11
<1>14. OneMore(attempts, attempts', i, w)
  BY <1>10, <1>11, <1>12, <1>13 DEF OneMore
<1> QED
  BY <1>14 DEF w

LEMMA RequestStep ==
  ASSUME WorkInv, NEW i \in Attempts, worker[i].pc = "request",
         OneMore(attempts, attempts', i, worker[i]), NEW w \in Workers,
         worker' = [worker EXCEPT ![i] = w],
         UNCHANGED <<plan, begun, active, token, tests>>,
         \A k \in Keys :
           UsedBy(worker[i].kind, worker[i].requests + 1, k) => Used(w, k),
         TokenOK(w, token)
  PROVE  WorkInv'
<1>1. i <= begun
  BY WorkerType
<1>2. /\ AttemptsType(attempts') /\ DOMAIN attempts' \subseteq DOMAIN attempts
      /\ \A j \in Attempts \ {i}, k \in Keys :
           SentOf(attempts', j, k) \in {0, SentOf(attempts, j, k)}
      /\ \A k \in Keys : /\ SentOf(attempts', i, k) <= 1
                         /\ SentOf(attempts', i, k) # 0 => Used(w, k)
  BY DEF OneMore
<1>3. \A j \in Attempts \ {i} : TokenOK(worker[j], token')
  BY DEF WorkInv
<1>4. /\ active' \in {0, active} /\ tests' \in Nat
      /\ token' \in Tokens /\ (token' = NoToken \/ token'.n # 0)
  BY DEF WorkInv
<1> QED
  BY <1>1, <1>2, <1>3, <1>4, WorkStep

\* The request was the session's last.
LEMMA EndedStep ==
  ASSUME WorkInv, NEW i \in Attempts, worker[i].pc = "request",
         NEW pcm \in Pcms, NEW terminal \in Terminals, Requested(i, pcm, terminal),
         NEW text \in Texts, With(i, Answer(worker[i], text)),
         UNCHANGED <<plan, begun, active, token, tests>>
  PROVE  WorkInv'
<1> DEFINE w == Answer(worker[i], text)
<1>1. worker[i] \in Sessions
  BY WorkerType
<1>2. /\ w \in Workers /\ w.pc = "judge"
      /\ \A k \in Keys :
           UsedBy(worker[i].kind, worker[i].requests + 1, k) => Used(w, k)
  BY <1>1, AnswerType, UsedAnswer
<1>3. worker' = [worker EXCEPT ![i] = w]
  BY DEF With
<1>4. OneMore(attempts, attempts', i, worker[i])
  BY RequestedKeeps
<1> HIDE DEF w
<1>5. TokenOK(w, token)
  BY <1>2 DEF TokenOK
<1> QED
  BY <1>2, <1>3, <1>4, <1>5, RequestStep

\* Another request follows; only Baidu fetches a token before it.
LEMMA AgainStep ==
  ASSUME WorkInv, NEW i \in Attempts, worker[i].pc = "request",
         worker[i].provider # "baidu", NEW pcm \in Pcms, SentAgain(i, pcm),
         UNCHANGED <<plan, begun, active, token, tests>>
  PROVE  WorkInv'
<1> DEFINE w == [worker[i] EXCEPT !.tries = 1, !.requests = @ + 1]
<1>1. worker[i] \in Sessions /\ TokenOK(worker[i], token)
  BY WorkerType
<1>2. /\ w \in Sessions /\ w.pc = "request" /\ w.kind = worker[i].kind
      /\ w.requests = worker[i].requests + 1 /\ w.rejected = worker[i].rejected
      /\ w.provider = worker[i].provider /\ w.token = worker[i].token
  <2> DEFINE v == worker[i]
             n == v.requests + 1
  <2>1. v \in Sessions /\ v.pc = "request"
    BY <1>1
  <2>2. n \in Nat /\ w = [v EXCEPT !.tries = 1, !.requests = n]
    BY <2>1 DEF Sessions
  <2> HIDE DEF n, v, w
  <2>3. /\ w \in Sessions /\ w.pc = v.pc /\ w.kind = v.kind /\ w.requests = n
        /\ w.rejected = v.rejected /\ w.provider = v.provider /\ w.token = v.token
    BY <2>1, <2>2 DEF Sessions
  <2> QED
    BY <2>1, <2>3 DEF n, v
<1>3. worker' = [worker EXCEPT ![i] = w] /\ Requested(i, pcm, "bad")
  BY DEF SentAgain, With
<1>4. OneMore(attempts, attempts', i, worker[i])
  BY <1>3, RequestedKeeps DEF Terminals
<1> HIDE DEF w
<1>5. \A k \in Keys :
        UsedBy(worker[i].kind, worker[i].requests + 1, k) => Used(w, k)
  BY <1>2 DEF Used
<1>6. TokenOK(w, token)
  BY <1>1, <1>2 DEF TokenOK
<1>7. w \in Workers
  BY <1>2 DEF Workers
<1> QED
  BY <1>3, <1>4, <1>5, <1>6, <1>7, RequestStep

LEMMA RequestTypes ==
  ASSUME WorkInv, NEW i \in Attempts, worker[i].pc = "request"
  PROVE  /\ worker[i].pcm \in Pcms
         /\ {"good", "bad", "plain"} \subseteq Terminals
         /\ {"usable_text", "no_speech", "auth", "operational_error"} \subseteq Texts
         /\ {"none", "part", "raw"} \subseteq Pcms
<1>1. worker[i] \in Sessions
  BY WorkerType
<1> QED
  BY <1>1 DEF Sessions, Pcms, Parts, Terminals, Texts

LEMMA AnsweredStep ==
  ASSUME WorkInv, NEW i \in Attempts, worker[i].pc = "request",
         NEW terminal \in {"good", "plain"}, Answered(i, terminal),
         UNCHANGED <<plan, begun, active, token, tests>>
  PROVE  WorkInv'
<1>1. PICK text \in {"usable_text", "no_speech"} :
        /\ Requested(i, worker[i].pcm, IF text = "no_speech" THEN "bad" ELSE terminal)
        /\ With(i, Answer(worker[i], text))
  BY DEF Answered
<1> DEFINE end == IF text = "no_speech" THEN "bad" ELSE terminal
<1>2. end \in Terminals /\ text \in Texts /\ worker[i].pcm \in Pcms
  BY RequestTypes
<1>3. Requested(i, worker[i].pcm, end) /\ With(i, Answer(worker[i], text))
  BY <1>1
<1> HIDE DEF end
<1> QED
  BY <1>2, <1>3, EndedStep

LEMMA FailedStep ==
  ASSUME WorkInv, NEW i \in Attempts, worker[i].pc = "request",
         NEW pcm \in Pcms, NEW text \in Texts, Failed(i, pcm, text),
         UNCHANGED <<plan, begun, active, token, tests>>
  PROVE  WorkInv'
  BY RequestTypes, EndedStep DEF Failed

LEMMA RefusedStep ==
  ASSUME WorkInv, NEW i \in Attempts, worker[i].pc \in {"request", "token"}, Refused(i),
         UNCHANGED <<plan, begun, active, token, tests>>
  PROVE  WorkInv'
<1>1. SameSent(attempts, attempts') /\ "operational_error" \in Texts
  BY AttemptsKept DEF Refused, Texts
<1> QED
  BY <1>1, AnswerStep DEF Refused

LEMMA RecognizeKeeps ==
  ASSUME WorkInv, NEW i \in Attempts,
         \/ RecognizeLocal(i) \/ RecognizeQwen(i) \/ RecognizeMimo(i)
         \/ RecognizeQwenAudio(i) \/ RecognizeMai(i) \/ RecognizeRecordedPcm(i)
  PROVE  WorkInv'
<1>1. /\ worker[i].pc = "request" /\ worker[i].provider # "baidu"
      /\ UNCHANGED <<plan, begun, active, token, tests>>
  BY DEF RecognizeLocal, RecognizeQwen, RecognizeMimo, RecognizeQwenAudio, RecognizeMai,
         RecognizeRecordedPcm, Requesting, OnlyAttempts, Elsewhere, tokens
<1>2. \/ Refused(i) \/ Answered(i, "plain") \/ Answered(i, "good")
      \/ \E pcm \in Pcms : SentAgain(i, pcm)
      \/ \E pcm \in Pcms, text \in Texts : Failed(i, pcm, text)
  BY <1>1, RequestTypes
     DEF RecognizeLocal, RecognizeQwen, RecognizeMimo, RecognizeQwenAudio, RecognizeMai,
         RecognizeRecordedPcm
<1> QED
  BY <1>1, <1>2, RefusedStep, AnsweredStep, AgainStep, FailedStep

---------------------------------------------------------------------------
(***************************************************************************)
(* Baidu's token.                                                          *)
(***************************************************************************)

\* Whoever refreshes the cache puts nothing there that another thread has had
\* refused.
LEMMA CacheStep ==
  ASSUME WorkInv, NEW cred \in {"saved", "typed"},
         NEW t \in {token, NoToken, Issued(cred)}
  PROVE  /\ t \in Tokens /\ (t = NoToken \/ t.n # 0)
         /\ \A i \in Attempts : TokenOK(worker[i], t)
<1>1. NoToken \in Tokens /\ NoToken.n = 0
  BY DEF NoToken, Tokens
<1>2. /\ Issued(cred) \in Tokens /\ Issued(cred).n # 0
      /\ \A i \in Attempts :
           worker[i].pc \in {"token", "request", "clear"} =>
             Issued(cred).n # worker[i].rejected
  BY IssuedIsNew
<1>3. \A i \in Attempts : TokenOK(worker[i], token)
  BY DEF WorkInv
<1>4. token \in Tokens /\ (token = NoToken \/ token.n # 0)
  BY DEF WorkInv
<1>5. \A i \in Attempts : TokenOK(worker[i], NoToken)
  BY <1>1, <1>3 DEF TokenOK
<1>6. \A i \in Attempts : TokenOK(worker[i], Issued(cred))
  BY <1>2, <1>3 DEF TokenOK
<1> QED
  BY <1>1, <1>2, <1>3, <1>4, <1>5, <1>6

LEMMA TokenStep ==
  ASSUME WorkInv, NEW i \in Attempts, worker[i].pc # "none", NEW w \in Workers,
         worker' = [worker EXCEPT ![i] = w],
         UNCHANGED <<plan, begun, active, tests, attempts>>,
         NEW cred \in {"saved", "typed"}, token' \in {token, NoToken, Issued(cred)},
         \A k \in Keys : Used(worker[i], k) => Used(w, k), TokenOK(w, token')
  PROVE  WorkInv'
<1>1. i <= begun
  BY WorkerType
<1>2. AttemptsType(attempts') /\ DOMAIN attempts' \subseteq DOMAIN attempts
  BY AttemptsKept
<1>3. \A j \in Attempts, k \in Keys : SentOf(attempts', j, k) = SentOf(attempts, j, k)
  OBVIOUS
<1>4. \A k \in Keys : /\ SentOf(attempts', i, k) <= 1
                      /\ SentOf(attempts', i, k) # 0 => Used(w, k)
  BY <1>3 DEF WorkInv
<1>5. /\ token' \in Tokens /\ (token' = NoToken \/ token'.n # 0)
      /\ \A j \in Attempts : TokenOK(worker[j], token')
  BY CacheStep
<1>6. active' \in {0, active} /\ tests' \in Nat
  BY DEF WorkInv
<1> QED
  BY <1>1, <1>2, <1>3, <1>4, <1>5, <1>6, WorkStep

LEMMA FetchTokenKeeps ==
  ASSUME WorkInv, NEW i \in Attempts, FetchToken(i)
  PROVE  WorkInv'
<1> DEFINE v == worker[i]
<1>1. /\ v.pc = "token" /\ v \in Sessions /\ TokenOK(v, token)
      /\ UNCHANGED <<plan, begun, active, tests>>
  BY WorkerType DEF FetchToken, OnlyAttempts, Elsewhere
<1>2. CASE v.tries = 0 /\ Refused(i) /\ UNCHANGED token
  BY <1>1, <1>2, RefusedStep
<1>3. ASSUME NEW t \in Offered("saved"), GetAccessToken("saved", t),
             With(i, CASE t # NoToken -> [v EXCEPT !.pc = "request", !.token = t]
                       [] t = NoToken /\ (v.retried \/ v.tries = 2) ->
                            Answer(v, "operational_error")
                       [] OTHER -> [v EXCEPT !.retried = TRUE, !.tries = @ + 1]),
             UNCHANGED attempts
      PROVE  WorkInv'
  <2>1. token' = t /\ (t # NoToken => t.cred = "saved")
    BY <1>3, IssuedIsNew DEF GetAccessToken
  <2>2. t \in {token, NoToken, Issued("saved")}
    BY <1>3 DEF Offered
  <2>3. /\ t \in Tokens /\ (t = NoToken \/ t.n # 0)
        /\ \A j \in Attempts : TokenOK(worker[j], t)
    BY <2>2, CacheStep
  <2>4. v.rejected # 0 => t.n # v.rejected
    BY <1>1, <2>3 DEF TokenOK
  <2>5. "operational_error" \in Texts
    BY DEF Texts
  <2>6. CASE t # NoToken
    <3> DEFINE w == [v EXCEPT !.pc = "request", !.token = t]
    <3>1. worker' = [worker EXCEPT ![i] = w]
      BY <1>3, <2>6 DEF With
    <3> HIDE DEF v
    <3>2. /\ w \in Sessions /\ w.pc = "request" /\ w.token = t /\ w.rejected = v.rejected
          /\ w.kind = v.kind /\ w.requests = v.requests
      BY <1>1, <2>3 DEF Sessions
    <3> HIDE DEF w
    <3>3. TokenOK(w, token')
      BY <2>1, <2>3, <2>4, <2>6, <3>2 DEF TokenOK
    <3>4. w \in Workers
      BY <3>2 DEF Workers
    <3>5. \A k \in Keys : Used(v, k) => Used(w, k)
      BY <1>1, <3>2 DEF Used
    <3> USE DEF v
    <3> QED
      BY <1>1, <1>3, <2>1, <2>2, <3>1, <3>3, <3>4, <3>5, TokenStep
  <2>7. CASE t = NoToken /\ (v.retried \/ v.tries = 2)
    <3> DEFINE w == Answer(v, "operational_error")
    <3>1. worker' = [worker EXCEPT ![i] = w]
      BY <1>3, <2>7 DEF With
    <3>2. w \in Workers /\ w.pc = "judge" /\ \A k \in Keys : Used(v, k) => Used(w, k)
      BY <1>1, <2>5, AnswerType, UsedAnswer
    <3> HIDE DEF w
    <3>3. TokenOK(w, token')
      BY <3>2 DEF TokenOK
    <3> QED
      BY <1>1, <1>3, <2>1, <2>2, <3>1, <3>2, <3>3, TokenStep
  <2>8. CASE t = NoToken /\ ~(v.retried \/ v.tries = 2)
    <3> DEFINE n == v.tries + 1
               w == [v EXCEPT !.retried = TRUE, !.tries = n]
    <3>0. n \in Nat
      BY <1>1 DEF Sessions
    <3>1. worker' = [worker EXCEPT ![i] = w]
      <4>1. w = [v EXCEPT !.retried = TRUE, !.tries = @ + 1]
        BY <1>1 DEF Sessions
      <4> HIDE DEF w
      <4> QED
        BY <1>3, <2>8, <4>1 DEF With
    <3> HIDE DEF v, n
    <3>2. /\ w \in Sessions /\ w.pc = "token" /\ w.rejected = v.rejected
          /\ w.kind = v.kind /\ w.requests = v.requests
      BY <1>1, <3>0 DEF Sessions
    <3> HIDE DEF w
    <3>3. TokenOK(w, token')
      BY <2>1, <2>4, <3>2 DEF TokenOK
    <3>4. w \in Workers
      BY <3>2 DEF Workers
    <3>5. \A k \in Keys : Used(v, k) => Used(w, k)
      BY <1>1, <3>2 DEF Used
    <3> USE DEF v
    <3> QED
      BY <1>1, <1>3, <2>1, <2>2, <3>1, <3>3, <3>4, <3>5, TokenStep
  <2> QED
    BY <2>6, <2>7, <2>8
<1> QED
  BY <1>2, <1>3 DEF FetchToken

LEMMA RecognizeBaiduKeeps ==
  ASSUME WorkInv, NEW i \in Attempts, RecognizeBaidu(i)
  PROVE  WorkInv'
<1> DEFINE v == worker[i]
           tries == v.tries + 1
           requests == v.requests + 1
           again == [v EXCEPT !.tries = tries, !.requests = requests, !.pc = "token"]
<1>1. /\ v.pc = "request" /\ v.provider = "baidu" /\ v \in Sessions /\ TokenOK(v, token)
      /\ UNCHANGED <<plan, begun, active, token, tests>>
  BY WorkerType DEF RecognizeBaidu, Requesting, OnlyAttempts, Elsewhere, tokens
<1>2. CASE Answered(i, "plain")
  BY <1>1, <1>2, AnsweredStep
<1>3. ASSUME Requested(i, v.pcm, "bad"), NEW failure \in {"token", "transient", "error"},
             With(i, CASE failure = "token" /\ v.rejected = 0 ->
                            [v EXCEPT !.pc = "clear", !.rejected = v.token.n]
                       [] failure = "transient" /\ ~v.retried /\ v.tries < 2 ->
                            [again EXCEPT !.retried = TRUE]
                       [] OTHER -> Answer(v, "operational_error"))
      PROVE  WorkInv'
  <2>1. v.pcm \in Pcms /\ "bad" \in Terminals /\ "operational_error" \in Texts
    BY <1>1, RequestTypes
  <2>2. OneMore(attempts, attempts', i, v)
    BY <1>1, <1>3, <2>1, RequestedKeeps
  <2>3. CASE failure = "token" /\ v.rejected = 0
    <3> DEFINE w == [v EXCEPT !.pc = "clear", !.rejected = v.token.n]
    <3>1. worker' = [worker EXCEPT ![i] = w]
      BY <1>3, <2>3 DEF With
    <3> HIDE DEF v
    <3>2. v.token.n \in Nat
      BY <1>1 DEF Sessions, Tokens
    <3>3. w \in Sessions /\ w.pc = "clear" /\ w.kind = v.kind /\ w.requests = v.requests
      BY <1>1, <3>2 DEF Sessions
    <3> HIDE DEF w
    <3>4. TokenOK(w, token)
      BY <3>3 DEF TokenOK
    <3>5. w \in Workers
      BY <3>3 DEF Workers
    <3>6. \A k \in Keys : UsedBy(v.kind, v.requests + 1, k) => Used(w, k)
      BY <3>3 DEF Used
    <3> USE DEF v
    <3> QED
      BY <1>1, <2>2, <3>1, <3>4, <3>5, <3>6, RequestStep
  <2>4. CASE failure = "transient" /\ ~v.retried /\ v.tries < 2
    <3> DEFINE w == [again EXCEPT !.retried = TRUE]
    <3>1. worker' = [worker EXCEPT ![i] = w]
      BY <1>3, <2>4 DEF With
    <3>2. tries \in Nat /\ requests \in Nat
      BY <1>1 DEF Sessions
    <3> HIDE DEF v, tries, requests
    <3>3. /\ again \in Sessions /\ again.pc = "token" /\ again.kind = v.kind
          /\ again.requests = requests /\ again.rejected = v.rejected
      BY <1>1, <3>2 DEF Sessions
    <3> HIDE DEF again
    <3>4. /\ w \in Sessions /\ w.pc = "token" /\ w.kind = v.kind
          /\ w.requests = requests /\ w.rejected = v.rejected
      BY <3>3 DEF Sessions
    <3> HIDE DEF w
    <3>5. TokenOK(w, token)
      BY <1>1, <3>4 DEF TokenOK
    <3>6. w \in Workers
      BY <3>4 DEF Workers
    <3>7. \A k \in Keys : UsedBy(v.kind, v.requests + 1, k) => Used(w, k)
      BY <3>4 DEF Used, requests
    <3> USE DEF v
    <3> QED
      BY <1>1, <2>2, <3>1, <3>5, <3>6, <3>7, RequestStep
  <2>5. CASE ~(failure = "token" /\ v.rejected = 0)
               /\ ~(failure = "transient" /\ ~v.retried /\ v.tries < 2)
    <3>1. With(i, Answer(v, "operational_error"))
      BY <1>3, <2>5
    <3> QED
      BY <1>1, <1>3, <2>1, <3>1, EndedStep
  <2> QED
    BY <2>3, <2>4, <2>5
<1> QED
  BY <1>2, <1>3 DEF RecognizeBaidu

LEMMA ClearCachedTokenKeeps ==
  ASSUME WorkInv, NEW i \in Attempts, ClearCachedToken(i)
  PROVE  WorkInv'
<1> DEFINE v == worker[i]
           tries == v.tries + 1
           requests == v.requests + 1
<1>1. /\ v.pc = "clear" /\ v \in Sessions
      /\ token' = NoToken /\ UNCHANGED <<plan, begun, active, tests, attempts>>
  BY WorkerType DEF ClearCachedToken, OnlyAttempts, Elsewhere
<1>2. CASE v.tries = 2
  <2> DEFINE w == Answer(v, "operational_error")
  <2>1. worker' = [worker EXCEPT ![i] = w] /\ "operational_error" \in Texts
    BY <1>2 DEF ClearCachedToken, With, Texts
  <2>2. w \in Workers /\ w.pc = "judge" /\ \A k \in Keys : Used(v, k) => Used(w, k)
    BY <1>1, <2>1, AnswerType, UsedAnswer
  <2> HIDE DEF w
  <2>3. TokenOK(w, token')
    BY <2>2 DEF TokenOK
  <2> QED
    BY <1>1, <2>1, <2>2, <2>3, TokenStep
<1>3. CASE v.tries # 2
  <2> DEFINE w == [v EXCEPT !.pc = "token", !.tries = tries, !.requests = requests]
  <2>1. worker' = [worker EXCEPT ![i] = w]
    BY <1>3 DEF ClearCachedToken, With
  <2>2. tries \in Nat /\ requests \in Nat
    BY <1>1 DEF Sessions
  <2> HIDE DEF v, tries, requests
  <2>3. /\ w \in Sessions /\ w.pc = "token" /\ w.kind = v.kind /\ w.requests = requests
        /\ w.rejected = v.rejected
    BY <1>1, <2>2 DEF Sessions
  <2> HIDE DEF w
  <2>4. TokenOK(w, token')
    BY <1>1, <2>3 DEF TokenOK, NoToken
  <2>5. w \in Workers
    BY <2>3 DEF Workers
  <2>6. \A k \in Keys : Used(v, k) => Used(w, k)
    BY <1>1, <2>3 DEF Used, requests
  <2> USE DEF v
  <2> QED
    BY <1>1, <2>1, <2>4, <2>5, <2>6, TokenStep
<1> QED
  BY <1>2, <1>3

---------------------------------------------------------------------------
(***************************************************************************)
(* The main thread, and the end of a thread.                               *)
(***************************************************************************)

\* No attempt is new, and none has more requests.
Fewer(as, bs) ==
  /\ AttemptsType(bs)
  /\ DOMAIN bs \subseteq DOMAIN as
  /\ \A j \in Attempts, k \in Keys : SentOf(bs, j, k) \in {0, SentOf(as, j, k)}

LEMMA SameIsFewer ==
  ASSUME NEW as, NEW bs, SameSent(as, bs)
  PROVE  Fewer(as, bs)
  BY DEF SameSent, Fewer

LEMMA DiscardedIsFewer ==
  ASSUME NEW as, NEW bs, NEW i, SameSent(as, bs)
  PROVE  Fewer(as, DiscardAttempt(bs, i))
<1> DEFINE cs == DiscardAttempt(bs, i)
<1>1. AttemptsType(bs)
  BY DEF SameSent
<1>2. Discarded(bs, cs, i)
  BY <1>1, DiscardAttemptKeeps
<1> HIDE DEF cs
<1>3. Fewer(as, cs)
  BY <1>2 DEF SameSent, Discarded, Fewer
<1> QED
  BY <1>3 DEF cs

\* The threads are where they were.
LEMMA RestStep ==
  ASSUME WorkInv, UNCHANGED <<plan, begun, worker>>,
         active' \in {0, active}, tests' \in Nat,
         Fewer(attempts, attempts'),
         NEW cred \in {"saved", "typed"}, token' \in {token, NoToken, Issued(cred)}
  PROVE  WorkInv'
<1>1. /\ token' \in Tokens /\ (token' = NoToken \/ token'.n # 0)
      /\ \A j \in Attempts : TokenOK(worker[j], token')
  BY CacheStep
<1>2. /\ plan' \in Plans /\ begun' \in Nat /\ active' \in Nat
      /\ active' # 0 => active' \in Attempts /\ active' <= begun'
      /\ worker' \in [Attempts -> Workers]
      /\ \A j \in Attempts : j > begun' => worker'[j] = NoWorker
  BY DEF WorkInv
<1>3. AttemptsType(attempts') /\ \A j \in DOMAIN attempts' : j <= begun'
  BY DEF WorkInv, Fewer
<1>4. \A j \in Attempts, k \in Keys :
        /\ SentOf(attempts', j, k) <= 1
        /\ SentOf(attempts', j, k) # 0 => Used(worker'[j], k)
  BY DEF WorkInv, Fewer
<1>5. \A j \in Attempts : TokenOK(worker'[j], token')
  BY <1>1
<1> QED
  BY <1>1, <1>2, <1>3, <1>4, <1>5
     DEF WorkInv, AttemptsType, AttemptType, SentOf, Used, TokenOK

\* Attempt i has its thread, or is over, and no request.
LEMMA RecordedStep ==
  ASSUME WorkInv, NEW i \in Attempts, i <= begun, NEW w \in Workers,
         \A k \in Keys : SentOf(attempts, i, k) = 0 \/ Used(w, k),
         w.pc \in {"session", "dispatch", "done"}, w.pc = "session" => w.rejected = 0,
         worker' = [worker EXCEPT ![i] = w], UNCHANGED <<plan, begun, token, tests>>,
         active' \in {0, active}, Fewer(attempts, attempts')
  PROVE  WorkInv'
<1>1. /\ AttemptsType(attempts') /\ DOMAIN attempts' \subseteq DOMAIN attempts
      /\ \A j \in Attempts \ {i}, k \in Keys :
           SentOf(attempts', j, k) \in {0, SentOf(attempts, j, k)}
      /\ \A k \in Keys : /\ SentOf(attempts', i, k) <= 1
                         /\ SentOf(attempts', i, k) # 0 => Used(w, k)
  BY DEF Fewer, WorkInv
<1>2. /\ TokenOK(w, token') /\ \A j \in Attempts \ {i} : TokenOK(worker[j], token')
      /\ token' \in Tokens /\ (token' = NoToken \/ token'.n # 0) /\ tests' \in Nat
  BY DEF WorkInv, TokenOK
<1> QED
  BY <1>1, <1>2, WorkStep

LEMMA JudgeKeeps ==
  ASSUME WorkInv, NEW i \in Attempts, Judge(i)
  PROVE  WorkInv'
<1> DEFINE v == worker[i]
           fails == v.text \in {"operational_error", "auth"}
           given == [pc |-> "dispatch",
                     text |-> IF fails /\ v.kind = "fallback"
                              THEN "operational_error" ELSE v.text]
<1>1. v.pc = "judge" /\ v \in Answers /\ i <= begun
  BY WorkerType DEF Judge
<1>2. Fewer(attempts, attempts')
  <2>1. <<v.kind, 0>> \in Keys
    BY <1>1 DEF Answers, Keys
  <2>2. TerminalOf(v.text) \in Terminals
    BY DEF TerminalOf, Terminals
  <2>3. SameSent(attempts, attempts')
    BY <2>1, <2>2, AttemptsKept, CompleteIfMissingKeeps DEF Judge
  <2> QED
    BY <2>3, SameIsFewer
<1>3. UNCHANGED <<plan, begun, active, token, tests>>
  BY DEF Judge, OnlyAttempts, Elsewhere, tokens
<1>4. PICK w \in {[pc |-> "done"], given, NewWorker(v.fallback, "fallback", "none")} :
        /\ worker' = [worker EXCEPT ![i] = w]
        /\ w = NewWorker(v.fallback, "fallback", "none") =>
             (v.kind = "primary" /\ v.fallback # "none") \/ w \in {[pc |-> "done"], given}
  BY DEF Judge, With
<1>5. CASE w = [pc |-> "done"]
  <2>1. w \in Workers /\ w.pc = "done" /\ \A k \in Keys : Used(w, k)
    BY <1>5 DEF Workers, Ends, Used
  <2> QED
    BY <1>1, <1>2, <1>3, <1>4, <2>1, RecordedStep
<1>6. CASE w = given
  <2>1. v.text \in Texts
    BY <1>1 DEF Answers
  <2>2. w \in Workers /\ w.pc = "dispatch"
    BY <1>6, <2>1 DEF Workers, Dispatches, Texts
  <2>3. \A k \in Keys : Used(w, k)
    BY <2>2 DEF Used
  <2> QED
    BY <1>1, <1>2, <1>3, <1>4, <2>2, <2>3, RecordedStep
<1>7. CASE w = NewWorker(v.fallback, "fallback", "none")
           /\ w \notin {[pc |-> "done"], given}
  <2>1. v.kind = "primary" /\ v.fallback \in Backends
    BY <1>1, <1>4, <1>7 DEF Answers
  <2>2. /\ w \in Workers /\ w.pc = "session" /\ w.kind = "fallback" /\ w.requests = 0
        /\ w.rejected = 0
    BY <1>7, <2>1 DEF Workers, Sessions, NewWorker, NoToken, Tokens
  <2>3. \A k \in Keys : SentOf(attempts, i, k) = 0 \/ Used(w, k)
    <3>1. \A k \in Keys : SentOf(attempts, i, k) # 0 => k[1] # "fallback"
      BY <1>1, <2>1 DEF WorkInv, Used
    <3>2. \A k \in Keys : k[1] # "fallback" => Used(w, k)
      BY <2>2 DEF Used, UsedBy
    <3> QED
      BY <3>1, <3>2
  <2> QED
    BY <1>1, <1>2, <1>3, <1>4, <2>2, <2>3, RecordedStep
<1> QED
  BY <1>4, <1>5, <1>6, <1>7

LEMMA DispatchKeeps ==
  ASSUME WorkInv, NEW i \in Attempts, Dispatch(i)
  PROVE  WorkInv'
<1> DEFINE w == [pc |-> "done"]
<1>1. i <= begun
  BY WorkerType DEF Dispatch
<1>2. Fewer(attempts, attempts')
  BY AttemptsKept, DiscardedIsFewer DEF Dispatch, TakeAttempt
<1>3. worker' = [worker EXCEPT ![i] = w] /\ UNCHANGED <<plan, begun, active, token, tests>>
  BY DEF Dispatch, With, Elsewhere, tokens
<1>4. w \in Workers /\ w.pc = "done" /\ \A k \in Keys : Used(w, k)
  BY DEF Workers, Ends, Used
<1> HIDE DEF w
<1> QED
  BY <1>1, <1>2, <1>3, <1>4, RecordedStep

\* The number of the next recording has no attempt and no thread.
LEMMA NextIsFree ==
  ASSUME WorkInv, begun + 1 \in Attempts
  PROVE  /\ begun \in Nat /\ begun + 1 \notin DOMAIN attempts
         /\ worker[begun + 1] = NoWorker
         /\ \A i \in Attempts : i > begun + 1 => i > begun
         /\ \A i \in DOMAIN attempts : i <= begun + 1
<1>1. begun \in Nat /\ DOMAIN attempts \subseteq Attempts /\ Attempts \subseteq Nat
  BY DiagnosticsAssumption DEF WorkInv, AttemptsType
<1>2. \A i \in Attempts : i > begun => worker[i] = NoWorker
  BY DEF WorkInv
<1>3. \A i \in DOMAIN attempts : i <= begun
  BY DEF WorkInv
<1>4. begun + 1 \notin DOMAIN attempts
  BY <1>1, <1>3
<1>5. worker[begun + 1] = NoWorker
  BY <1>1, <1>2
<1>6. \A i \in Attempts : i > begun + 1 => i > begun
  BY <1>1
<1>7. ASSUME NEW i \in DOMAIN attempts
      PROVE  i <= begun + 1
  <2>1. i \in Nat /\ i <= begun
    BY <1>1, <1>3
  <2> QED
    BY <1>1, <2>1
<1> QED
  BY <1>1, <1>4, <1>5, <1>6, <1>7

\* A recording begins, or an attempt without one has come and gone.
LEMMA BegunStep ==
  ASSUME WorkInv, begun + 1 \in Attempts, begun' = begun + 1,
         active' \in {active, begun + 1}, UNCHANGED <<plan, worker, token, tests>>,
         AttemptsType(attempts'),
         DOMAIN attempts' \subseteq DOMAIN attempts \union {begun + 1},
         \A j \in Attempts, k \in Keys :
           SentOf(attempts', j, k) \in {0, SentOf(attempts, j, k)}
  PROVE  WorkInv'
<1>1. /\ begun' \in Nat /\ active' \in Nat
      /\ active' # 0 => active' \in Attempts /\ active' <= begun'
  BY DEF WorkInv
<1>2. \A j \in Attempts : j > begun' => worker'[j] = NoWorker
  BY NextIsFree DEF WorkInv
<1>3. \A j \in DOMAIN attempts' : j <= begun'
  BY NextIsFree DEF WorkInv
<1>4. \A j \in Attempts, k \in Keys :
        /\ SentOf(attempts', j, k) <= 1
        /\ SentOf(attempts', j, k) # 0 => Used(worker'[j], k)
  BY DEF WorkInv
<1>5. /\ plan' \in Plans /\ tests' \in Nat /\ worker' \in [Attempts -> Workers]
      /\ token' \in Tokens /\ (token' = NoToken \/ token'.n # 0)
  BY DEF WorkInv
<1>6. \A j \in Attempts : TokenOK(worker'[j], token')
  BY DEF WorkInv
<1> QED
  BY <1>1, <1>2, <1>3, <1>4, <1>5, <1>6
     DEF WorkInv, AttemptsType, AttemptType, SentOf, Used, TokenOK

\* The recording of an attempt that ends without recognition.
LEMMA StoppedKeeps ==
  ASSUME NEW as, AttemptsType(as), NEW i \in Attempts, NEW size, NEW end \in Terminals
  PROVE  SameSent(as,
           CompleteStageIfMissing(AttachCapture(as, i, size), i, PrimaryKey, end))
<1> DEFINE bs == AttachCapture(as, i, size)
<1>1. SameSent(as, bs)
  BY AttachCaptureKeeps
<1>2. PrimaryKey \in Keys
  BY DEF PrimaryKey, Keys
<1> HIDE DEF bs
<1>3. SameSent(bs, CompleteStageIfMissing(bs, i, PrimaryKey, end))
  <2>1. AttemptsType(bs)
    BY <1>1 DEF SameSent
  <2> HIDE DEF SameSent
  <2> QED
    BY <1>2, <2>1, CompleteIfMissingKeeps
<1> USE DEF bs
<1> QED
  BY <1>1, <1>3, SameSentChain

LEMMA RecordingStartsKeeps ==
  ASSUME WorkInv, RecordingStarts
  PROVE  WorkInv'
<1> DEFINE left == DiscardAttempt(attempts, active)
<1>1. /\ begun + 1 \in Attempts /\ begun' = begun + 1 /\ active' = begun + 1
      /\ UNCHANGED <<plan, worker, token, tests>>
  BY DEF RecordingStarts, tokens
<1>2. attempts' = BeginAttempt(left, begun + 1, plan.settings[begun + 1].mode)
  BY DEF RecordingStarts
<1>3. Fewer(attempts, left)
  BY AttemptsKept, DiscardedIsFewer
<1> HIDE DEF left
<1>4. begun + 1 \notin DOMAIN left /\ AttemptsType(left)
  BY <1>1, <1>3, NextIsFree DEF Fewer
<1>5. Begun(left, attempts', begun + 1)
  BY <1>1, <1>2, <1>4, BeginAttemptKeeps
<1>6. /\ AttemptsType(attempts')
      /\ DOMAIN attempts' \subseteq DOMAIN attempts \union {begun + 1}
      /\ \A j \in Attempts, k \in Keys :
           SentOf(attempts', j, k) \in {0, SentOf(attempts, j, k)}
  BY <1>3, <1>5 DEF Begun, Fewer
<1> QED
  BY <1>1, <1>6, BegunStep

LEMMA CaptureStartFailsKeeps ==
  ASSUME WorkInv, CaptureStartFails
  PROVE  WorkInv'
<1> DEFINE i == begun + 1
           more == BeginAttempt(attempts, i, plan.settings[i].mode)
           over ==
              CompleteStageIfMissing(AttachCapture(more, i, "none"), i, PrimaryKey, "bad")
<1>1. /\ i \in Attempts /\ begun' = i /\ active' = active
      /\ UNCHANGED <<plan, worker, token, tests>>
  BY DEF CaptureStartFails, tokens
<1>2. attempts' = DiscardAttempt(over, i)
  BY DEF CaptureStartFails, TakeAttempt
<1>3. Begun(attempts, more, i)
  BY <1>1, NextIsFree, AttemptsKept, BeginAttemptKeeps
<1> HIDE DEF more
<1>4. SameSent(more, over)
  BY <1>1, <1>3, StoppedKeeps DEF Begun, Terminals
<1> HIDE DEF over
<1>5. Fewer(more, attempts')
  BY <1>2, <1>4, DiscardedIsFewer
<1>6. /\ AttemptsType(attempts')
      /\ DOMAIN attempts' \subseteq DOMAIN attempts \union {i}
      /\ \A j \in Attempts, k \in Keys :
           SentOf(attempts', j, k) \in {0, SentOf(attempts, j, k)}
  BY <1>3, <1>5 DEF Begun, Fewer
<1> QED
  BY <1>1, <1>6, BegunStep

LEMMA RecordingType ==
  ASSUME WorkInv, Recording
  PROVE  /\ active \in Attempts /\ active <= begun
         /\ \A k \in Keys : SentOf(attempts, active, k) = 0
<1>1. active \in Attempts /\ active <= begun /\ worker[active].pc = "none"
  BY DEF WorkInv, Recording, NoWorker
<1> QED
  BY <1>1 DEF WorkInv, Used

LEMMA RecordingStopsKeeps ==
  ASSUME WorkInv, RecordingStops
  PROVE  WorkInv'
<1>1. /\ active \in Attempts /\ active <= begun
      /\ \A k \in Keys : SentOf(attempts, active, k) = 0
      /\ UNCHANGED <<plan, begun, active, token, tests>>
  BY RecordingType DEF RecordingStops, tokens
<1>2. PICK size \in Sizes :
       LET stopped == AttachCapture(attempts, active, size)
           s == plan.settings[active]
       IN \/ /\ TakeAttempt(CompleteStageIfMissing(stopped, active, PrimaryKey, "plain"),
                            active, "too_short")
             /\ worker' = [worker EXCEPT ![active] = [pc |-> "done"]]
          \/ /\ attempts' = stopped
             /\ worker' = [worker EXCEPT ![active] =
                             NewWorker(s.provider, "primary", s.fallback)]
  BY DEF RecordingStops
<1> DEFINE stopped == AttachCapture(attempts, active, size)
           over == CompleteStageIfMissing(stopped, active, PrimaryKey, "plain")
           s == plan.settings[active]
<1>3. CASE /\ TakeAttempt(over, active, "too_short")
           /\ worker' = [worker EXCEPT ![active] = [pc |-> "done"]]
  <2> DEFINE w == [pc |-> "done"]
  <2>1. SameSent(attempts, over)
    BY <1>1, AttemptsKept, StoppedKeeps DEF Terminals
  <2> HIDE DEF over
  <2>2. Fewer(attempts, attempts')
    BY <1>3, <2>1, DiscardedIsFewer DEF TakeAttempt
  <2>3. w \in Workers /\ w.pc = "done"
    BY DEF Workers, Ends
  <2> HIDE DEF w
  <2>4. worker' = [worker EXCEPT ![active] = w]
    BY <1>3 DEF w
  <2> QED
    BY <1>1, <2>2, <2>3, <2>4, RecordedStep
<1>4. CASE /\ attempts' = stopped
           /\ worker' = [worker EXCEPT ![active] =
                           NewWorker(s.provider, "primary", s.fallback)]
  <2> DEFINE w == NewWorker(s.provider, "primary", s.fallback)
  <2>1. Fewer(attempts, attempts')
    BY <1>1, <1>4, AttemptsKept, AttachCaptureKeeps, SameIsFewer
  <2>2. s.provider \in Backends /\ s.fallback \in Backends \union {"none"}
    BY <1>1, BatchAssumption DEF WorkInv
  <2> HIDE DEF s
  <2>3. w \in Workers /\ w.pc = "session" /\ w.rejected = 0
    BY <2>2 DEF Workers, Sessions, NewWorker, NoToken, Tokens
  <2> HIDE DEF w
  <2>4. worker' = [worker EXCEPT ![active] = w]
    BY <1>4 DEF w
  <2> QED
    BY <1>1, <2>1, <2>3, <2>4, RecordedStep
<1> QED
  BY <1>2, <1>3, <1>4

LEMMA CaptureFailsKeeps ==
  ASSUME WorkInv, CaptureFails
  PROVE  WorkInv'
<1>1. /\ active \in Attempts /\ active <= begun
      /\ \A k \in Keys : SentOf(attempts, active, k) = 0
      /\ UNCHANGED <<plan, begun, token, tests>> /\ active' = 0
      /\ worker' = [worker EXCEPT ![active] = [pc |-> "done"]]
  BY RecordingType DEF CaptureFails, tokens
<1>2. PICK size \in Sizes :
        TakeAttempt(CompleteStageIfMissing(AttachCapture(attempts, active, size),
                                           active, PrimaryKey, "plain"),
                    active, "capture_failure")
  BY DEF CaptureFails
<1> DEFINE over == CompleteStageIfMissing(AttachCapture(attempts, active, size),
                                          active, PrimaryKey, "plain")
           w == [pc |-> "done"]
<1>3. attempts' = DiscardAttempt(over, active)
  BY <1>2 DEF TakeAttempt
<1>4. SameSent(attempts, over)
  BY <1>1, AttemptsKept, StoppedKeeps DEF Terminals
<1> HIDE DEF over
<1>5. Fewer(attempts, attempts')
  BY <1>3, <1>4, DiscardedIsFewer
<1>6. w \in Workers /\ w.pc = "done"
  BY DEF Workers, Ends
<1>7. worker' = [worker EXCEPT ![active] = w]
  BY <1>1
<1> HIDE DEF w
<1> QED
  BY <1>1, <1>5, <1>6, <1>7, RecordedStep

LEMMA ShutdownKeeps ==
  ASSUME WorkInv, Shutdown
  PROVE  WorkInv'
<1>1. /\ UNCHANGED <<plan, begun, worker, token, tests>> /\ active' = 0
      /\ attempts' = DiscardAttempt(attempts, active)
  BY DEF Shutdown, tokens
<1>2. Fewer(attempts, attempts') /\ tests' \in Nat
  BY <1>1, AttemptsKept, DiscardedIsFewer DEF WorkInv
<1> QED
  BY <1>1, <1>2, RestStep

LEMMA TestConnectionKeeps ==
  ASSUME WorkInv, TestConnection
  PROVE  WorkInv'
<1>1. /\ UNCHANGED <<plan, begun, active, worker, attempts>> /\ tests' = tests + 1
  BY DEF TestConnection, OnlyAttempts, Elsewhere
<1>2. token' \in {token, NoToken, Issued("typed")}
  BY DEF TestConnection, GetAccessToken, Offered
<1>3. Fewer(attempts, attempts') /\ tests' \in Nat
  BY <1>1, AttemptsKept, SameIsFewer DEF WorkInv
<1> QED
  BY <1>1, <1>2, <1>3, RestStep

LEMMA EndOfProcessKeeps ==
  ASSUME WorkInv, EndOfProcess
  PROVE  WorkInv'
<1>1. /\ UNCHANGED <<plan, begun, tests>> /\ active' = 0 /\ token' = NoToken
      /\ worker' = [i \in Attempts |-> IF i > begun THEN NoWorker ELSE [pc |-> "done"]]
      /\ attempts' = <<>>
  BY DEF EndOfProcess, ProcessEnds
<1>2. NoWorker \in Workers /\ [pc |-> "done"] \in Workers
  BY DEF NoWorker, Workers, Ends
<1>3. /\ worker' \in [Attempts -> Workers]
      /\ \A i \in Attempts : i > begun' => worker'[i] = NoWorker
  BY <1>1, <1>2
<1>4. /\ AttemptsType(attempts') /\ DOMAIN attempts' = {}
      /\ \A i \in Attempts, k \in Keys : SentOf(attempts', i, k) = 0
  BY <1>1 DEF AttemptsType, SentOf
<1>5. token' \in Tokens
  BY <1>1 DEF NoToken, Tokens
<1>6. \A i \in Attempts : TokenOK(worker'[i], token')
  BY <1>1 DEF NoWorker, TokenOK
<1>7. plan' \in Plans /\ begun' \in Nat /\ active' \in Nat /\ tests' \in Nat
  BY <1>1 DEF WorkInv
<1> QED
  BY <1>1, <1>3, <1>4, <1>5, <1>6, <1>7
     DEF WorkInv, AttemptsType, AttemptType, SentOf, Used, TokenOK

LEMMA DiagnoseKeeps ==
  ASSUME WorkInv, Diagnose
  PROVE  WorkInv'
<1>1. UNCHANGED <<plan, begun, active, worker, token, tests>>
  BY DEF Diagnose, batch, tokens
<1>2. UNCHANGED attempts
  BY DEF Diagnose, WriterStep, StartSave, WriteTemp, RenameTemp, UndoSave,
         CleanupOldManagedTemps, PickGroup, NextPass, EndSweep, DeleteAudio, DeleteManifest,
         FinalizeStep, CountWriter, StartWriter, WaitForPendingWrites, DayPasses,
         DeleteManagedRecordings, memory
<1>3. Fewer(attempts, attempts') /\ tests' \in Nat
  BY <1>1, <1>2, AttemptsKept, SameIsFewer DEF WorkInv
<1> QED
  BY <1>1, <1>3, RestStep

LEMMA WorkInit ==
  ASSUME Init
  PROVE  WorkInv
<1>1. /\ plan \in Plans /\ begun = 0 /\ active = 0 /\ token = NoToken /\ tests = 0
      /\ worker = [i \in Attempts |-> NoWorker] /\ attempts = <<>>
  BY DEF Init, DiagnosticsInit
<1>2. /\ AttemptsType(attempts) /\ DOMAIN attempts = {}
      /\ \A i \in Attempts, k \in Keys : SentOf(attempts, i, k) = 0
  BY <1>1 DEF AttemptsType, SentOf
<1>3. NoWorker \in Workers /\ NoToken \in Tokens
  BY DEF NoWorker, Workers, Ends, NoToken, Tokens
<1>4. worker \in [Attempts -> Workers] /\ \A i \in Attempts : TokenOK(worker[i], token)
  BY <1>1, <1>3 DEF NoWorker, TokenOK
<1> QED
  BY <1>1, <1>2, <1>3, <1>4 DEF WorkInv

LEMMA WorkNext ==
  ASSUME WorkInv, [Next]_vars
  PROVE  WorkInv'
<1>1. CASE UNCHANGED vars
  <2>1. /\ UNCHANGED <<plan, begun, active, worker, token, tests, attempts>>
    BY <1>1 DEF vars, batch, tokens, diagnosticVars, memory
  <2>2. Fewer(attempts, attempts') /\ tests' \in Nat
    BY <2>1, AttemptsKept, SameIsFewer DEF WorkInv
  <2> QED
    BY <2>1, <2>2, RestStep
<1>2. CASE MainStep
  BY <1>2, RecordingStartsKeeps, CaptureStartFailsKeeps, RecordingStopsKeeps,
     CaptureFailsKeeps, ShutdownKeeps DEF MainStep
<1>3. ASSUME NEW i \in Attempts, FinishSession(i) \/ Recognize(i) \/ Judge(i) \/ Dispatch(i)
      PROVE  WorkInv'
  <2>1. CASE Recognize(i)
    BY <2>1, RecognizeKeeps, FetchTokenKeeps, RecognizeBaiduKeeps, ClearCachedTokenKeeps
       DEF Recognize
  <2> QED
    BY <1>3, <2>1, FinishKeeps, JudgeKeeps, DispatchKeeps
<1> QED
  BY <1>1, <1>2, <1>3, TestConnectionKeeps, DiagnoseKeeps, EndOfProcessKeeps DEF Next

---------------------------------------------------------------------------
(***************************************************************************)
(* The steps, as the writers see them.                                     *)
(***************************************************************************)

SameAttempts(as, bs) == DOMAIN bs = DOMAIN as

LEMMA SameStage ==
  ASSUME NEW as, NEW i, NEW key, NEW stage
  PROVE  SameAttempts(as, WithStage(as, i, key, stage))
  BY DEF SameAttempts, WithStage

LEMMA SameInput ==
  ASSUME NEW as, NEW i, NEW key, NEW pcm
  PROVE  SameAttempts(as, StageInput(as, i, key, pcm))
  BY SameStage DEF StageInput

LEMMA SameCompleted ==
  ASSUME NEW as, NEW i, NEW key, NEW terminal
  PROVE  SameAttempts(as, CompleteStage(as, i, key, terminal))
  BY SameStage DEF CompleteStage

LEMMA SameIfMissing ==
  ASSUME NEW as, NEW i, NEW key, NEW terminal
  PROVE  SameAttempts(as, CompleteStageIfMissing(as, i, key, terminal))
  BY SameCompleted DEF CompleteStageIfMissing, SameAttempts

LEMMA SameRequested ==
  ASSUME NEW i, NEW pcm, NEW terminal, Requested(i, pcm, terminal)
  PROVE  SameAttempts(attempts, attempts')
<1> DEFINE key == StageKey(worker[i])
           stage == [StageOf(attempts, i, key) EXCEPT !.sent = @ + 1]
           sent == WithStage(attempts, i, key, stage)
           given == IF pcm = "none" THEN sent ELSE StageInput(sent, i, key, pcm)
<1>1. attempts' = CompleteStage(given, i, key, terminal)
  BY DEF Requested
<1> HIDE DEF key, stage
<1>2. SameAttempts(attempts, sent)
  BY SameStage
<1> HIDE DEF sent
<1>3. SameAttempts(sent, given)
  BY SameInput DEF SameAttempts
<1> HIDE DEF given
<1>4. SameAttempts(given, attempts')
  BY <1>1, SameCompleted
<1> QED
  BY <1>2, <1>3, <1>4 DEF SameAttempts

\* A step that collects something for an attempt, begins or discards one.
AttemptStep ==
  /\ UNCHANGED <<finals, pending, threads, waiting, disk, bounds>>
  /\ begun' \in {begun, begun + 1}
  /\ \A i \in DOMAIN attempts' : i \in DOMAIN attempts \/ i = begun + 1
  /\ exit' = exit \/ (exit = "open" /\ exit' = "closing")

\* A step that takes an attempt, which is what it was or has just become.
TakesFrom(as, i) ==
  /\ AttemptsType(as) /\ i \in Attempts /\ i <= begun'
  /\ \A j \in DOMAIN as : j \in DOMAIN attempts \/ j = begun + 1
  /\ \E kind : TakeAttempt(as, i, kind)

TakeStep ==
  /\ UNCHANGED <<disk, bounds, exit>>
  /\ begun' \in {begun, begun + 1}
  /\ \E as, i : TakesFrom(as, i)

LEMMA ThreadStep ==
  ASSUME NEW i \in Attempts, FinishSession(i) \/ Recognize(i) \/ Judge(i)
  PROVE  AttemptStep
<1>1. UNCHANGED <<finals, pending, threads, waiting, disk, bounds, begun, exit>>
  BY DEF FinishSession, FinishLocal, FinishBaidu, FinishQwen, FinishMimo, FinishQwenAudio,
         FinishMai, FinishDoubao, Finishing, Recognize, RecognizeLocal, RecognizeQwen,
         RecognizeMimo, RecognizeQwenAudio, RecognizeMai, RecognizeRecordedPcm, FetchToken,
         RecognizeBaidu, ClearCachedToken, Requesting, Judge, OnlyAttempts, Elsewhere
<1>2. SameAttempts(attempts, attempts')
  <2>1. UNCHANGED attempts => SameAttempts(attempts, attempts')
    BY DEF SameAttempts
  <2>2. ASSUME FinishSession(i)
        PROVE  SameAttempts(attempts, attempts')
    <3>1. \/ UNCHANGED attempts \/ CompleteVadNoSpeech(i)
          \/ RegisterInput(i, "token") \/ RegisterInput(i, "request")
      BY <2>2 DEF FinishSession, FinishLocal, FinishBaidu, FinishQwen, FinishMimo,
                  FinishQwenAudio, FinishMai, FinishDoubao, KeyMissing, RegisterLater
    <3> QED
      BY <2>1, <3>1, SameInput, SameIfMissing DEF CompleteVadNoSpeech, RegisterInput
  <2>3. ASSUME Recognize(i)
        PROVE  SameAttempts(attempts, attempts')
    <3>1. \/ UNCHANGED attempts \/ Refused(i)
          \/ \E terminal : Answered(i, terminal)
          \/ \E pcm : SentAgain(i, pcm)
          \/ \E pcm, text : Failed(i, pcm, text)
          \/ Requested(i, worker[i].pcm, "bad")
      BY <2>3 DEF Recognize, RecognizeLocal, RecognizeQwen, RecognizeMimo,
                  RecognizeQwenAudio, RecognizeMai, RecognizeRecordedPcm, FetchToken,
                  RecognizeBaidu, ClearCachedToken
    <3>2. UNCHANGED attempts \/ \E pcm, terminal : Requested(i, pcm, terminal)
      BY <3>1 DEF Refused, Answered, SentAgain, Failed
    <3> QED
      BY <2>1, <3>2, SameRequested
  <2>4. ASSUME Judge(i)
        PROVE  SameAttempts(attempts, attempts')
    BY <2>4, SameIfMissing DEF Judge
  <2> QED
    BY <2>2, <2>3, <2>4
<1> QED
  BY <1>1, <1>2 DEF AttemptStep, SameAttempts

LEMMA DiscardDomain ==
  ASSUME NEW as, NEW i
  PROVE  \A j \in DOMAIN DiscardAttempt(as, i) : j \in DOMAIN as /\ j # i
  BY DEF DiscardAttempt

LEMMA RecordingStartsStep ==
  ASSUME WorkInv, RecordingStarts
  PROVE  AttemptStep
<1> DEFINE left == DiscardAttempt(attempts, active)
<1>1. \A j \in DOMAIN left : j \in DOMAIN attempts
  BY DiscardDomain
<1>2. attempts' = BeginAttempt(left, begun + 1, plan.settings[begun + 1].mode)
  BY DEF RecordingStarts
<1> HIDE DEF left
<1>3. \A j \in DOMAIN attempts' : j \in DOMAIN left \/ j = begun + 1
  BY <1>2 DEF BeginAttempt, Put
<1>4. /\ UNCHANGED <<finals, pending, threads, waiting, disk, bounds, exit>>
      /\ begun' = begun + 1
  BY DEF RecordingStarts
<1> QED
  BY <1>1, <1>3, <1>4 DEF AttemptStep

LEMMA ShutdownStep ==
  ASSUME Shutdown
  PROVE  AttemptStep
<1>1. /\ UNCHANGED <<finals, pending, threads, waiting, disk, bounds, begun>>
      /\ exit = "open" /\ exit' = "closing"
      /\ attempts' = DiscardAttempt(attempts, active)
  BY DEF Shutdown, MainRuns
<1>2. \A j \in DOMAIN attempts' : j \in DOMAIN attempts
  BY <1>1, DiscardDomain
<1> QED
  BY <1>1, <1>2 DEF AttemptStep

LEMMA RecordingStopsStep ==
  ASSUME WorkInv, RecordingStops
  PROVE  AttemptStep \/ TakeStep
<1>1. active \in Attempts /\ active <= begun /\ UNCHANGED <<disk, bounds, exit, begun>>
  BY RecordingType DEF RecordingStops
<1>2. PICK size \in Sizes :
       LET stopped == AttachCapture(attempts, active, size)
       IN \/ TakeAttempt(CompleteStageIfMissing(stopped, active, PrimaryKey, "plain"),
                         active, "too_short")
          \/ attempts' = stopped /\ UNCHANGED <<finals, pending, threads, waiting>>
  BY DEF RecordingStops
<1> DEFINE stopped == AttachCapture(attempts, active, size)
           over == CompleteStageIfMissing(stopped, active, PrimaryKey, "plain")
<1>3. SameSent(attempts, stopped) /\ SameSent(attempts, over)
  BY <1>1, AttemptsKept, AttachCaptureKeeps, StoppedKeeps DEF Terminals
<1>4. CASE TakeAttempt(over, active, "too_short")
  <2> HIDE DEF over
  <2>1. TakesFrom(over, active)
    BY <1>1, <1>3, <1>4 DEF TakesFrom, SameSent
  <2> QED
    BY <1>1, <2>1 DEF TakeStep
<1>5. CASE attempts' = stopped /\ UNCHANGED <<finals, pending, threads, waiting>>
  <2> HIDE DEF stopped
  <2> QED
    BY <1>1, <1>3, <1>5 DEF AttemptStep, SameSent
<1> QED
  BY <1>2, <1>4, <1>5

LEMMA CaptureFailsStep ==
  ASSUME WorkInv, CaptureFails
  PROVE  TakeStep
<1>1. active \in Attempts /\ active <= begun /\ UNCHANGED <<disk, bounds, exit, begun>>
  BY RecordingType DEF CaptureFails
<1>2. PICK size \in Sizes :
        TakeAttempt(CompleteStageIfMissing(AttachCapture(attempts, active, size),
                                           active, PrimaryKey, "plain"),
                    active, "capture_failure")
  BY DEF CaptureFails
<1> DEFINE over == CompleteStageIfMissing(AttachCapture(attempts, active, size),
                                          active, PrimaryKey, "plain")
<1>3. SameSent(attempts, over)
  BY <1>1, AttemptsKept, StoppedKeeps DEF Terminals
<1>4. TakeAttempt(over, active, "capture_failure")
  BY <1>2
<1> HIDE DEF over
<1>5. TakesFrom(over, active)
  BY <1>1, <1>3, <1>4 DEF TakesFrom, SameSent
<1> QED
  BY <1>1, <1>5 DEF TakeStep

LEMMA CaptureStartFailsStep ==
  ASSUME WorkInv, CaptureStartFails
  PROVE  TakeStep
<1> DEFINE i == begun + 1
           more == BeginAttempt(attempts, i, plan.settings[i].mode)
           over ==
              CompleteStageIfMissing(AttachCapture(more, i, "none"), i, PrimaryKey, "bad")
<1>1. i \in Attempts /\ begun' = i /\ UNCHANGED <<disk, bounds, exit>>
  BY DEF CaptureStartFails
<1>2. TakeAttempt(over, i, "capture_failure")
  BY DEF CaptureStartFails
<1>3. Begun(attempts, more, i)
  BY <1>1, NextIsFree, AttemptsKept, BeginAttemptKeeps
<1> HIDE DEF more
<1>4. SameSent(more, over)
  BY <1>1, <1>3, StoppedKeeps DEF Begun, Terminals
<1> HIDE DEF over
<1>5. \A j \in DOMAIN over : j \in DOMAIN attempts \/ j = begun + 1
  BY <1>3, <1>4 DEF Begun, SameSent
<1>6. i <= begun'
  BY <1>1, DiagnosticsAssumption
<1>7. TakesFrom(over, i)
  BY <1>1, <1>2, <1>4, <1>5, <1>6 DEF TakesFrom, SameSent
<1> QED
  BY <1>1, <1>7 DEF TakeStep

LEMMA DispatchStep ==
  ASSUME WorkInv, NEW i \in Attempts, Dispatch(i)
  PROVE  TakeStep
<1>1. i <= begun
  BY WorkerType DEF Dispatch
<1>2. UNCHANGED <<disk, bounds, exit, begun>>
  BY DEF Dispatch, Elsewhere
<1>3. TakeAttempt(attempts, i, worker[i].text)
  BY DEF Dispatch
<1>4. TakesFrom(attempts, i)
  BY <1>1, <1>2, <1>3, AttemptsKept DEF TakesFrom
<1> QED
  BY <1>2, <1>4 DEF TakeStep

LEMMA StepKinds ==
  ASSUME WorkInv, Next
  PROVE  AttemptStep \/ TakeStep \/ Diagnose \/ EndOfProcess
<1>1. CASE MainStep
  BY <1>1, RecordingStartsStep, ShutdownStep, RecordingStopsStep, CaptureFailsStep,
     CaptureStartFailsStep DEF MainStep
<1>2. CASE TestConnection
  <2>1. UNCHANGED <<finals, pending, threads, waiting, disk, bounds, begun, exit, attempts>>
    BY <1>2 DEF TestConnection, OnlyAttempts, Elsewhere
  <2> QED
    BY <2>1 DEF AttemptStep
<1>3. ASSUME NEW i \in Attempts, FinishSession(i) \/ Recognize(i) \/ Judge(i) \/ Dispatch(i)
      PROVE  AttemptStep \/ TakeStep
  BY <1>3, ThreadStep, DispatchStep
<1> QED
  BY <1>1, <1>2, <1>3 DEF Next

---------------------------------------------------------------------------
(***************************************************************************)
(* The jobs.                                                               *)
(***************************************************************************)

LEMMA JobKinds ==
  ASSUME NEW j, JobType(j)
  PROVE  /\ j.step \in {"temp", "rename", "undo"} => j \in SaveJobs
         /\ j.step = "clean" => j \in CleanJobs
         /\ j.step \in {"pick", "audio", "manifest"} => SweepType(j)
         /\ j = NoJob \/ (j # NoJob /\ j.by \in Attempts \union {Settings}
                            /\ j.late \in BOOLEAN /\ j.step # "none")
         /\ NoJob.by = 0 /\ NoJob.step = "none" /\ 0 \notin Attempts
         /\ Settings \notin Attempts
         /\ Settings # 0
<1>1. NoJob.by = 0 /\ NoJob.step = "none" /\ 0 \notin Attempts /\ Settings \notin Attempts
  BY DiagnosticsAssumption DEF NoJob, Settings
<1>2. CASE j = NoJob
  BY <1>1, <1>2 DEF Settings
<1>3. CASE j \in SaveJobs
  <2>1. j.step \in {"temp", "rename", "undo"} /\ j.by \in Attempts /\ j.late \in BOOLEAN
    BY <1>3 DEF SaveJobs
  <2> QED
    BY <1>1, <1>3, <2>1 DEF Settings
<1>4. CASE j \in CleanJobs
  <2>1. j.step = "clean" /\ j.by \in Attempts /\ j.late \in BOOLEAN
    BY <1>4 DEF CleanJobs
  <2> QED
    BY <1>1, <1>4, <2>1 DEF Settings
<1>5. CASE SweepType(j)
  <2>1. /\ j.step \in {"pick", "audio", "manifest"} /\ j.by \in Attempts \union {Settings}
        /\ j.late \in BOOLEAN
    BY <1>5 DEF SweepType
  <2> QED
    BY <1>1, <1>5, <2>1 DEF Settings
<1> QED
  BY <1>2, <1>3, <1>4, <1>5 DEF JobType

\* A set in a sequence: each member once, and nothing else.
LEMMA SetInSequence ==
  ASSUME NEW S, IsFiniteSet(S)
  PROVE  /\ SetToSeq(S) \in Seq(S) /\ Len(SetToSeq(S)) = Cardinality(S)
         /\ Cardinality(S) \in Nat
         /\ S = {SetToSeq(S)[k] : k \in 1 .. Len(SetToSeq(S))}
<1> DEFINE n == Cardinality(S)
           f == SetToSeq(S)
<1>1. n \in Nat /\ Bijection(1 .. n, S) # {}
  BY FS_CardinalityType DEF ExistsBijection
<1>2. PICK g \in [1 .. n -> S] : IsInjective(g)
  BY <1>1 DEF Bijection, Injection
<1>3. f \in [1 .. n -> S] /\ IsInjective(f)
  BY <1>2 DEF SetToSeq
<1>4. f \in Injection(1 .. n, S)
  BY <1>3 DEF Injection
<1> HIDE DEF f
<1>5. IsFiniteSet(1 .. n) /\ Cardinality(1 .. n) = n
  BY <1>1, FS_Interval
<1>6. f \in Surjection(1 .. n, S)
  BY <1>4, <1>5, FS_Injection
<1>7. f \in Seq(S) /\ Len(f) = n
  BY <1>1, <1>3
<1>8. S = {f[k] : k \in 1 .. n}
  <2>1. /\ f \in [1 .. n -> S]
        /\ \A x \in S : \E k \in 1 .. n : f[k] = x
    BY <1>6 DEF Surjection
  <2> QED
    BY <2>1
<1> QED
  BY <1>1, <1>7, <1>8 DEF f

LEMMA PartsFinite ==
  ASSUME NEW S \in SUBSET Parts
  PROVE  IsFiniteSet(S)
<1>1. IsFiniteSet(Parts)
  <2>1. Parts = {"raw", "trimmed"} \union {"part"}
    BY DEF Parts
  <2>2. IsFiniteSet({}) /\ {} \union {"raw"} = {"raw"}
        /\ {"raw"} \union {"trimmed"} = {"raw", "trimmed"}
    BY FS_EmptySet
  <2>3. IsFiniteSet({"raw"})
    BY <2>2, FS_AddElement
  <2>4. IsFiniteSet({"raw", "trimmed"})
    BY <2>2, <2>3, FS_AddElement
  <2> QED
    BY <2>1, <2>4, FS_AddElement
<1> QED
  BY <1>1, FS_Subset

\* A save begins with everything to do, and nothing committed.
LEMMA SaveBegins ==
  ASSUME NEW w \in Saves
  PROVE  /\ SaveJob(w) \in SaveJobs /\ ToDo(SaveJob(w))
         /\ SaveJob(w).by = w.group /\ SaveJob(w).late = w.late
         /\ SaveJob(w).step = "temp" /\ SaveJob(w).committed = {}
<1> DEFINE s == SetToSeq(w.audio)
           e == <<"json">>
           All == Parts \union {"json"}
           todo == s \o e
           n == Cardinality(w.audio)
<1>1. w.group \in Attempts /\ w.late \in BOOLEAN /\ w.audio \subseteq Parts
  BY DEF Saves
<1>2. /\ s \in Seq(w.audio) /\ Len(s) = n /\ n \in Nat
      /\ w.audio = {s[k] : k \in 1 .. n}
  BY <1>1, PartsFinite, SetInSequence
<1> HIDE DEF s, n
<1>3. s \in Seq(All) /\ e \in Seq(All) /\ Len(e) = 1 /\ e[1] = "json"
  BY <1>1, <1>2
<1>4. /\ todo \in Seq(All) /\ Len(todo) = n + 1
      /\ \A k \in 1 .. n + 1 : todo[k] = IF k <= n THEN s[k] ELSE e[k - n]
  <2> HIDE DEF e, All
  <2>1. /\ s \o e \in Seq(All) /\ Len(s \o e) = Len(s) + Len(e)
        /\ \A k \in 1 .. Len(s) + Len(e) :
             (s \o e)[k] = IF k <= Len(s) THEN s[k] ELSE e[k - Len(s)]
    BY <1>3, ConcatProperties
  <2> QED
    BY <1>2, <1>3, <2>1
<1> HIDE DEF todo, e
<1>5. \A k \in 1 .. n : s[k] \in w.audio /\ todo[k] = s[k]
  BY <1>2, <1>4
<1>6. todo[n + 1] = "json"
  BY <1>2, <1>3, <1>4
<1>7. \A k \in 1 .. n + 1 : todo[k] = "json" <=> k = n + 1
  <2>1. "json" \notin w.audio
    BY <1>1 DEF Parts
  <2>2. \A k \in 1 .. n + 1 : k \in 1 .. n \/ k = n + 1
    BY <1>2
  <2>3. n + 1 \notin 1 .. n
    BY <1>2
  <2> QED
    BY <1>5, <1>6, <2>1, <2>2, <2>3
<1>8. {todo[k] : k \in 1 .. n} = w.audio
  <2>1. {todo[k] : k \in 1 .. n} = {s[k] : k \in 1 .. n}
    BY <1>5
  <2> QED
    BY <1>2, <2>1
<1>9. SaveJob(w) = [by |-> w.group, late |-> w.late, step |-> "temp", committed |-> {},
                    audio |-> w.audio, todo |-> todo]
  BY DEF SaveJob, todo, s, e
<1>10. /\ SaveJob(w) \in SaveJobs /\ SaveJob(w).todo = todo /\ SaveJob(w).audio = w.audio
       /\ SaveJob(w).by = w.group /\ SaveJob(w).late = w.late
       /\ SaveJob(w).step = "temp" /\ SaveJob(w).committed = {}
  BY <1>1, <1>4, <1>9 DEF SaveJobs
<1>11. ToDo(SaveJob(w))
  <2>1. Len(todo) - 1 = n /\ Len(todo) > 0
    BY <1>2, <1>4
  <2> QED
    BY <1>4, <1>7, <1>8, <1>10, <2>1 DEF ToDo
<1> QED
  BY <1>10, <1>11

\* A sweep begins with a pass over the groups.
LEMMA SweepBegins ==
  ASSUME NEW by \in Attempts \union {Settings}, NEW late \in BOOLEAN, NEW pass
  PROVE  /\ SweepType(SweepJob(by, late, pass)) /\ SweepJob(by, late, pass).by = by
         /\ SweepJob(by, late, pass).late = late /\ SweepJob(by, late, pass).step = "pick"
  BY DEF SweepType, SweepJob

\* The holder of the mutex goes on to something else.
GoesOn ==
  /\ JobOK(job') /\ job # NoJob /\ job' # NoJob
  /\ job'.by = job.by /\ job'.late = job.late

LEMMA StillJob ==
  ASSUME NEW j, JobType(j), j # NoJob, NEW k, JobOK(k), k.by = j.by
  PROVE  k # NoJob
<1>1. j.by \in Attempts \union {Settings}
  BY JobKinds
<1>2. k.by # 0 /\ NoJob.by = 0
  BY <1>1, JobKinds
<1> QED
  BY <1>2

LEMMA WriteTempJob ==
  ASSUME JobInv, WriteTemp
  PROVE  /\ GoesOn /\ job'.committed = job.committed /\ job'.audio = job.audio
         /\ job'.todo = job.todo /\ job' \in SaveJobs
<1>1. job.step = "temp" /\ job \in SaveJobs /\ ToDo(job) /\ JobType(job) /\ job # NoJob
  BY JobKinds DEF JobInv, JobOK, WriteTemp
<1>2. PICK step \in {"rename", "undo"} : job' = [job EXCEPT !.step = step]
  BY DEF WriteTemp
<1>3. /\ job' \in SaveJobs /\ job'.by = job.by /\ job'.late = job.late
      /\ job'.todo = job.todo /\ job'.audio = job.audio /\ job'.committed = job.committed
  BY <1>1, <1>2 DEF SaveJobs
<1>4. JobOK(job')
  BY <1>1, <1>3 DEF JobOK, JobType, ToDo
<1> QED
  BY <1>1, <1>3, <1>4, StillJob DEF GoesOn

\* The first of what was to do is done.
LEMMA ToDoTail ==
  ASSUME NEW j \in SaveJobs, ToDo(j), Head(j.todo) # "json",
         NEW k \in SaveJobs, k.todo = Tail(j.todo), k.audio = j.audio,
         k.committed = j.committed \union {Head(j.todo)}
  PROVE  ToDo(k)
<1> DEFINE s == j.todo
           t == Tail(s)
           n == Len(s)
<1>1. s \in Seq(Parts \union {"json"}) /\ n \in Nat /\ n > 0 /\ s # <<>>
  BY DEF SaveJobs, ToDo
<1>2. /\ Len(t) = n - 1 /\ Head(s) = s[1] /\ \A x \in 1 .. n - 1 : t[x] = s[x + 1]
  <2>1. /\ Len(Tail(s)) = Len(s) - 1
        /\ \A x \in 1 .. Len(Tail(s)) : Tail(s)[x] = s[x + 1]
    <3> HIDE DEF s
    <3> QED
      BY <1>1, HeadTailProperties
  <2>2. Head(s) = s[1]
    OBVIOUS
  <2> QED
    BY <2>1, <2>2
<1>3. /\ \A x \in 1 .. n : s[x] = "json" <=> x = n
      /\ j.audio = j.committed \union {s[x] : x \in 1 .. n - 1}
  BY DEF ToDo
<1>4. k.todo = t /\ n - 1 > 0
  BY <1>1, <1>2, <1>3
<1> HIDE DEF s, t, n
<1>5. \A x \in 1 .. n - 1 : x + 1 \in 1 .. n /\ (x + 1 = n <=> x = n - 1)
  BY <1>1
<1>6. \A x \in 1 .. n - 1 : t[x] = "json" <=> x = n - 1
  BY <1>2, <1>3, <1>5
<1>7. {s[x] : x \in 1 .. n - 1} = {s[1]} \union {t[x] : x \in 1 .. (n - 1) - 1}
  <2>1. ASSUME NEW x \in 1 .. n - 1
        PROVE  s[x] \in {s[1]} \union {t[y] : y \in 1 .. (n - 1) - 1}
    <3>1. CASE x = 1
      BY <3>1
    <3>2. CASE x # 1
      <4>1. x - 1 \in 1 .. (n - 1) - 1 /\ x - 1 \in 1 .. n - 1 /\ (x - 1) + 1 = x
        BY <1>1, <3>2
      <4>2. t[x - 1] = s[x]
        BY <1>2, <4>1
      <4> QED
        BY <4>1, <4>2
    <3> QED
      BY <3>1, <3>2
  <2>2. ASSUME NEW y \in 1 .. (n - 1) - 1
        PROVE  t[y] \in {s[x] : x \in 1 .. n - 1}
    <3>1. y + 1 \in 1 .. n - 1 /\ y \in 1 .. n - 1
      BY <1>1
    <3> QED
      BY <1>2, <3>1
  <2>3. s[1] \in {s[x] : x \in 1 .. n - 1}
    BY <1>1, <1>4
  <2> QED
    BY <2>1, <2>2, <2>3
<1>8. k.audio = k.committed \union {t[x] : x \in 1 .. (n - 1) - 1}
  BY <1>2, <1>3, <1>7 DEF s
<1>9. Len(k.todo) = n - 1 /\ n - 1 > 0
  BY <1>2, <1>4
<1>10. \A x \in 1 .. Len(k.todo) : k.todo[x] = "json" <=> x = Len(k.todo)
  BY <1>4, <1>6, <1>9
<1>11. k.audio = k.committed \union {k.todo[x] : x \in 1 .. Len(k.todo) - 1}
  BY <1>4, <1>8, <1>9
<1> QED
  BY <1>9, <1>10, <1>11 DEF ToDo

LEMMA RenameTempJob ==
  ASSUME JobInv, RenameTemp
  PROVE  /\ GoesOn
         /\ job'.step = "temp" =>
              /\ job' \in SaveJobs /\ job'.audio = job.audio
              /\ job'.committed = job.committed \union {Head(job.todo)}
<1>1. job.step = "rename" /\ job \in SaveJobs /\ ToDo(job) /\ JobType(job) /\ job # NoJob
  BY JobKinds DEF JobInv, JobOK, RenameTemp
<1>2. /\ job.todo \in Seq(Parts \union {"json"}) /\ job.todo # <<>>
      /\ job.by \in Attempts /\ job.late \in BOOLEAN /\ job.committed \subseteq Parts
  BY <1>1 DEF SaveJobs, ToDo
<1>3. Head(job.todo) \in Parts \union {"json"}
      /\ Tail(job.todo) \in Seq(Parts \union {"json"})
  BY <1>2, HeadTailProperties
<1>4. CASE job' = [by |-> job.by, late |-> job.late, step |-> "clean"]
  <2>1. /\ job' \in CleanJobs /\ job'.by = job.by /\ job'.late = job.late
        /\ job'.step = "clean"
    BY <1>2, <1>4 DEF CleanJobs
  <2>2. JobOK(job')
    BY <2>1 DEF JobOK, JobType
  <2> QED
    BY <1>1, <2>1, <2>2, StillJob DEF GoesOn
<1>5. CASE /\ Head(job.todo) # "json"
           /\ job' = [job EXCEPT !.step = "temp", !.todo = Tail(@),
                                 !.committed = @ \union {Head(job.todo)}]
  <2> DEFINE t == Tail(job.todo)
             c == job.committed \union {Head(job.todo)}
  <2>1. c \subseteq Parts /\ t \in Seq(Parts \union {"json"})
    BY <1>2, <1>3, <1>5
  <2>2. job' = [job EXCEPT !.step = "temp", !.todo = t, !.committed = c]
    BY <1>1, <1>5 DEF SaveJobs
  <2> HIDE DEF t, c
  <2>3. /\ job' \in SaveJobs /\ job'.by = job.by /\ job'.late = job.late
        /\ job'.step = "temp" /\ job'.todo = t /\ job'.audio = job.audio
        /\ job'.committed = c
    BY <1>1, <2>1, <2>2 DEF SaveJobs
  <2>4. ToDo(job')
    BY <1>1, <1>5, <2>3, ToDoTail DEF t, c
  <2>5. JobOK(job')
    BY <2>3, <2>4 DEF JobOK, JobType
  <2> QED
    BY <1>1, <2>3, <2>5, StillJob DEF GoesOn, c
<1>6. CASE job' = [job EXCEPT !.step = "undo"]
  <2>1. /\ job' \in SaveJobs /\ job'.by = job.by /\ job'.late = job.late
        /\ job'.step = "undo"
    BY <1>1, <1>6 DEF SaveJobs
  <2>2. JobOK(job')
    BY <2>1 DEF JobOK, JobType
  <2> QED
    BY <1>1, <2>1, <2>2, StillJob DEF GoesOn
<1> QED
  BY <1>4, <1>5, <1>6 DEF RenameTemp

LEMMA CleanupJob ==
  ASSUME JobInv, CleanupOldManagedTemps
  PROVE  GoesOn /\ job'.step = "pick"
<1>1. job.step = "clean" /\ job \in CleanJobs /\ JobType(job) /\ job # NoJob
  BY JobKinds DEF JobInv, JobOK, CleanupOldManagedTemps
<1>2. job.by \in Attempts /\ job.late \in BOOLEAN
  BY <1>1 DEF CleanJobs
<1>3. job' = SweepJob(job.by, job.late, "age")
  BY DEF CleanupOldManagedTemps
<1>4. SweepType(job') /\ job'.by = job.by /\ job'.late = job.late /\ job'.step = "pick"
  BY <1>2, <1>3, SweepBegins
<1>5. JobOK(job')
  BY <1>4 DEF JobOK, JobType
<1> QED
  BY <1>1, <1>4, <1>5, StillJob DEF GoesOn

\* A sweep is at another step, with other findings.
LEMMA SweepGoesOn ==
  ASSUME JobInv, job.step \in {"pick", "audio", "manifest"},
         SweepType(job'), job'.by = job.by, job'.late = job.late
  PROVE  GoesOn
<1>1. JobType(job) /\ job # NoJob
  BY JobKinds DEF JobInv, JobOK
<1>2. JobOK(job')
  BY DEF JobOK, JobType, SweepType
<1> QED
  BY <1>1, <1>2, StillJob DEF GoesOn

LEMMA PickGroupJob ==
  ASSUME JobInv, PickGroup
  PROVE  GoesOn /\ job'.step = "audio" /\ job'.victim = Oldest(Candidates)
<1> DEFINE v == Oldest(Candidates)
<1>1. job' = [job EXCEPT !.step = "audio", !.victim = v] /\ job.step = "pick"
  BY DEF PickGroup
<1>2. SweepType(job)
  BY <1>1, JobKinds DEF JobInv, JobOK
<1> HIDE DEF v
<1>3. /\ SweepType(job') /\ job'.by = job.by /\ job'.late = job.late
      /\ job'.step = "audio" /\ job'.victim = v
  BY <1>1, <1>2 DEF SweepType
<1> QED
  BY <1>1, <1>3, SweepGoesOn DEF v

LEMMA NextPassJob ==
  ASSUME JobInv, NextPass
  PROVE  GoesOn /\ job'.step = "pick"
<1>1. job' = [job EXCEPT !.pass = "size", !.tried = {}] /\ job.step = "pick"
  BY DEF NextPass
<1>2. SweepType(job)
  BY <1>1, JobKinds DEF JobInv, JobOK
<1>3. SweepType(job') /\ job'.by = job.by /\ job'.late = job.late /\ job'.step = "pick"
  BY <1>1, <1>2 DEF SweepType
<1> QED
  BY <1>1, <1>3, SweepGoesOn

LEMMA DeleteAudioJob ==
  ASSUME JobInv, DeleteAudio
  PROVE  GoesOn /\ job'.step = "manifest" /\ job'.victim = job.victim
<1>1. PICK kept :
        job' = [job EXCEPT !.step = "manifest", !.failed = @ \/ kept # {},
                           !.tried = IF kept # {} THEN @ \union {job.victim} ELSE @]
  BY DEF DeleteAudio
<1>2. SweepType(job) /\ job.step = "audio"
  BY JobKinds DEF JobInv, JobOK, DeleteAudio
<1> DEFINE failed == job.failed \/ kept # {}
           tried == IF kept # {} THEN job.tried \union {job.victim} ELSE job.tried
<1>3. failed \in BOOLEAN
  OBVIOUS
<1>4. job' = [job EXCEPT !.step = "manifest", !.failed = failed, !.tried = tried]
  BY <1>1, <1>2 DEF SweepType
<1> HIDE DEF failed, tried
<1>5. /\ SweepType(job') /\ job'.by = job.by /\ job'.late = job.late
      /\ job'.step = "manifest" /\ job'.victim = job.victim
  BY <1>2, <1>3, <1>4 DEF SweepType
<1> QED
  BY <1>2, <1>5, SweepGoesOn

LEMMA DeleteManifestJob ==
  ASSUME JobInv, DeleteManifest
  PROVE  GoesOn /\ job'.step = "pick"
<1>1. SweepType(job) /\ job.step = "manifest"
  BY JobKinds DEF JobInv, JobOK, DeleteManifest
<1> DEFINE live == IF job.victim \in job.tried THEN job.live ELSE job.live \ {job.victim}
           tried == job.tried \union {job.victim}
<1>2. \/ job' = [job EXCEPT !.step = "pick", !.live = live]
      \/ job' = [job EXCEPT !.step = "pick", !.failed = TRUE, !.tried = tried]
  BY <1>1 DEF DeleteManifest, SweepType
<1> HIDE DEF live, tried
<1>3. SweepType(job') /\ job'.by = job.by /\ job'.late = job.late /\ job'.step = "pick"
  <2>1. CASE job' = [job EXCEPT !.step = "pick", !.live = live]
    BY <1>1, <2>1 DEF SweepType
  <2>2. CASE job' = [job EXCEPT !.step = "pick", !.failed = TRUE, !.tried = tried]
    BY <1>1, <2>2 DEF SweepType
  <2> QED
    BY <1>2, <2>1, <2>2
<1> QED
  BY <1>1, <1>3, SweepGoesOn

LEMMA NoJobOK == JobOK(NoJob)
  BY DEF JobOK, JobType, NoJob

\* What a save is to write.
LEMMA TakenType ==
  ASSUME NEW as, AttemptsType(as), NEW i \in Attempts, i \in DOMAIN as
  PROVE  [group |-> i, step |-> "taken", audio |-> Artifacts(as[i]), late |-> FALSE]
         \in Saves
<1>1. AttemptType(as[i])
  BY DEF AttemptsType
<1>2. as[i].pcm \in Pcms /\ \A k \in DOMAIN as[i].stages : as[i].stages[k].pcm \in Pcms
  BY <1>1 DEF AttemptType, Stages, StageRecords
<1>3. Artifacts(as[i]) \subseteq Parts
  BY <1>2 DEF Artifacts, Pcms
<1> QED
  BY <1>3 DEF Saves

\* The call of FinalizeAttempt puts at most one recording on its way.
LEMMA TakeAdds ==
  ASSUME NEW as, NEW i, TakesFrom(as, i)
  PROVE  /\ finals' = finals \/ \E new \in Saves : /\ finals' = finals \union {new}
                                                   /\ new.group = i /\ new.step = "taken"
                                                   /\ i \in DOMAIN as
         /\ \A j \in DOMAIN attempts' : j # i /\ j \in DOMAIN as
         /\ threads' \in {{}, threads} /\ UNCHANGED <<pending, waiting>>
         /\ DOMAIN as \subseteq Attempts
<1>1. /\ AttemptsType(as) /\ i \in Attempts
      /\ \E kind : TakeAttempt(as, i, kind)
  BY DEF TakesFrom
<1>2. /\ attempts' = DiscardAttempt(as, i) /\ threads' \in {{}, threads}
      /\ UNCHANGED <<pending, waiting>>
  BY <1>1 DEF TakeAttempt
<1> DEFINE new ==
             [group |-> i, step |-> "taken", audio |-> Artifacts(as[i]), late |-> FALSE]
<1>3. finals' = finals \/ (i \in DOMAIN as /\ finals' = finals \union {new})
  BY <1>1 DEF TakeAttempt
<1>4. new.group = i /\ new.step = "taken" /\ (i \in DOMAIN as => new \in Saves)
  BY <1>1, TakenType
<1> HIDE DEF new
<1>5. finals' = finals \/ \E n \in Saves : /\ finals' = finals \union {n}
                                           /\ n.group = i /\ n.step = "taken"
                                           /\ i \in DOMAIN as
  BY <1>3, <1>4
<1>6. \A j \in DOMAIN attempts' : j # i /\ j \in DOMAIN as
  BY <1>2, DiscardDomain
<1> QED
  BY <1>1, <1>2, <1>5, <1>6 DEF AttemptsType

\* A step of a job that goes on changes nothing in memory but the job.
Proceeds == GoesOn /\ UNCHANGED <<memory, exit>>
\* The job is over.
Releases == job # NoJob /\ Release /\ UNCHANGED <<attempts, finals, threads, waiting, exit>>

LEMMA JobSteps ==
  ASSUME JobInv, Diagnose
  PROVE  \/ \E w \in waiting : StartSave(w)
         \/ Proceeds \/ Releases \/ FinalizeStep \/ WaitForPendingWrites
         \/ DayPasses \/ DeleteManagedRecordings
<1>1. CASE WriteTemp
  BY <1>1, WriteTempJob DEF Proceeds, WriteTemp
<1>2. CASE RenameTemp
  BY <1>2, RenameTempJob DEF Proceeds, RenameTemp
<1>3. CASE CleanupOldManagedTemps
  BY <1>3, CleanupJob DEF Proceeds, CleanupOldManagedTemps
<1>4. CASE PickGroup
  BY <1>4, PickGroupJob DEF Proceeds, PickGroup
<1>5. CASE NextPass
  BY <1>5, NextPassJob DEF Proceeds, NextPass
<1>6. CASE DeleteAudio
  BY <1>6, DeleteAudioJob DEF Proceeds, DeleteAudio
<1>7. CASE DeleteManifest
  BY <1>7, DeleteManifestJob DEF Proceeds, DeleteManifest
<1>8. CASE UndoSave \/ EndSweep
  BY <1>8 DEF Releases, UndoSave, EndSweep, NoJob, Release
<1> QED
  BY <1>1, <1>2, <1>3, <1>4, <1>5, <1>6, <1>7, <1>8 DEF Diagnose, WriterStep

LEMMA JobNext ==
  ASSUME WorkInv, JobInv, [Next]_vars
  PROVE  JobInv'
<1>0. JobOK(job) /\ finals \subseteq Saves /\ waiting \subseteq Saves
  BY DEF JobInv
<1> SUFFICES JobOK(job') /\ finals' \subseteq Saves /\ waiting' \subseteq Saves
  BY DEF JobInv, JobOK, JobType, SweepType, ToDo
<1>1. CASE UNCHANGED vars \/ AttemptStep
  BY <1>0, <1>1 DEF AttemptStep, vars, diagnosticVars, memory, disk
<1>2. CASE TakeStep
  <2>1. PICK as, i : TakesFrom(as, i)
    BY <1>2 DEF TakeStep
  <2>2. UNCHANGED <<job, waiting>> /\ finals' \subseteq Saves
    BY <1>0, <1>2, <2>1, TakeAdds DEF TakeStep, disk
  <2> QED
    BY <1>0, <2>2
<1>3. ASSUME NEW w \in waiting, StartSave(w)
      PROVE  JobOK(job') /\ finals' \subseteq Saves /\ waiting' \subseteq Saves
  <2>1. JobOK(SaveJob(w))
    BY <1>0, SaveBegins DEF JobOK, JobType
  <2>2. job' = SaveJob(w) \/ job' = job
    BY <1>3 DEF StartSave
  <2>3. finals' = finals /\ waiting' \subseteq waiting
    BY <1>3 DEF StartSave
  <2> QED
    BY <1>0, <2>1, <2>2, <2>3
<1>4. CASE Proceeds
  BY <1>0, <1>4 DEF Proceeds, GoesOn, memory
<1>5. CASE Releases
  BY <1>0, <1>5, NoJobOK DEF Releases, Release
<1>6. CASE FinalizeStep
  <2>1. PICK f \in finals : CountWriter(f) \/ StartWriter(f)
    BY <1>6 DEF FinalizeStep
  <2>2. UNCHANGED job
    BY <2>1 DEF CountWriter, StartWriter, disk
  <2>3. CASE CountWriter(f)
    <3> DEFINE late == exit = "ended"
               g == [f EXCEPT !.step = "counted", !.late = late]
    <3>1. late \in BOOLEAN
      OBVIOUS
    <3>2. finals' = (finals \ {f}) \union {g} /\ UNCHANGED waiting
      BY <2>3 DEF CountWriter
    <3> HIDE DEF late
    <3>3. g \in Saves
      BY <1>0, <2>1, <3>1 DEF Saves
    <3> QED
      BY <1>0, <2>2, <3>2, <3>3
  <2>4. CASE StartWriter(f)
    BY <1>0, <2>2, <2>4 DEF StartWriter
  <2> QED
    BY <2>1, <2>3, <2>4
<1>7. CASE WaitForPendingWrites \/ DayPasses
  BY <1>0, <1>7 DEF WaitForPendingWrites, DayPasses, memory, disk
<1>8. CASE DeleteManagedRecordings
  <2>1. job' = SweepJob(Settings, FALSE, "all") /\ UNCHANGED <<finals, waiting>>
    BY <1>8 DEF DeleteManagedRecordings, memory
  <2>2. JobOK(job')
    BY <2>1, SweepBegins DEF JobOK, JobType
  <2> QED
    BY <1>0, <2>1, <2>2
<1>9. CASE EndOfProcess
  BY <1>9, NoJobOK DEF EndOfProcess, ProcessEnds
<1> QED
  BY <1>1, <1>2, <1>3, <1>4, <1>5, <1>6, <1>7, <1>8, <1>9, StepKinds, JobSteps

---------------------------------------------------------------------------
(***************************************************************************)
(* The writers.                                                            *)
(***************************************************************************)

LEMMA WriterFacts ==
  ASSUME WorkInv, JobInv, WriterInv
  PROVE  /\ begun \in Nat /\ Attempts \subseteq Nat \ {0}
         /\ DOMAIN attempts \subseteq Attempts
         /\ IsFiniteSet(Counted) /\ Cardinality(Counted) \in Nat
         /\ Writing \in {0, 1} /\ pending \in Nat
         /\ \A f \in OnTheirWay : f \in Saves /\ f.group \in Attempts
         /\ job.by \in Attempts \union {0, Settings}
         /\ (job.by \notin Attempts /\ job.by # Settings) => job = NoJob
<1>1. IsFiniteSet(Counted)
  <2> DEFINE C == {f \in finals : f.step = "counted"}
  <2>1. IsFiniteSet(C)
    BY FS_Subset DEF WriterInv
  <2> HIDE DEF C
  <2>2. IsFiniteSet(C \union waiting)
    BY <2>1, FS_Union DEF WriterInv
  <2> QED
    BY <2>2 DEF Counted, C
<1>2. Cardinality(Counted) \in Nat
  BY <1>1, FS_CardinalityType
<1>3. Writing \in {0, 1}
  BY DEF Writing
<1>4. pending \in Nat
  BY <1>2, <1>3 DEF WriterInv
<1>5. \A f \in OnTheirWay : f \in Saves /\ f.group \in Attempts
  BY DEF JobInv, OnTheirWay, Saves
<1>6. /\ job.by \in Attempts \union {0, Settings}
      /\ (job.by \notin Attempts /\ job.by # Settings) => job = NoJob
  BY JobKinds DEF JobInv, JobOK
<1>7. begun \in Nat /\ Attempts \subseteq Nat \ {0} /\ DOMAIN attempts \subseteq Attempts
  BY DiagnosticsAssumption DEF WorkInv, AttemptsType
<1> QED
  BY <1>1, <1>2, <1>3, <1>4, <1>5, <1>6, <1>7

\* Whose numbers are taken stays apart from the attempts that are still open.
LEMMA BehindAttempts ==
  ASSUME WorkInv, JobInv, WriterInv, begun' \in {begun, begun + 1},
         \A i \in DOMAIN attempts' : i \in DOMAIN attempts \/ i = begun + 1
  PROVE  /\ \A f \in OnTheirWay : f.group <= begun' /\ f.group \notin DOMAIN attempts'
         /\ job.by \notin DOMAIN attempts' /\ job.by <= begun'
<1>1. /\ begun \in Nat /\ Attempts \subseteq Nat \ {0}
      /\ \A f \in OnTheirWay : f.group \in Attempts
      /\ job.by \in Attempts \union {0, Settings} /\ Settings = -1
  BY WriterFacts DEF Settings
<1>2. ASSUME NEW f \in OnTheirWay
      PROVE  f.group <= begun' /\ f.group \notin DOMAIN attempts'
  <2>1. f.group \in Nat /\ f.group <= begun /\ f.group \notin DOMAIN attempts
    BY <1>1, <1>2 DEF WriterInv
  <2>2. f.group # begun + 1 /\ f.group <= begun'
    BY <1>1, <2>1
  <2> QED
    BY <2>1, <2>2
<1>3. job.by \notin DOMAIN attempts' /\ job.by <= begun'
  <2>1. job.by \in Int
    <3>1. CASE job.by \in Attempts
      <4>1. \A x \in Attempts : x \in Int
        BY DiagnosticsAssumption
      <4> QED
        BY <3>1, <4>1
    <3>2. CASE job.by \in {0, Settings}
      BY <1>1, <3>2
    <3> QED
      BY <1>1, <3>1, <3>2
  <2>2. job.by <= begun /\ job.by \notin DOMAIN attempts
    BY DEF WriterInv
  <2>3. job.by # begun + 1 /\ job.by <= begun'
    BY <1>1, <2>1, <2>2
  <2> QED
    BY <2>2, <2>3
<1> QED
  BY <1>2, <1>3

LEMMA AttemptStepWriters ==
  ASSUME WorkInv, JobInv, WriterInv, AttemptStep
  PROVE  WriterInv'
<1>1. UNCHANGED <<finals, pending, threads, waiting, job>>
  BY DEF AttemptStep, disk
<1>2. /\ \A f \in OnTheirWay : f.group <= begun' /\ f.group \notin DOMAIN attempts'
      /\ job.by \notin DOMAIN attempts' /\ job.by <= begun'
  BY BehindAttempts DEF AttemptStep
<1>3. /\ exit' \in {"open", "closing", "drained", "ended"}
      /\ exit' = "ended" => exit = "ended"
  BY DEF AttemptStep, WriterInv
<1>4. OnTheirWay' = OnTheirWay /\ Counted' = Counted /\ Writing' = Writing
  BY <1>1 DEF OnTheirWay, Counted, Writing
<1>5. ExitWaitsForWriters'
  BY <1>1, <1>3 DEF WriterInv, ExitWaitsForWriters
<1> QED
  BY <1>1, <1>2, <1>3, <1>4, <1>5 DEF WriterInv

LEMMA TakeStepWriters ==
  ASSUME WorkInv, JobInv, WriterInv, TakeStep
  PROVE  WriterInv'
<1>1. PICK as, i : TakesFrom(as, i)
  BY DEF TakeStep
<1>2. /\ finals' = finals \/ \E new \in Saves : /\ finals' = finals \union {new}
                                                /\ new.group = i /\ new.step = "taken"
                                                /\ i \in DOMAIN as
      /\ \A j \in DOMAIN attempts' : j # i /\ j \in DOMAIN as
      /\ threads' \subseteq threads /\ UNCHANGED <<pending, waiting>>
  BY <1>1, TakeAdds
<1>3. /\ i \in Attempts /\ i <= begun' /\ begun' \in {begun, begun + 1}
      /\ \A j \in DOMAIN as : j \in DOMAIN attempts \/ j = begun + 1
      /\ UNCHANGED <<job, exit>>
  BY <1>1 DEF TakesFrom, TakeStep, disk
<1>4. /\ \A f \in OnTheirWay : f.group <= begun' /\ f.group \notin DOMAIN attempts'
      /\ job.by \notin DOMAIN attempts' /\ job.by <= begun'
  <2>1. \A j \in DOMAIN attempts' : j \in DOMAIN attempts \/ j = begun + 1
    BY <1>2, <1>3
  <2> QED
    BY <1>3, <2>1, BehindAttempts
<1>5. CASE finals' = finals
  <2>1. OnTheirWay' = OnTheirWay /\ Counted' = Counted /\ Writing' = Writing
    BY <1>2, <1>3, <1>5 DEF OnTheirWay, Counted, Writing
  <2>2. ExitWaitsForWriters'
    BY <1>2, <1>3, <1>5 DEF WriterInv, ExitWaitsForWriters
  <2> QED
    BY <1>2, <1>3, <1>4, <1>5, <2>1, <2>2 DEF WriterInv
<1>6. ASSUME NEW new \in Saves, finals' = finals \union {new}, new.group = i,
             new.step = "taken", i \in DOMAIN as
      PROVE  WriterInv'
  <2>1. \A f \in OnTheirWay : f.group # i
    <3>1. \A f \in OnTheirWay : f.group \in Nat /\ f.group <= begun
          /\ f.group \notin DOMAIN attempts
      BY WriterFacts DEF WriterInv
    <3>2. begun \in Nat /\ (i \in DOMAIN attempts \/ i = begun + 1)
      BY <1>3, <1>6, WriterFacts
    <3> QED
      BY <3>1, <3>2
  <2>2. job.by # i
    <3>1. job.by \in Int /\ job.by <= begun /\ job.by \notin DOMAIN attempts
      BY WriterFacts DEF WriterInv, Settings
    <3>2. begun \in Nat /\ (i \in DOMAIN attempts \/ i = begun + 1)
      BY <1>3, <1>6, WriterFacts
    <3> QED
      BY <3>1, <3>2
  <2>3. OnTheirWay' = OnTheirWay \union {new}
    BY <1>2, <1>6 DEF OnTheirWay
  <2>4. Counted' = Counted /\ Writing' = Writing
    BY <1>2, <1>3, <1>6 DEF Counted, Writing
  <2>5. ExitWaitsForWriters'
    BY <1>2, <1>3, <1>6 DEF WriterInv, ExitWaitsForWriters
  <2>6. IsFiniteSet(finals')
    BY <1>6, FS_AddElement DEF WriterInv
  <2>7. \A f \in OnTheirWay' :
          /\ f.group <= begun' /\ f.group \notin DOMAIN attempts' /\ f.group # job'.by
          /\ \A g \in OnTheirWay' : f.group = g.group => f = g
    <3>1. \A f \in OnTheirWay :
            /\ f.group # job.by
            /\ \A g \in OnTheirWay : f.group = g.group => f = g
      BY DEF WriterInv
    <3>2. i \notin DOMAIN attempts'
      BY <1>2
    <3> QED
      BY <1>3, <1>4, <1>6, <2>1, <2>2, <2>3, <3>1, <3>2
  <2>8. finals' \intersect waiting' = {}
    BY <1>2, <1>6 DEF WriterInv
  <2> QED
    BY <1>2, <1>3, <1>4, <2>4, <2>5, <2>6, <2>7, <2>8 DEF WriterInv
<1> QED
  BY <1>2, <1>5, <1>6

\* Recordings that are left on their way stay apart.
LEMMA StillApart ==
  ASSUME WriterInv, NEW by, UNCHANGED <<attempts, begun>>,
         OnTheirWay' \subseteq OnTheirWay, \A f \in OnTheirWay' : f.group # by
  PROVE  \A f \in OnTheirWay' :
           /\ f.group <= begun' /\ f.group \notin DOMAIN attempts' /\ f.group # by
           /\ \A g \in OnTheirWay' : f.group = g.group => f = g
  BY DEF WriterInv

LEMMA StartSaveWriters ==
  ASSUME WorkInv, JobInv, WriterInv, NEW w \in waiting, StartSave(w), UNCHANGED begun
  PROVE  WriterInv'
<1>1. /\ job = NoJob /\ waiting' = waiting \ {w}
      /\ UNCHANGED <<attempts, finals, threads, exit, begun>>
  BY DEF StartSave
<1>2. w \in Saves /\ w \in OnTheirWay /\ w \in Counted /\ w \notin finals
      /\ w.group \in Attempts
  BY WriterFacts DEF WriterInv, OnTheirWay, Counted
<1>3. Counted' = Counted \ {w} /\ OnTheirWay' = OnTheirWay \ {w}
  BY <1>1, <1>2 DEF Counted, OnTheirWay
<1>4. Cardinality(Counted') = Cardinality(Counted) - 1 /\ Cardinality(Counted) \in Nat
  BY <1>2, <1>3, WriterFacts, FS_RemoveElement
<1>5. Writing = 0 /\ pending = Cardinality(Counted)
  BY <1>1, <1>4, JobKinds DEF Writing, WriterInv, JobInv, JobOK
<1>6. IsFiniteSet(waiting') /\ IsFiniteSet(finals')
  BY <1>1, FS_RemoveElement DEF WriterInv
<1>7. Cardinality(Counted) > 0
  <2>1. Cardinality(Counted) # 0
    BY <1>2, WriterFacts, FS_EmptySet
  <2> QED
    BY <1>4, <2>1
<1>8. CASE job' = SaveJob(w) /\ UNCHANGED pending
  <2>1. job'.by = w.group /\ job'.late = w.late
    BY <1>2, <1>8, SaveBegins
  <2>2. Writing' = 1
    BY <1>2, <2>1 DEF Writing
  <2>3. pending' = Cardinality(Counted') + Writing'
    BY <1>4, <1>5, <1>8, <2>2
  <2>4. \A f \in OnTheirWay' : f.group # job'.by
    BY <1>2, <1>3, <2>1 DEF WriterInv
  <2>5. \A f \in OnTheirWay' :
          /\ f.group <= begun' /\ f.group \notin DOMAIN attempts' /\ f.group # job'.by
          /\ \A g \in OnTheirWay' : f.group = g.group => f = g
    BY <1>1, <1>3, <2>4, StillApart
  <2>6. job'.by \notin DOMAIN attempts' /\ job'.by <= begun' /\ job'.by # Settings
    BY <1>1, <1>2, <2>1, WriterFacts, JobKinds DEF WriterInv, JobInv, JobOK
  <2>7. ExitWaitsForWriters'
    BY <1>1, <2>1 DEF WriterInv, ExitWaitsForWriters
  <2> QED
    BY <1>1, <1>6, <2>3, <2>5, <2>6, <2>7 DEF WriterInv
<1>9. CASE WriterFinished /\ UNCHANGED job
  <2>1. Writing' = 0 /\ pending' = Cardinality(Counted') + Writing'
    BY <1>4, <1>5, <1>7, <1>9 DEF Writing, WriterFinished
  <2>2. \A f \in OnTheirWay' : f.group # job'.by
    BY <1>3, <1>9 DEF WriterInv
  <2>3. \A f \in OnTheirWay' :
          /\ f.group <= begun' /\ f.group \notin DOMAIN attempts' /\ f.group # job'.by
          /\ \A g \in OnTheirWay' : f.group = g.group => f = g
    BY <1>1, <1>3, <2>2, StillApart
  <2>4. ExitWaitsForWriters'
    BY <1>1, <1>9 DEF WriterInv, ExitWaitsForWriters
  <2> QED
    BY <1>1, <1>6, <1>9, <2>1, <2>3, <2>4 DEF WriterInv
<1> QED
  BY <1>8, <1>9 DEF StartSave

LEMMA ProceedsWriters ==
  ASSUME WorkInv, JobInv, WriterInv, Proceeds, UNCHANGED begun
  PROVE  WriterInv'
<1>1. /\ UNCHANGED <<attempts, finals, pending, threads, waiting, exit, begun>>
      /\ job'.by = job.by /\ job'.late = job.late /\ job # NoJob
  BY DEF Proceeds, GoesOn, memory
<1>2. OnTheirWay' = OnTheirWay /\ Counted' = Counted /\ Writing' = Writing
  BY <1>1 DEF OnTheirWay, Counted, Writing
<1>3. ExitWaitsForWriters'
  BY <1>1 DEF WriterInv, ExitWaitsForWriters
<1> QED
  BY <1>1, <1>2, <1>3 DEF WriterInv

LEMMA ReleasesWriters ==
  ASSUME WorkInv, JobInv, WriterInv, Releases, UNCHANGED begun
  PROVE  WriterInv'
<1>1. /\ UNCHANGED <<attempts, finals, threads, waiting, exit, begun>>
      /\ job' = NoJob /\ job # NoJob
      /\ IF job.by = Settings THEN UNCHANGED pending ELSE WriterFinished
  BY DEF Releases, Release
<1>2. OnTheirWay' = OnTheirWay /\ Counted' = Counted
  BY <1>1 DEF OnTheirWay, Counted
<1>3. /\ job'.by = 0 /\ 0 \notin Attempts /\ job.by \in Attempts \union {Settings}
      /\ Settings \notin Attempts /\ Settings # 0
  BY <1>1, JobKinds DEF JobInv, JobOK
<1>4. Writing' = 0 /\ Writing = IF job.by = Settings THEN 0 ELSE 1
  BY <1>3 DEF Writing
<1>5. pending' = Cardinality(Counted') + Writing'
  <2>1. pending = Cardinality(Counted) + Writing /\ Cardinality(Counted) \in Nat
    BY WriterFacts DEF WriterInv
  <2> QED
    BY <1>1, <1>2, <1>4, <2>1 DEF WriterFinished
<1>6. \A f \in OnTheirWay' : f.group # job'.by
  BY <1>2, <1>3, WriterFacts
<1>7. \A f \in OnTheirWay' :
        /\ f.group <= begun' /\ f.group \notin DOMAIN attempts' /\ f.group # job'.by
        /\ \A g \in OnTheirWay' : f.group = g.group => f = g
  BY <1>1, <1>2, <1>6, StillApart
<1>8. job'.by \notin DOMAIN attempts' /\ job'.by <= begun'
  <2>1. DOMAIN attempts \subseteq Attempts /\ begun \in Nat
    BY WriterFacts
  <2> QED
    BY <1>1, <1>3, <2>1
<1>9. ExitWaitsForWriters'
  BY <1>1 DEF WriterInv, ExitWaitsForWriters
<1> QED
  BY <1>1, <1>3, <1>5, <1>7, <1>8, <1>9 DEF WriterInv

LEMMA CountWriterWriters ==
  ASSUME WorkInv, JobInv, WriterInv, NEW f \in finals, CountWriter(f), UNCHANGED begun
  PROVE  WriterInv'
<1> DEFINE late == exit = "ended"
           g == [f EXCEPT !.step = "counted", !.late = late]
<1>1. /\ f.step = "taken" /\ pending' = pending + 1 /\ finals' = (finals \ {f}) \union {g}
      /\ UNCHANGED <<attempts, threads, waiting, job, exit, begun>>
  BY DEF CountWriter, disk
<1>2. f \in Saves /\ f \in OnTheirWay /\ late \in BOOLEAN
  BY WriterFacts DEF OnTheirWay
<1> HIDE DEF late
<1>3. g \in Saves /\ g.group = f.group /\ g.step = "counted" /\ g.late = late
  BY <1>2 DEF Saves
<1> HIDE DEF g
<1>4. \A h \in OnTheirWay : h.group = f.group => h = f
  BY <1>2 DEF WriterInv
<1>5. g \notin finals /\ g \notin waiting /\ g \notin Counted /\ f \notin waiting
  BY <1>1, <1>3, <1>4 DEF OnTheirWay, Counted, WriterInv
<1>6. /\ OnTheirWay' = (OnTheirWay \ {f}) \union {g} /\ Counted' = Counted \union {g}
      /\ Writing' = Writing
  BY <1>1, <1>3, <1>5 DEF OnTheirWay, Counted, Writing
<1>7. pending' = Cardinality(Counted') + Writing'
  <2>1. Cardinality(Counted') = Cardinality(Counted) + 1
    BY <1>5, <1>6, WriterFacts, FS_AddElement
  <2>2. /\ Cardinality(Counted) \in Nat /\ Writing \in {0, 1}
        /\ pending = Cardinality(Counted) + Writing
    BY WriterFacts DEF WriterInv
  <2> QED
    BY <1>1, <1>6, <2>1, <2>2
<1>8. IsFiniteSet(finals')
  <2>1. IsFiniteSet(finals \ {f})
    BY FS_RemoveElement DEF WriterInv
  <2> QED
    BY <1>1, <2>1, FS_AddElement
<1>9. \A h \in OnTheirWay' :
        /\ h.group <= begun' /\ h.group \notin DOMAIN attempts' /\ h.group # job'.by
        /\ \A k \in OnTheirWay' : h.group = k.group => h = k
  <2>1. \A h \in OnTheirWay :
          /\ h.group <= begun /\ h.group \notin DOMAIN attempts /\ h.group # job.by
          /\ \A k \in OnTheirWay : h.group = k.group => h = k
    BY DEF WriterInv
  <2>2. \A h \in OnTheirWay \ {f} : h.group # g.group
    BY <1>3, <1>4
  <2> QED
    BY <1>1, <1>2, <1>3, <1>6, <2>1, <2>2
<1>10. ExitWaitsForWriters'
  BY <1>1, <1>3 DEF WriterInv, ExitWaitsForWriters, late
<1>11. finals' \intersect waiting' = {}
  BY <1>1, <1>5 DEF WriterInv
<1> QED
  BY <1>1, <1>7, <1>8, <1>9, <1>10, <1>11 DEF WriterInv

LEMMA StartWriterWriters ==
  ASSUME WorkInv, JobInv, WriterInv, NEW f \in finals, StartWriter(f), UNCHANGED begun
  PROVE  WriterInv'
<1>1. /\ f.step = "counted" /\ finals' = finals \ {f}
      /\ UNCHANGED <<attempts, job, exit, begun>>
  BY DEF StartWriter, disk
<1>2. /\ f \in OnTheirWay /\ f \in Counted /\ f \notin waiting /\ IsFiniteSet(finals')
      /\ Writing' = Writing
  BY <1>1, FS_RemoveElement DEF OnTheirWay, Counted, WriterInv, Writing
<1>3. CASE /\ threads' = threads \union {[group |-> f.group, late |-> f.late]}
           /\ waiting' = waiting \union {f} /\ UNCHANGED pending
  <2>1. OnTheirWay' = OnTheirWay /\ Counted' = Counted
    BY <1>1, <1>2, <1>3 DEF OnTheirWay, Counted
  <2>2. IsFiniteSet(waiting')
    BY <1>3, FS_AddElement DEF WriterInv
  <2>3. ExitWaitsForWriters'
    BY <1>1, <1>3 DEF WriterInv, ExitWaitsForWriters
  <2>4. finals' \intersect waiting' = {} /\ \A g \in waiting' : g.step = "counted"
    BY <1>1, <1>3 DEF WriterInv
  <2> QED
    BY <1>1, <1>2, <1>3, <2>1, <2>2, <2>3, <2>4 DEF WriterInv
<1>4. CASE WriterFinished /\ UNCHANGED <<threads, waiting>>
  <2>1. OnTheirWay' = OnTheirWay \ {f} /\ Counted' = Counted \ {f}
    BY <1>1, <1>2, <1>4 DEF OnTheirWay, Counted
  <2>2. /\ Cardinality(Counted') = Cardinality(Counted) - 1 /\ Cardinality(Counted) \in Nat
        /\ Cardinality(Counted) # 0 /\ Writing \in {0, 1}
        /\ pending = Cardinality(Counted) + Writing
    BY <1>2, <2>1, WriterFacts, FS_RemoveElement, FS_EmptySet DEF WriterInv
  <2>3. pending' = Cardinality(Counted') + Writing'
    BY <1>2, <1>4, <2>2 DEF WriterFinished
  <2>4. ExitWaitsForWriters'
    BY <1>1, <1>4 DEF WriterInv, ExitWaitsForWriters
  <2>5. \A g \in OnTheirWay' : g.group # job.by
    BY <2>1 DEF WriterInv
  <2>6. \A g \in OnTheirWay' :
          /\ g.group <= begun' /\ g.group \notin DOMAIN attempts' /\ g.group # job.by
          /\ \A h \in OnTheirWay' : g.group = h.group => g = h
    BY <1>1, <2>1, <2>5, StillApart
  <2>7. finals' \intersect waiting' = {}
    BY <1>1, <1>4 DEF WriterInv
  <2> QED
    BY <1>1, <1>2, <1>4, <2>3, <2>4, <2>6, <2>7 DEF WriterInv
<1> QED
  BY <1>3, <1>4 DEF StartWriter

LEMMA WaitWriters ==
  ASSUME WorkInv, JobInv, WriterInv, WaitForPendingWrites, UNCHANGED begun
  PROVE  WriterInv'
<1>1. /\ pending = 0 /\ job.by # Settings /\ threads' = {} /\ exit' \in {"drained", "ended"}
      /\ UNCHANGED <<attempts, finals, pending, waiting, job, begun>>
  BY DEF WaitForPendingWrites, MainIsFree, disk
<1>2. Cardinality(Counted) = 0 /\ Writing = 0
  <2>1. /\ Cardinality(Counted) \in Nat /\ Writing \in {0, 1}
        /\ pending = Cardinality(Counted) + Writing
    BY WriterFacts DEF WriterInv
  <2> QED
    BY <1>1, <2>1
<1>3. Counted = {}
  BY <1>2, WriterFacts, FS_EmptySet
<1>4. job = NoJob
  BY <1>1, <1>2, WriterFacts DEF Writing
<1>5. OnTheirWay' = OnTheirWay /\ Counted' = Counted /\ Writing' = Writing
  BY <1>1 DEF OnTheirWay, Counted, Writing
<1>6. ExitWaitsForWriters'
  BY <1>1, <1>3, <1>4 DEF ExitWaitsForWriters, Counted
<1> QED
  BY <1>1, <1>5, <1>6 DEF WriterInv

LEMMA DeleteAllWriters ==
  ASSUME WorkInv, JobInv, WriterInv, DeleteManagedRecordings, UNCHANGED begun
  PROVE  WriterInv'
<1>1. /\ job = NoJob /\ exit = "open" /\ job' = SweepJob(Settings, FALSE, "all")
      /\ UNCHANGED <<attempts, finals, pending, threads, waiting, exit, begun>>
  BY DEF DeleteManagedRecordings, memory
<1>2. job'.by = Settings
  BY <1>1, SweepBegins
<1>3. OnTheirWay' = OnTheirWay /\ Counted' = Counted
  BY <1>1 DEF OnTheirWay, Counted
<1>4. Writing = 0 /\ Writing' = 0
  BY <1>1, <1>2, JobKinds DEF Writing, JobInv, JobOK
<1>5. \A f \in OnTheirWay' : f.group # job'.by
  BY <1>2, <1>3, WriterFacts, JobKinds DEF JobInv, JobOK
<1>6. \A f \in OnTheirWay' :
        /\ f.group <= begun' /\ f.group \notin DOMAIN attempts' /\ f.group # job'.by
        /\ \A g \in OnTheirWay' : f.group = g.group => f = g
  BY <1>1, <1>3, <1>5, StillApart
<1>7. job'.by \notin DOMAIN attempts' /\ job'.by <= begun'
  <2>1. begun \in Nat /\ DOMAIN attempts \subseteq Attempts /\ Settings \notin Attempts
    BY WriterFacts, JobKinds DEF JobInv, JobOK
  <2>2. Settings = -1 /\ -1 <= begun
    BY <2>1 DEF Settings
  <2> QED
    BY <1>1, <1>2, <2>1, <2>2
<1>8. ExitWaitsForWriters'
  BY <1>1 DEF ExitWaitsForWriters
<1> QED
  BY <1>1, <1>3, <1>4, <1>6, <1>7, <1>8 DEF WriterInv

LEMMA EmptyWriters ==
  ASSUME finals' = {}, waiting' = {}, pending' = 0, job' = NoJob, exit' = "open",
         attempts' = <<>>, begun' \in Nat
  PROVE  WriterInv'
<1>1. OnTheirWay' = {} /\ Counted' = {} /\ Writing' = 0
  BY DiagnosticsAssumption DEF OnTheirWay, Counted, Writing, NoJob
<1>2. Cardinality(Counted') = 0 /\ IsFiniteSet(finals') /\ IsFiniteSet(waiting')
  BY <1>1, FS_EmptySet
<1>3. job'.by = 0 /\ DOMAIN attempts' = {}
  BY DEF NoJob
<1>4. ExitWaitsForWriters' /\ job'.by # Settings
  BY <1>3 DEF ExitWaitsForWriters, Settings
<1> QED
  BY <1>1, <1>2, <1>3, <1>4 DEF WriterInv

LEMMA WriterNext ==
  ASSUME WorkInv, JobInv, WriterInv, [Next]_vars
  PROVE  WriterInv'
<1>1. CASE UNCHANGED vars
  BY <1>1, AttemptStepWriters
     DEF AttemptStep, vars, diagnosticVars, memory, disk, bounds, batch
<1>2. CASE AttemptStep
  BY <1>2, AttemptStepWriters
<1>3. CASE TakeStep
  BY <1>3, TakeStepWriters
<1>4. CASE Diagnose
  <2>1. UNCHANGED begun
    BY <1>4 DEF Diagnose, batch
  <2>2. CASE FinalizeStep
    BY <2>1, <2>2, CountWriterWriters, StartWriterWriters DEF FinalizeStep
  <2>3. CASE DayPasses
    <3>1. UNCHANGED <<finals, pending, threads, waiting, disk, begun, attempts, exit>>
      BY <2>1, <2>3 DEF DayPasses, memory
    <3>2. OnTheirWay' = OnTheirWay /\ Counted' = Counted /\ Writing' = Writing
      BY <3>1 DEF OnTheirWay, Counted, Writing, disk
    <3> QED
      BY <3>1, <3>2 DEF WriterInv, ExitWaitsForWriters, disk
  <2> QED
    BY <1>4, <2>1, <2>2, <2>3, JobSteps, StartSaveWriters, ProceedsWriters, ReleasesWriters,
       WaitWriters, DeleteAllWriters
<1>5. CASE EndOfProcess
  BY <1>5, EmptyWriters DEF EndOfProcess, ProcessEnds, WorkInv
<1> QED
  BY <1>1, <1>2, <1>3, <1>4, <1>5, StepKinds

---------------------------------------------------------------------------
(***************************************************************************)
(* The directory.                                                          *)
(***************************************************************************)

LEMMA WholeElsewhere ==
  ASSUME NEW fs, NEW gs, NEW g, WholeIn(fs, g),
         \A f : f.group = g => (f \in fs <=> f \in gs)
  PROVE  WholeIn(gs, g)
  BY DEF WholeIn

\* No file is of a recording that had none, but for the one that is saved.
LEMMA FilesKept ==
  ASSUME WorkInv, JobInv, WriterInv, FilesInv, UNCHANGED <<attempts, begun>>,
         \A g \in OnTheirWay' : \E h \in OnTheirWay : g.group = h.group,
         \A f \in files' :
           FileType(f) /\ (f.group = job.by \/ \E h \in files : f.group = h.group)
  PROVE  FilesInv'
<1>1. /\ job.by <= begun /\ job.by \notin DOMAIN attempts
      /\ \A g \in OnTheirWay : job.by # g.group
  BY DEF WriterInv
<1> QED
  BY <1>1 DEF FilesInv, FileType

LEMMA AttemptStepDisk ==
  ASSUME WorkInv, JobInv, WriterInv, DiskInv,
         UNCHANGED disk, begun' \in {begun, begun + 1},
         \A i \in DOMAIN attempts' : i \in DOMAIN attempts \/ i = begun + 1,
         \A g \in OnTheirWay' : \/ \E h \in OnTheirWay : g.group = h.group
                                \/ g.group \in DOMAIN attempts
                                \/ g.group = begun + 1
  PROVE  DiskInv'
<1>1. begun \in Nat /\ UNCHANGED <<files, job, torn>>
  BY DEF WorkInv, disk
<1>2. ASSUME NEW f \in files
      PROVE  /\ FileType(f) /\ f.group <= begun' /\ f.group \notin DOMAIN attempts'
             /\ \A g \in OnTheirWay' : f.group # g.group
  <2>1. /\ FileType(f) /\ f.group <= begun /\ f.group \notin DOMAIN attempts
        /\ \A g \in OnTheirWay : f.group # g.group
    BY DEF DiskInv, FilesInv
  <2>2. f.group \in Nat
    BY <2>1, DiagnosticsAssumption DEF FileType
  <2>3. f.group # begun + 1 /\ f.group <= begun'
    BY <1>1, <2>1, <2>2
  <2> QED
    BY <2>1, <2>3
<1>3. FilesInv'
  BY <1>1, <1>2 DEF FilesInv, FileType
<1>4. SaveInv' /\ VictimInv' /\ InWork' = InWork
  BY <1>1 DEF DiskInv, SaveInv, VictimInv, InWork
<1>5. \A g \in Attempts \ (torn' \union InWork') : WholeIn(files', g)
  BY <1>1, <1>4 DEF DiskInv
<1> QED
  BY <1>3, <1>4, <1>5 DEF DiskInv, WholeIn

LEMMA TakeStepDisk ==
  ASSUME WorkInv, JobInv, WriterInv, DiskInv, TakeStep
  PROVE  DiskInv'
<1>1. PICK as, i : TakesFrom(as, i)
  BY DEF TakeStep
<1>2. /\ finals' = finals \/ \E new \in Saves : /\ finals' = finals \union {new}
                                                /\ new.group = i /\ new.step = "taken"
                                                /\ i \in DOMAIN as
      /\ \A j \in DOMAIN attempts' : j # i /\ j \in DOMAIN as
      /\ UNCHANGED waiting
  BY <1>1, TakeAdds
<1>3. /\ begun' \in {begun, begun + 1} /\ UNCHANGED disk
      /\ \A j \in DOMAIN as : j \in DOMAIN attempts \/ j = begun + 1
  BY <1>1 DEF TakesFrom, TakeStep
<1>4. \A g \in OnTheirWay' : g \in OnTheirWay \/ (g.group = i /\ i \in DOMAIN as)
  BY <1>2 DEF OnTheirWay
<1> QED
  BY <1>2, <1>3, <1>4, AttemptStepDisk

\* What a step of the writers does not touch.
LEMMA SameFiles ==
  ASSUME WorkInv, JobInv, WriterInv, DiskInv, UNCHANGED <<attempts, begun, files, torn>>,
         \A g \in OnTheirWay' : \E h \in OnTheirWay : g.group = h.group,
         InWork \subseteq InWork', SaveInv', VictimInv'
  PROVE  DiskInv'
<1>1. FilesInv'
  BY FilesKept DEF DiskInv, FilesInv
<1>2. \A g \in Attempts \ (torn' \union InWork') : WholeIn(files', g)
  BY DEF DiskInv
<1> QED
  BY <1>1, <1>2 DEF DiskInv, WholeIn

LEMMA StartSaveDisk ==
  ASSUME WorkInv, JobInv, WriterInv, DiskInv, NEW w \in waiting, StartSave(w),
         UNCHANGED begun
  PROVE  DiskInv'
<1>1. /\ job = NoJob /\ waiting' = waiting \ {w}
      /\ UNCHANGED <<attempts, finals, files, torn, begun>>
      /\ w \in Saves /\ w \in OnTheirWay
  BY WriterFacts DEF StartSave, OnTheirWay
<1>2. \A g \in OnTheirWay' : \E h \in OnTheirWay : g.group = h.group
  BY <1>1 DEF OnTheirWay
<1>3. InWork = {}
  BY <1>1 DEF InWork, NoJob
<1>4. CASE job' = SaveJob(w)
  <2>1. job'.by = w.group /\ job'.step = "temp" /\ job'.committed = {}
    BY <1>1, <1>4, SaveBegins
  <2>2. \A f \in files : f.group # w.group
    BY <1>1 DEF DiskInv, FilesInv
  <2>3. SaveInv' /\ VictimInv'
    BY <1>1, <2>1, <2>2 DEF SaveInv, VictimInv
  <2> QED
    BY <1>1, <1>2, <1>3, <2>3, SameFiles
<1>5. CASE UNCHANGED job
  <2>1. SaveInv' /\ VictimInv'
    BY <1>1, <1>5 DEF SaveInv, VictimInv, NoJob
  <2> QED
    BY <1>1, <1>2, <1>3, <2>1, SameFiles
<1> QED
  BY <1>4, <1>5 DEF StartSave

\* Nothing of the other recordings changes.
LEMMA OneGroup ==
  ASSUME WorkInv, JobInv, WriterInv, DiskInv, UNCHANGED <<memory, begun>>, NEW group,
         \A f \in files' :
         FileType(f) /\ (f.group = job.by \/ \E h \in files : f.group = h.group),
         \A f : f.group # group => (f \in files <=> f \in files'),
         InWork = {group}, torn \subseteq torn', SaveInv', VictimInv',
         group \in Attempts \ (torn' \union InWork') => WholeIn(files', group)
  PROVE  DiskInv'
<1>1. OnTheirWay' = OnTheirWay /\ UNCHANGED attempts
  BY DEF OnTheirWay, memory
<1>2. FilesInv'
  BY <1>1, FilesKept DEF DiskInv
<1>3. ASSUME NEW g \in Attempts \ (torn' \union InWork')
      PROVE  WholeIn(files', g)
  <2>1. CASE g = group
    BY <1>3, <2>1
  <2>2. CASE g # group
    <3>1. WholeIn(files, g)
      BY <1>3, <2>2 DEF DiskInv
    <3> QED
      BY <2>2, <3>1, WholeElsewhere
  <2> QED
    BY <2>1, <2>2
<1> QED
  BY <1>2, <1>3 DEF DiskInv, WholeIn

LEMMA WriteTempDisk ==
  ASSUME WorkInv, JobInv, WriterInv, DiskInv, WriteTemp, UNCHANGED begun
  PROVE  DiskInv'
<1>1. /\ job.step = "temp" /\ job \in SaveJobs /\ ToDo(job) /\ InWork = {job.by}
      /\ UNCHANGED <<memory, torn>>
  BY JobKinds DEF JobInv, JobOK, WriteTemp, InWork
<1>2. /\ job' \in SaveJobs /\ job'.by = job.by /\ job'.committed = job.committed
      /\ job'.audio = job.audio /\ job'.todo = job.todo
  BY WriteTempJob DEF GoesOn
<1> DEFINE lists == IF Head(job.todo) = "json" THEN job.audio ELSE {}
           new == FileOf(job.by, Head(job.todo), TRUE, lists)
<1>3. CASE files' = files \union {new} /\ job' = [job EXCEPT !.step = "rename"]
  <2>1. /\ Head(job.todo) \in Parts \union {"json"} /\ lists \subseteq Parts
        /\ job.by \in Attempts
    <3>1. job.todo \in Seq(Parts \union {"json"}) /\ job.todo # <<>>
          /\ job.audio \subseteq Parts
          /\ job.by \in Attempts
      BY <1>1 DEF SaveJobs, ToDo
    <3> QED
      BY <3>1, HeadTailProperties
  <2>2. job'.step = "rename"
    BY <1>1, <1>3 DEF SaveJobs
  <2> HIDE DEF lists
  <2>3. /\ FileType(new) /\ new.group = job.by /\ new.tmp = TRUE
        /\ new.part = Head(job.todo) /\ new.lists = lists
    BY <2>1 DEF FileOf, FileType
  <2> HIDE DEF new
  <2>4. \A f \in files : f.group = job.by => ~f.tmp
    BY <1>1 DEF DiskInv, SaveInv
  <2>5. \A p \in Parts \union {"json"} :
          p \in job.committed <=> \E f \in files : f.group = job.by /\ ~f.tmp /\ f.part = p
    BY <1>1 DEF DiskInv, SaveInv
  <2>6. \A p \in Parts \union {"json"} :
          p \in job.committed <=> \E f \in files' : f.group = job.by /\ ~f.tmp /\ f.part = p
    BY <1>3, <2>3, <2>5
  <2>7. \A f \in files' : f.group = job.by /\ f.tmp => f = new
    BY <1>3, <2>4
  <2>8. SaveInv'
    BY <1>2, <1>3, <2>2, <2>3, <2>6, <2>7 DEF SaveInv, lists
  <2>9. VictimInv' /\ InWork' = {job.by}
    BY <1>2, <2>2 DEF VictimInv, InWork
  <2>10. \A f \in files' :
         FileType(f) /\ (f.group = job.by \/ \E h \in files : f.group = h.group)
    BY <1>3, <2>3 DEF DiskInv, FilesInv
  <2>11. \A f : f.group # job.by => (f \in files <=> f \in files')
    BY <1>3, <2>3
  <2> QED
    BY <1>1, <2>8, <2>9, <2>10, <2>11, OneGroup
<1>4. CASE files' = files /\ job' = [job EXCEPT !.step = "undo"]
  <2>1. job'.step = "undo"
    BY <1>1, <1>4 DEF SaveJobs
  <2>2. SaveInv' /\ VictimInv' /\ InWork' = InWork
    BY <1>1, <1>2, <2>1 DEF SaveInv, VictimInv, InWork
  <2>3. \A g \in OnTheirWay' : \E h \in OnTheirWay : g.group = h.group
    BY <1>1 DEF OnTheirWay, memory
  <2> QED
    BY <1>1, <1>4, <2>2, <2>3, SameFiles DEF memory
<1> QED
  BY <1>3, <1>4 DEF WriteTemp

LEMMA RenameTempDisk ==
  ASSUME WorkInv, JobInv, WriterInv, DiskInv, RenameTemp, UNCHANGED begun
  PROVE  DiskInv'
<1> DEFINE temp == {f \in OnDisk(job.by) : f.tmp}
           named == {[f EXCEPT !.tmp = FALSE] : f \in temp}
           first == Head(job.todo)
<1>1. /\ job.step = "rename" /\ job \in SaveJobs /\ ToDo(job) /\ InWork = {job.by}
      /\ UNCHANGED <<memory, torn>>
  BY JobKinds DEF JobInv, JobOK, RenameTemp, InWork
<1>2. /\ JobType(job') /\ job'.by = job.by
      /\ job'.step = "temp" => /\ job' \in SaveJobs /\ job'.audio = job.audio
                               /\ job'.committed = job.committed \union {first}
  BY RenameTempJob DEF GoesOn, JobOK
<1>3. /\ \A p \in Parts \union {"json"} :
           p \in job.committed <=> \E f \in files : f.group = job.by /\ ~f.tmp /\ f.part = p
      /\ \A f \in temp : /\ f.part = first
                         /\ f.lists = IF f.part = "json" THEN job.audio ELSE {}
      /\ temp # {}
  BY <1>1 DEF DiskInv, SaveInv, OnDisk
<1>4. \A f \in temp : f \in files /\ f.group = job.by /\ f.tmp /\ FileType(f)
  BY DEF OnDisk, DiskInv, FilesInv
<1>5. \A f \in files : f.group = job.by /\ f.tmp => f \in temp
  BY DEF OnDisk
<1>6. /\ \A f \in named : /\ FileType(f) /\ f.group = job.by /\ ~f.tmp /\ f.part = first
                          /\ f.lists = IF f.part = "json" THEN job.audio ELSE {}
      /\ named # {}
  <2>1. ASSUME NEW f \in temp
        PROVE  LET n == [f EXCEPT !.tmp = FALSE]
               IN  /\ FileType(n) /\ n.group = job.by /\ ~n.tmp /\ n.part = first
                   /\ n.lists = IF n.part = "json" THEN job.audio ELSE {}
    <3> DEFINE n == [f EXCEPT !.tmp = FALSE]
    <3>1. FileType(f) /\ f.group = job.by
      BY <1>4
    <3>2. /\ f.part = first
          /\ f.lists = IF f.part = "json" THEN job.audio ELSE {}
      BY <1>3
    <3> HIDE DEF first, temp
    <3>3. /\ FileType(n) /\ n.group = f.group /\ ~n.tmp /\ n.part = f.part
          /\ n.lists = f.lists
      BY <3>1 DEF FileType
    <3> HIDE DEF n
    <3>4. /\ FileType(n) /\ n.group = job.by /\ ~n.tmp /\ n.part = first
          /\ n.lists = IF n.part = "json" THEN job.audio ELSE {}
      BY <3>1, <3>2, <3>3
    <3> QED
      BY <3>4 DEF n
  <2>2. \A f \in named : \E g \in temp : f = [g EXCEPT !.tmp = FALSE]
    OBVIOUS
  <2>3. named # {}
    <3>1. PICK g : g \in temp
      BY <1>3
    <3>2. [g EXCEPT !.tmp = FALSE] \in named
      BY <3>1
    <3> QED
      BY <3>2
  <2>4. ASSUME NEW f \in named
        PROVE  /\ FileType(f) /\ f.group = job.by /\ ~f.tmp /\ f.part = first
               /\ f.lists = IF f.part = "json" THEN job.audio ELSE {}
    <3>1. PICK g \in temp : f = [g EXCEPT !.tmp = FALSE]
      BY <2>2
    <3> HIDE DEF temp, named, first
    <3> QED
      BY <2>1, <3>1
  <2> HIDE DEF temp, named, first
  <2> QED
    BY <2>3, <2>4
<1>7. first \in Parts \union {"json"}
  <2>1. job.todo \in Seq(Parts \union {"json"}) /\ job.todo # <<>>
    BY <1>1 DEF SaveJobs, ToDo
  <2> QED
    BY <2>1, HeadTailProperties
<1>8. CASE /\ files' = (files \ temp) \union named
           /\ job' = IF first = "json"
                     THEN [by |-> job.by, late |-> job.late, step |-> "clean"]
                     ELSE [job EXCEPT !.step = "temp", !.todo = Tail(@),
                                      !.committed = @ \union {first}]
  <2> HIDE DEF temp, named
  <2>1. \A f \in files' :
        FileType(f) /\ (f.group = job.by \/ \E h \in files : f.group = h.group)
    BY <1>6, <1>8 DEF DiskInv, FilesInv
  <2>2. \A f : f.group # job.by => (f \in files <=> f \in files')
    BY <1>4, <1>6, <1>8
  <2>3. \A f \in files' : f.group = job.by => ~f.tmp
    BY <1>5, <1>6, <1>8
  <2>4. \A p \in Parts \union {"json"} :
          (\E f \in files' : f.group = job.by /\ ~f.tmp /\ f.part = p)
            <=> p \in job.committed \union {first}
    <3> HIDE DEF first
    <3>1. ASSUME NEW p \in Parts \union {"json"}, p \in job.committed
          PROVE  \E f \in files' : f.group = job.by /\ ~f.tmp /\ f.part = p
      <4>1. PICK f \in files : f.group = job.by /\ ~f.tmp /\ f.part = p
        BY <1>3, <3>1
      <4>2. f \in files'
        BY <1>4, <1>8, <4>1
      <4> QED
        BY <4>1, <4>2
    <3>2. \E f \in files' : f.group = job.by /\ ~f.tmp /\ f.part = first
      BY <1>6, <1>8
    <3>3. ASSUME NEW f \in files', f.group = job.by, ~f.tmp,
                 NEW p \in Parts \union {"json"}, f.part = p
          PROVE  p \in job.committed \union {first}
      <4>1. CASE f \in files
        BY <1>3, <3>3, <4>1
      <4>2. CASE f \in named
        BY <1>6, <3>3, <4>2
      <4> QED
        BY <1>8, <4>1, <4>2
    <3> QED
      BY <3>1, <3>2, <3>3
  <2>5. CASE first = "json"
    <3>1. job'.step = "clean"
      BY <1>8, <2>5
    <3>2. SaveInv' /\ VictimInv'
      BY <3>1 DEF SaveInv, VictimInv
    <3>3. job.audio = job.committed /\ "json" \notin Parts
      <4>1. /\ Len(job.todo) \in Nat /\ Len(job.todo) > 0 /\ first = job.todo[1]
            /\ \A k \in 1 .. Len(job.todo) : job.todo[k] = "json" <=> k = Len(job.todo)
            /\ job.audio = job.committed \union {job.todo[k] : k \in 1 .. Len(job.todo) - 1}
        BY <1>1 DEF ToDo, SaveJobs
      <4>2. Len(job.todo) = 1
        <5>1. 1 \in 1 .. Len(job.todo) /\ job.todo[1] = "json"
          BY <2>5, <4>1
        <5> QED
          BY <4>1, <5>1
      <4>3. 1 .. Len(job.todo) - 1 = {}
        BY <4>2
      <4> HIDE DEF first
      <4> QED
        BY <4>1, <4>3 DEF Parts
    <3>4. \E m \in files' : m.group = job.by /\ m.part = "json" /\ m.lists = job.audio
      BY <1>6, <1>8, <2>5
    <3>5. \A p \in Parts :
            p \in job.audio <=> \E f \in files' : f.group = job.by /\ f.part = p
      BY <2>3, <2>4, <2>5, <3>3
    <3>6. WholeIn(files', job.by)
      BY <2>3, <3>4, <3>5 DEF WholeIn
    <3> QED
      BY <1>1, <2>1, <2>2, <3>2, <3>6, OneGroup
  <2>6. CASE first # "json"
    <3>1. job'.step = "temp"
      <4>1. job' = [job EXCEPT !.step = "temp", !.todo = Tail(@),
                                !.committed = @ \union {first}]
        BY <1>8, <2>6
      <4> HIDE DEF first
      <4> QED
        BY <1>1, <4>1 DEF SaveJobs
    <3>2. SaveInv'
      <4> HIDE DEF first
      <4> QED
        BY <1>2, <2>3, <2>4, <3>1 DEF SaveInv
    <3>3. VictimInv' /\ InWork' = {job.by}
      BY <1>2, <3>1 DEF VictimInv, InWork
    <3> QED
      BY <1>1, <2>1, <2>2, <3>2, <3>3, OneGroup
  <2> QED
    BY <2>5, <2>6
<1>9. CASE files' = files \ temp /\ job' = [job EXCEPT !.step = "undo"]
  <2>1. job'.step = "undo"
    BY <1>1, <1>9 DEF SaveJobs
  <2>2. SaveInv' /\ VictimInv' /\ InWork' = {job.by}
    BY <1>2, <2>1 DEF SaveInv, VictimInv, InWork
  <2> HIDE DEF temp
  <2>3. \A f \in files' :
        FileType(f) /\ (f.group = job.by \/ \E h \in files : f.group = h.group)
    BY <1>9 DEF DiskInv, FilesInv
  <2>4. \A f : f.group # job.by => (f \in files <=> f \in files')
    BY <1>4, <1>9
  <2> QED
    BY <1>1, <2>2, <2>3, <2>4, OneGroup
<1> QED
  BY <1>8, <1>9 DEF RenameTemp

LEMMA ReleaseInWork ==
  ASSUME job' = NoJob
  PROVE  InWork' = {} /\ SaveInv' /\ VictimInv'
  BY DEF NoJob, InWork, SaveInv, VictimInv

LEMMA UndoSaveDisk ==
  ASSUME WorkInv, JobInv, WriterInv, DiskInv, UndoSave, UNCHANGED begun
  PROVE  DiskInv'
<1>1. /\ job.step = "undo" /\ InWork = {job.by} /\ job' = NoJob
      /\ UNCHANGED <<attempts, finals, waiting>>
  BY DEF UndoSave, Release, InWork
<1>2. PICK kept \in SUBSET {f \in OnDisk(job.by) : f.part \in job.committed} :
        /\ files' = files \ (OnDisk(job.by) \ kept)
        /\ IF kept = {} THEN UNCHANGED torn ELSE torn' = torn \union {job.by}
  BY DEF UndoSave
<1>3. InWork' = {} /\ SaveInv' /\ VictimInv'
  BY <1>1, ReleaseInWork
<1>4. \A f \in files' : f \in files
  BY <1>2
<1>5. \A f : f.group # job.by => (f \in files <=> f \in files')
  BY <1>2 DEF OnDisk
<1>6. job.by \in torn' \/ \A f \in files' : f.group # job.by
  BY <1>2 DEF OnDisk
<1>7. OnTheirWay' = OnTheirWay
  BY <1>1 DEF OnTheirWay
<1>8. FilesInv'
  BY <1>1, <1>4, <1>7, FilesKept DEF DiskInv, FilesInv
<1>9. ASSUME NEW g \in Attempts \ (torn' \union InWork')
      PROVE  WholeIn(files', g)
  <2>1. CASE g = job.by
    BY <1>6, <1>9, <2>1 DEF WholeIn
  <2>2. CASE g # job.by
    <3>1. WholeIn(files, g)
      BY <1>1, <1>2, <1>9, <2>2 DEF DiskInv
    <3> QED
      BY <1>5, <2>2, <3>1, WholeElsewhere
  <2> QED
    BY <2>1, <2>2
<1> QED
  BY <1>3, <1>8, <1>9 DEF DiskInv, WholeIn

LEMMA CleanupDisk ==
  ASSUME WorkInv, JobInv, WriterInv, DiskInv, CleanupOldManagedTemps, UNCHANGED begun
  PROVE  DiskInv'
<1>1. /\ job.step = "clean" /\ InWork = {} /\ UNCHANGED <<memory, torn>>
      /\ files' = {f \in files : f.tmp => day - f.day <= 1}
  BY DEF CleanupOldManagedTemps, InWork
<1>2. job'.step = "pick"
  BY CleanupJob
<1>3. SaveInv' /\ VictimInv' /\ InWork' = {}
  BY <1>2 DEF SaveInv, VictimInv, InWork
<1>4. OnTheirWay' = OnTheirWay
  BY <1>1 DEF OnTheirWay, memory
<1>5. FilesInv'
  BY <1>1, <1>4, FilesKept DEF DiskInv, FilesInv, memory
<1>6. ASSUME NEW g \in Attempts \ (torn' \union InWork')
      PROVE  WholeIn(files', g)
  <2>1. WholeIn(files, g)
    BY <1>1, <1>6 DEF DiskInv
  <2>2. \A f \in files' : f \in files
    BY <1>1
  <2>3. CASE \A f \in files : f.group # g
    BY <2>2, <2>3 DEF WholeIn
  <2>4. CASE \A f \in files : f.group = g => ~f.tmp
    <3>1. \A f : f.group = g => (f \in files <=> f \in files')
      BY <1>1, <2>4
    <3> QED
      BY <2>1, <3>1, WholeElsewhere
  <2> QED
    BY <2>1, <2>3, <2>4 DEF WholeIn
<1> QED
  BY <1>3, <1>5, <1>6 DEF DiskInv, WholeIn

LEMMA PickGroupDisk ==
  ASSUME WorkInv, JobInv, WriterInv, DiskInv, PickGroup, UNCHANGED begun
  PROVE  DiskInv'
<1>1. job.step = "pick" /\ InWork = {} /\ UNCHANGED <<memory, files, torn>>
  BY DEF PickGroup, InWork
<1>2. job'.step = "audio"
  BY PickGroupJob
<1>3. SaveInv'
  BY <1>2 DEF SaveInv
<1>4. VictimInv'
  <2>1. \A g \in Attempts \ torn : WholeIn(files, g)
    BY <1>1 DEF DiskInv
  <2> QED
    BY <1>1, <1>2, <2>1 DEF VictimInv, WholeIn
<1>5. \A g \in OnTheirWay' : \E h \in OnTheirWay : g.group = h.group
  BY <1>1 DEF OnTheirWay, memory
<1> QED
  BY <1>1, <1>3, <1>4, <1>5, SameFiles DEF memory

\* The sweep looks on, or is over.
LEMMA NextPassDisk ==
  ASSUME WorkInv, JobInv, WriterInv, DiskInv, NextPass \/ EndSweep, UNCHANGED begun
  PROVE  DiskInv'
<1>1. job.step = "pick" /\ InWork = {}
      /\ UNCHANGED <<attempts, finals, waiting, files, torn>>
  BY DEF NextPass, EndSweep, InWork, memory
<1>2. job'.step = "pick" \/ job' = NoJob
  BY NextPassJob DEF EndSweep, Release
<1>3. SaveInv' /\ VictimInv'
  BY <1>2, ReleaseInWork DEF SaveInv, VictimInv
<1>4. \A g \in OnTheirWay' : \E h \in OnTheirWay : g.group = h.group
  BY <1>1 DEF OnTheirWay
<1> QED
  BY <1>1, <1>3, <1>4, SameFiles

LEMMA DeleteAudioDisk ==
  ASSUME WorkInv, JobInv, WriterInv, DiskInv, DeleteAudio, UNCHANGED begun
  PROVE  DiskInv'
<1>1. job.step = "audio" /\ InWork = {job.victim} /\ UNCHANGED memory
  BY DEF DeleteAudio, InWork
<1>2. PICK kept \in SUBSET Audio(OnDisk(job.victim)) :
        /\ files' = files \ (Audio(OnDisk(job.victim)) \ kept)
        /\ IF kept = {} THEN UNCHANGED torn ELSE torn' = torn \union {job.victim}
  BY DEF DeleteAudio
<1>3. job'.step = "manifest" /\ job'.victim = job.victim
  BY DeleteAudioJob
<1>4. SaveInv' /\ InWork' = {job.victim}
  BY <1>3 DEF SaveInv, InWork
<1>5. VictimInv'
  <2> SUFFICES ASSUME job.victim \in Attempts \ torn',
                      NEW f \in files', f.group = job.victim
               PROVE  ~f.tmp /\ f.part = "json"
    BY <1>3 DEF VictimInv
  <2>1. kept = {} /\ torn' = torn
    BY <1>2
  <2>2. f \in files /\ ~f.tmp
    BY <1>1, <1>2, <2>1 DEF DiskInv, VictimInv
  <2>3. f \notin Audio(OnDisk(job.victim))
    BY <1>2, <2>1
  <2> QED
    BY <2>2, <2>3 DEF Audio, OnDisk
<1>6. \A f \in files' :
      FileType(f) /\ (f.group = job.by \/ \E h \in files : f.group = h.group)
  BY <1>2 DEF DiskInv, FilesInv
<1>7. \A f : f.group # job.victim => (f \in files <=> f \in files')
  BY <1>2 DEF Audio, OnDisk
<1>8. torn \subseteq torn'
  BY <1>2
<1> QED
  BY <1>1, <1>4, <1>5, <1>6, <1>7, <1>8, OneGroup

LEMMA DeleteManifestDisk ==
  ASSUME WorkInv, JobInv, WriterInv, DiskInv, DeleteManifest, UNCHANGED begun
  PROVE  DiskInv'
<1>1. job.step = "manifest" /\ InWork = {job.victim} /\ UNCHANGED memory
  BY DEF DeleteManifest, InWork
<1>2. job'.step = "pick"
  BY DeleteManifestJob
<1>3. SaveInv' /\ VictimInv' /\ InWork' = {}
  BY <1>2 DEF SaveInv, VictimInv, InWork
<1>4. CASE files' = files \ Manifests(OnDisk(job.victim)) /\ torn' = torn
  <2>1. \A f \in files' :
        FileType(f) /\ (f.group = job.by \/ \E h \in files : f.group = h.group)
    BY <1>4 DEF DiskInv, FilesInv
  <2>2. \A f : f.group # job.victim => (f \in files <=> f \in files')
    BY <1>4 DEF Manifests, OnDisk
  <2>3. job.victim \in Attempts \ torn => \A f \in files' : f.group # job.victim
    <3> SUFFICES ASSUME job.victim \in Attempts \ torn, NEW f \in files',
                        f.group = job.victim
                 PROVE  FALSE
      OBVIOUS
    <3>1. f \in files /\ ~f.tmp /\ f.part = "json"
      BY <1>1, <1>4 DEF DiskInv, VictimInv
    <3>2. f \in Manifests(OnDisk(job.victim))
      BY <3>1 DEF Manifests, OnDisk
    <3> QED
      BY <1>4, <3>2
  <2>4. job.victim \in Attempts \ (torn' \union InWork') => WholeIn(files', job.victim)
    BY <1>4, <2>3 DEF WholeIn
  <2> QED
    BY <1>1, <1>3, <1>4, <2>1, <2>2, <2>4, OneGroup
<1>5. CASE torn' = torn \union {job.victim} /\ files' = files
  <2>1. \A f \in files' :
        FileType(f) /\ (f.group = job.by \/ \E h \in files : f.group = h.group)
    BY <1>5 DEF DiskInv, FilesInv
  <2> QED
    BY <1>1, <1>3, <1>5, <2>1, OneGroup
<1> QED
  BY <1>4, <1>5 DEF DeleteManifest

LEMMA FinalizeDisk ==
  ASSUME WorkInv, JobInv, WriterInv, DiskInv, FinalizeStep, UNCHANGED begun
  PROVE  DiskInv'
<1>1. PICK f \in finals : CountWriter(f) \/ StartWriter(f)
  BY DEF FinalizeStep
<1>2. UNCHANGED <<attempts, files, torn, job>>
  BY <1>1 DEF CountWriter, StartWriter, disk
<1>3. f \in Saves /\ f \in OnTheirWay
  BY WriterFacts DEF OnTheirWay
<1>4. \A g \in OnTheirWay' : \E h \in OnTheirWay : g.group = h.group
  <2>1. CASE CountWriter(f)
    <3> DEFINE late == exit = "ended"
               n == [f EXCEPT !.step = "counted", !.late = late]
    <3>1. finals' = (finals \ {f}) \union {n} /\ waiting' = waiting
      BY <2>1 DEF CountWriter
    <3> HIDE DEF late
    <3>2. n.group = f.group
      BY <1>3 DEF Saves
    <3> HIDE DEF n
    <3> QED
      BY <1>3, <3>1, <3>2 DEF OnTheirWay
  <2>2. CASE StartWriter(f)
    BY <1>3, <2>2 DEF StartWriter, OnTheirWay
  <2> QED
    BY <1>1, <2>1, <2>2
<1>5. SaveInv' /\ VictimInv' /\ InWork' = InWork
  BY <1>2 DEF DiskInv, SaveInv, VictimInv, InWork
<1> QED
  BY <1>2, <1>4, <1>5, SameFiles

LEMMA DeleteAllDisk ==
  ASSUME WorkInv, JobInv, WriterInv, DiskInv, DeleteManagedRecordings, UNCHANGED begun
  PROVE  DiskInv'
<1>1. job = NoJob /\ job' = SweepJob(Settings, FALSE, "all")
      /\ UNCHANGED <<memory, files, torn>>
  BY DEF DeleteManagedRecordings
<1>2. job'.step = "pick"
  BY <1>1 DEF SweepJob
<1>3. SaveInv' /\ VictimInv'
  BY <1>2 DEF SaveInv, VictimInv
<1>4. InWork = {}
  BY <1>1 DEF NoJob, InWork
<1>5. \A g \in OnTheirWay' : \E h \in OnTheirWay : g.group = h.group
  BY <1>1 DEF OnTheirWay, memory
<1> QED
  BY <1>1, <1>3, <1>4, <1>5, SameFiles DEF memory

\* The wait for the writers, and the clock.
LEMMA WaitDisk ==
  ASSUME WorkInv, JobInv, WriterInv, DiskInv, WaitForPendingWrites \/ DayPasses,
         UNCHANGED begun
  PROVE  DiskInv'
<1>1. UNCHANGED <<attempts, finals, waiting, files, torn, job>>
  BY DEF WaitForPendingWrites, DayPasses, memory, disk
<1>2. SaveInv' /\ VictimInv' /\ InWork' = InWork
  BY <1>1 DEF DiskInv, SaveInv, VictimInv, InWork
<1>3. \A g \in OnTheirWay' : \E h \in OnTheirWay : g.group = h.group
  BY <1>1 DEF OnTheirWay
<1> QED
  BY <1>1, <1>2, <1>3, SameFiles

LEMMA EndOfProcessDisk ==
  ASSUME DiskInv, EndOfProcess
  PROVE  DiskInv'
<1>1. /\ attempts' = <<>> /\ finals' = {} /\ waiting' = {} /\ job' = NoJob
      /\ torn' = torn \union InWork /\ UNCHANGED <<files, begun>>
  BY DEF EndOfProcess, ProcessEnds
<1>2. InWork' = {} /\ SaveInv' /\ VictimInv'
  BY <1>1, ReleaseInWork
<1>3. OnTheirWay' = {} /\ DOMAIN attempts' = {}
  BY <1>1 DEF OnTheirWay
<1>4. FilesInv'
  BY <1>1, <1>3 DEF DiskInv, FilesInv, FileType
<1>5. \A g \in Attempts \ (torn' \union InWork') : WholeIn(files', g)
  BY <1>1, <1>2 DEF DiskInv
<1> QED
  BY <1>2, <1>4, <1>5 DEF DiskInv, WholeIn

LEMMA DiskNext ==
  ASSUME WorkInv, JobInv, WriterInv, DiskInv, [Next]_vars
  PROVE  DiskInv'
<1>1. CASE UNCHANGED vars \/ AttemptStep
  <2>1. /\ UNCHANGED <<finals, waiting, disk>> /\ begun' \in {begun, begun + 1}
        /\ \A i \in DOMAIN attempts' : i \in DOMAIN attempts \/ i = begun + 1
    BY <1>1 DEF AttemptStep, vars, diagnosticVars, memory, batch
  <2>2. OnTheirWay' = OnTheirWay
    BY <2>1 DEF OnTheirWay
  <2> QED
    BY <2>1, <2>2, AttemptStepDisk
<1>2. CASE Diagnose
  <2>1. UNCHANGED begun
    BY <1>2 DEF Diagnose, batch
  <2> QED
    BY <1>2, <2>1, StartSaveDisk, WriteTempDisk, RenameTempDisk, UndoSaveDisk, CleanupDisk,
       PickGroupDisk, NextPassDisk, DeleteAudioDisk, DeleteManifestDisk, FinalizeDisk,
       DeleteAllDisk, WaitDisk DEF Diagnose, WriterStep
<1> QED
  BY <1>1, <1>2, TakeStepDisk, EndOfProcessDisk, StepKinds

---------------------------------------------------------------------------
(***************************************************************************)
(* The theorems.                                                           *)
(***************************************************************************)

LEMMA InitInv ==
  ASSUME Init
  PROVE  Inv
<1>1. /\ attempts = <<>> /\ finals = {} /\ pending = 0 /\ waiting = {} /\ job = NoJob
      /\ files = {} /\ exit = "open" /\ torn = {} /\ begun = 0
  BY DEF Init, DiagnosticsInit
<1>2. JobInv
  BY <1>1, NoJobOK DEF JobInv
<1>3. OnTheirWay = {} /\ Counted = {} /\ Writing = 0 /\ job.by = 0 /\ job.step = "none"
  BY <1>1, DiagnosticsAssumption DEF OnTheirWay, Counted, Writing, NoJob
<1>4. WriterInv
  <2>1. Cardinality(Counted) = 0 /\ IsFiniteSet(finals) /\ IsFiniteSet(waiting)
    BY <1>1, <1>3, FS_EmptySet
  <2>2. DOMAIN attempts = {}
    BY <1>1
  <2> QED
    BY <1>1, <1>3, <2>1, <2>2 DEF WriterInv, ExitWaitsForWriters, Settings
<1>5. DiskInv
  BY <1>1, <1>3 DEF DiskInv, FilesInv, SaveInv, VictimInv, WholeIn
<1> QED
  BY <1>2, <1>4, <1>5, WorkInit DEF Inv

LEMMA NextInv ==
  ASSUME Inv, [Next]_vars
  PROVE  Inv'
<1>1. WorkInv /\ JobInv /\ WriterInv /\ DiskInv
  BY DEF Inv
<1>2. WorkInv' /\ JobInv' /\ WriterInv' /\ DiskInv'
  BY <1>1, WorkNext, JobNext, WriterNext, DiskNext
<1> QED
  BY <1>2 DEF Inv

\* Every state that is reached satisfies the invariant: what the recognition threads
\* remember, who is counted, and what is on the disk at each step of a save or a
\* deletion.
THEOREM Invariance == Spec => []Inv
<1>1. Init => Inv
  BY InitInv
<1>2. Inv /\ [Next]_vars => Inv'
  BY NextInv
<1> QED
  BY <1>1, <1>2, PTL DEF Spec

\* No two requests of an attempt report under the same stage, however many retries
\* there are and whichever provider is the fallback (RetryStageKind,
\* RetryStageIndex).
THEOREM RequestsHaveTheirStage == Spec => []StageHasOneRequest
<1>1. Inv => StageHasOneRequest
  <2> SUFFICES ASSUME Inv, NEW i \in DOMAIN attempts, NEW k \in DOMAIN attempts[i].stages
               PROVE  attempts[i].stages[k].sent <= 1
    BY DEF StageHasOneRequest
  <2>1. i \in Attempts /\ k \in Keys
    BY DEF Inv, WorkInv, AttemptsType, AttemptType, Stages
  <2>2. SentOf(attempts, i, k) <= 1
    BY <2>1 DEF Inv, WorkInv
  <2> QED
    BY <2>2 DEF SentOf
<1> QED
  BY <1>1, Invariance, PTL

\* A recording goes to Baidu with a token of the saved credentials, never with the
\* one the service has refused it, for any number of recordings that share the cache
\* with Test Connection (GetAccessToken, ClearCachedToken).
THEOREM TokensStayFresh == Spec => []TokenIsFresh
<1>1. Inv => TokenIsFresh
  BY DEF Inv, WorkInv, TokenOK, TokenIsFresh
<1> QED
  BY <1>1, Invariance, PTL

\* The program does not end before the writers it has counted, also when threads
\* still take and count attempts while it waits (WaitForPendingWrites).
THEOREM WritersAreAwaited == Spec => []ExitWaitsForWriters
<1>1. Inv => ExitWaitsForWriters
  BY DEF Inv, WriterInv
<1> QED
  BY <1>1, Invariance, PTL

\* A recording is on the disk whole or not at all, but for one that a crash or a
\* failed deletion has hit: the manifest is the last file that comes and the last
\* that goes (SaveAttempt, DeleteManagedGroup, CleanupOldManagedTemps).
THEOREM RecordingsAreWhole == Spec => []GroupsAreWhole
<1>1. Inv => GroupsAreWhole
  <2> SUFFICES ASSUME Inv, NEW g \in Attempts \ (torn \union InWork)
               PROVE  \/ OnDisk(g) = {}
                      \/ /\ \A f \in OnDisk(g) : ~f.tmp
                         /\ \E m \in Manifests(OnDisk(g)) :
                              {f.part : f \in Audio(OnDisk(g))} = m.lists
    BY DEF GroupsAreWhole
  <2>1. WholeIn(files, g) /\ \A f \in files : FileType(f)
    BY DEF Inv, DiskInv, FilesInv
  <2>2. CASE \A f \in files : f.group # g
    BY <2>2 DEF OnDisk
  <2>3. ASSUME \A f \in files : f.group = g => ~f.tmp,
               NEW m \in files, m.group = g, m.part = "json",
               \A p \in Parts : p \in m.lists <=> \E f \in files : f.group = g /\ f.part = p
        PROVE  /\ \A f \in OnDisk(g) : ~f.tmp
               /\ \E n \in Manifests(OnDisk(g)) :
                      {f.part : f \in Audio(OnDisk(g))} = n.lists
    <3>1. /\ \A f \in OnDisk(g) : f \in files /\ f.group = g /\ ~f.tmp
          /\ m \in Manifests(OnDisk(g))
      BY <2>3 DEF OnDisk, Manifests
    <3>2. m.lists \subseteq Parts /\ "json" \notin Parts
      BY <2>1 DEF FileType, Parts
    <3>3. \A f \in files : f.part \in Parts \union {"json"}
      BY <2>1 DEF FileType
    <3>4. {f.part : f \in Audio(OnDisk(g))} = m.lists
      <4>1. ASSUME NEW f \in Audio(OnDisk(g))
            PROVE  f.part \in m.lists
        <5>1. f \in files /\ f.group = g /\ f.part # "json"
          BY DEF Audio, OnDisk
        <5>2. f.part \in Parts
          BY <3>3, <5>1
        <5> QED
          BY <2>3, <5>1, <5>2
      <4>2. ASSUME NEW p \in m.lists
            PROVE  \E f \in Audio(OnDisk(g)) : f.part = p
        <5>1. PICK f \in files : f.group = g /\ f.part = p
          BY <2>3, <3>2
        <5>2. f \in Audio(OnDisk(g))
          BY <2>3, <3>2, <5>1 DEF Audio, OnDisk
        <5> QED
          BY <5>1, <5>2
      <4> QED
        BY <4>1, <4>2
    <3> QED
      BY <3>1, <3>4
  <2> QED
    BY <2>1, <2>2, <2>3 DEF WholeIn
<1> QED
  BY <1>1, Invariance, PTL

---------------------------------------------------------------------------
(***************************************************************************)
(* Retention.  RetentionInv says what a sweep after a save has left at     *)
(* each of its steps.  It rests on facts about numbers: a finite set of    *)
(* them has a largest one, and their sum, a fold, is a number.             *)
(***************************************************************************)

\* Induction over the natural numbers, for a set.
LEMMA SetInduction ==
  ASSUME NEW S, 0 \in S, \A n \in Nat : n \in S => n + 1 \in S
  PROVE  Nat \subseteq S
<1> SUFFICES ASSUME NEW T, T = Nat \ S, T # {}
             PROVE  FALSE
  OBVIOUS
<1> DEFINE R == OpToRel(<, Nat)
<1>1. \A x, y \in Nat : y < x => <<y, x>> \in R
  BY DEF OpToRel
<1>2. IsWellFoundedOn(R, Nat)
  BY NatLessThanWellFounded
<1> HIDE DEF R
<1>3. PICK x \in T : \A y \in T : ~(<<y, x>> \in R)
  BY <1>2, WFMin
<1>4. x \in Nat /\ x # 0 /\ x - 1 \in Nat /\ x - 1 < x /\ (x - 1) + 1 = x
  BY <1>3
<1>5. x - 1 \in T
  BY <1>4
<1> QED
  BY <1>1, <1>3, <1>4, <1>5

\* Numbers that exist have a least one.
LEMMA LeastNumber ==
  ASSUME NEW T \in SUBSET Nat, T # {}
  PROVE  \E x \in T : \A y \in T : x <= y
<1> DEFINE R == OpToRel(<, Nat)
<1>1. \A x, y \in Nat : y < x => <<y, x>> \in R
  BY DEF OpToRel
<1>2. IsWellFoundedOn(R, Nat)
  BY NatLessThanWellFounded
<1> HIDE DEF R
<1>3. PICK x \in T : \A y \in T : ~(<<y, x>> \in R)
  BY <1>2, WFMin
<1>4. ASSUME NEW y \in T
      PROVE  x <= y
  <2>1. ~(y < x)
    BY <1>1, <1>3
  <2> QED
    BY <2>1
<1> QED
  BY <1>4

\* A finite set is empty, or one element larger than another.
LEMMA OneLess ==
  ASSUME NEW S, IsFiniteSet(S), NEW n \in Nat, Cardinality(S) = n + 1, NEW x \in S
  PROVE  IsFiniteSet(S \ {x}) /\ Cardinality(S \ {x}) = n
<1>1. IsFiniteSet(S \ {x}) /\ Cardinality(S \ {x}) = Cardinality(S) - 1
  BY FS_RemoveElement
<1> QED
  BY <1>1

\* A finite set of numbers has a largest one.
LEMMA LargestNumber ==
  ASSUME NEW S \in SUBSET Nat, IsFiniteSet(S), S # {}
  PROVE  Max(S) \in S /\ \A x \in S : x <= Max(S)
<1> DEFINE Top(T) == \E m \in T : \A x \in T : x <= m
           P == {n \in Nat : \A T \in SUBSET S :
                   T # {} /\ Cardinality(T) = n => Top(T)}
<1>0. \A T \in SUBSET S : IsFiniteSet(T) /\ T \in SUBSET Nat
  BY FS_Subset
<1>1. 0 \in P
  BY <1>0, FS_EmptySet
<1>2. ASSUME NEW n \in Nat, n \in P
      PROVE  n + 1 \in P
  <2> SUFFICES ASSUME NEW T \in SUBSET S, T # {}, Cardinality(T) = n + 1
               PROVE  Top(T)
    OBVIOUS
  <2>1. PICK x \in T : TRUE
    OBVIOUS
  <2>2. Cardinality(T \ {x}) = n
    BY <1>0, OneLess
  <2>3. CASE T \ {x} = {}
    <3>1. \A y \in T : y <= x
      BY <1>0, <2>3
    <3> QED
      BY <3>1
  <2>4. CASE T \ {x} # {}
    <3>1. Top(T \ {x})
      BY <1>2, <2>2, <2>4
    <3>2. PICK m \in T \ {x} : \A y \in T \ {x} : y <= m
      BY <3>1
    <3>3. m \in Nat /\ x \in Nat
      BY <1>0
    <3>4. CASE x <= m
      <4>1. \A y \in T : y <= m
        BY <3>2, <3>4
      <4> QED
        BY <4>1
    <3>5. CASE ~(x <= m)
      <4>1. \A y \in T : y <= x
        BY <1>0, <3>2, <3>3, <3>5
      <4> QED
        BY <4>1
    <3> QED
      BY <3>4, <3>5
  <2> QED
    BY <2>3, <2>4
<1>3. Nat \subseteq P
  <2> HIDE DEF P
  <2> QED
    BY <1>1, <1>2, SetInduction
<1>4. Cardinality(S) \in Nat
  BY FS_CardinalityType
<1>5. Top(S)
  BY <1>3, <1>4
<1>6. PICK m \in S : \A x \in S : x <= m
  BY <1>5
<1>7. \A x \in S : m >= x
  BY <1>6
<1> QED
  BY <1>7 DEF Max

Rest(s) == s \ {CHOOSE x \in s : TRUE}

\* How SumFunctionOnSet unfolds, on the subsets D.
Sum(f, it, s) == IF s = {} THEN 0 ELSE f[CHOOSE x \in s : TRUE] + it[Rest(s)]
Sums(f, D, it) == it = [s \in D |-> Sum(f, it, s)]
Below(S, n) == {s \in SUBSET S : Cardinality(s) <= n}

LEMMA BytesDef ==
  ASSUME NEW f, NEW S
  PROVE  Bytes(f, S) = (CHOOSE it : Sums(f, SUBSET S, it))[S]
  BY DEF Bytes, SumFunctionOnSet, FoldFunctionOnSet, MapThenFoldSet, Sums, Sum, Rest

LEMMA RestIsLess ==
  ASSUME NEW S, IsFiniteSet(S), NEW s \in SUBSET S, NEW n \in Nat,
         Cardinality(s) = n + 1
  PROVE  /\ s # {} /\ (CHOOSE x \in s : TRUE) \in S
         /\ Rest(s) \in SUBSET S /\ Cardinality(Rest(s)) = n
<1>1. IsFiniteSet(s)
  BY FS_Subset
<1>2. s # {}
  BY FS_EmptySet
<1>3. (CHOOSE x \in s : TRUE) \in s
  BY <1>2
<1> QED
  BY <1>1, <1>2, <1>3, OneLess DEF Rest

\* The sums of all subsets exist.
LEMMA SumsExist ==
  ASSUME NEW f, NEW S, IsFiniteSet(S)
  PROVE  \E it : Sums(f, SUBSET S, it)
<1> DEFINE P == {n \in Nat : \E it : Sums(f, Below(S, n), it)}
<1>0. \A s \in SUBSET S : IsFiniteSet(s) /\ Cardinality(s) \in Nat
  BY FS_Subset, FS_CardinalityType
<1>1. 0 \in P
  <2> DEFINE it == [s \in Below(S, 0) |-> 0]
  <2>1. \A s \in Below(S, 0) : s = {}
    BY <1>0, FS_EmptySet DEF Below
  <2>2. Sums(f, Below(S, 0), it)
    BY <2>1 DEF Sums, Sum
  <2> QED
    BY <2>2
<1>2. ASSUME NEW n \in Nat, n \in P
      PROVE  n + 1 \in P
  <2>1. PICK it : Sums(f, Below(S, n), it)
    BY <1>2
  <2> DEFINE new == [s \in Below(S, n + 1) |-> Sum(f, it, s)]
  <2>2. \A s \in Below(S, n) : it[s] = Sum(f, it, s)
    BY <2>1 DEF Sums
  <2>3. Below(S, n) \subseteq Below(S, n + 1)
    BY <1>0 DEF Below
  <2>4. \A s \in Below(S, n) : new[s] = it[s]
    BY <2>2, <2>3
  <2>5. ASSUME NEW s \in Below(S, n + 1), s # {}
        PROVE  Rest(s) \in Below(S, n)
    <3>1. s \in SUBSET S /\ Cardinality(s) \in Nat /\ Cardinality(s) <= n + 1
      BY <1>0 DEF Below
    <3>2. Cardinality(s) # 0
      BY <1>0, <2>5, <3>1, FS_EmptySet
    <3>3. Cardinality(s) - 1 \in Nat /\ Cardinality(s) = (Cardinality(s) - 1) + 1
          /\ Cardinality(s) - 1 <= n
      BY <3>1, <3>2
    <3> DEFINE m == Cardinality(s) - 1
    <3>4. m \in Nat /\ Cardinality(s) = m + 1 /\ m <= n
      BY <3>3
    <3> HIDE DEF m
    <3>5. Rest(s) \in SUBSET S /\ Cardinality(Rest(s)) = m
      BY <3>1, <3>4, RestIsLess
    <3> QED
      BY <3>4, <3>5 DEF Below
  <2> HIDE DEF new
  <2>6. \A s \in Below(S, n + 1) : Sum(f, it, s) = Sum(f, new, s)
    BY <2>4, <2>5 DEF Sum
  <2>7. Sums(f, Below(S, n + 1), new)
    BY <2>6 DEF Sums, new
  <2> QED
    BY <2>7
<1>3. Nat \subseteq P
  <2> HIDE DEF P
  <2> QED
    BY <1>1, <1>2, SetInduction
<1>4. Cardinality(S) \in Nat /\ \A s \in SUBSET S : Cardinality(s) <= Cardinality(S)
  BY <1>0, FS_Subset
<1>5. Below(S, Cardinality(S)) = SUBSET S
  BY <1>4 DEF Below
<1> QED
  BY <1>3, <1>4, <1>5

\* The sum of natural numbers is one, and 0 when there are none.
LEMMA BytesType ==
  ASSUME NEW S, IsFiniteSet(S), NEW f, \A x \in S : f[x] \in Nat
  PROVE  Bytes(f, S) \in Nat
<1> DEFINE it == CHOOSE i : Sums(f, SUBSET S, i)
           P == {n \in Nat : \A s \in SUBSET S : Cardinality(s) = n => it[s] \in Nat}
<1>1. Sums(f, SUBSET S, it)
  BY SumsExist
<1>2. Bytes(f, S) = it[S]
  BY BytesDef
<1> HIDE DEF it
<1>3. \A s \in SUBSET S : it[s] = Sum(f, it, s)
  BY <1>1 DEF Sums
<1>4. 0 \in P
  <2>1. \A s \in SUBSET S : Cardinality(s) = 0 => s = {}
    BY FS_Subset, FS_EmptySet
  <2> QED
    BY <1>3, <2>1 DEF Sum
<1>5. ASSUME NEW n \in Nat, n \in P
      PROVE  n + 1 \in P
  <2> SUFFICES ASSUME NEW s \in SUBSET S, Cardinality(s) = n + 1
               PROVE  it[s] \in Nat
    OBVIOUS
  <2>1. /\ s # {} /\ (CHOOSE x \in s : TRUE) \in S
        /\ Rest(s) \in SUBSET S /\ Cardinality(Rest(s)) = n
    BY RestIsLess
  <2>2. it[Rest(s)] \in Nat
    BY <1>5, <2>1
  <2>3. f[CHOOSE x \in s : TRUE] \in Nat
    BY <2>1
  <2> QED
    BY <1>3, <2>1, <2>2, <2>3 DEF Sum
<1>6. Nat \subseteq P
  <2> HIDE DEF P
  <2> QED
    BY <1>4, <1>5, SetInduction
<1> QED
  BY <1>2, <1>6, FS_CardinalityType

LEMMA NoBytes ==
  ASSUME NEW f
  PROVE  Bytes(f, {}) = 0
<1> DEFINE it == CHOOSE i : Sums(f, SUBSET {}, i)
<1>1. Sums(f, SUBSET {}, it)
  BY SumsExist, FS_EmptySet
<1>2. Bytes(f, {}) = it[{}]
  BY BytesDef
<1> HIDE DEF it
<1> QED
  BY <1>1, <1>2 DEF Sums, Sum

\* Within the limits is the opposite of too many.
LEMMA WithinLimits ==
  ASSUME NEW S, IsFiniteSet(S), NEW f, \A x \in S : f[x] \in Nat
  PROVE  ~TooMany(f, S) <=> Cardinality(S) <= MaxGroups /\ Bytes(f, S) <= MaxBytes
<1>1. Cardinality(S) \in Nat /\ Bytes(f, S) \in Nat
  BY FS_CardinalityType, BytesType
<1>2. MaxGroups \in Nat /\ MaxBytes \in Nat
  BY DiagnosticsAssumption
<1> QED
  BY <1>1, <1>2 DEF TooMany

LEMMA NoneIsWithin ==
  ASSUME NEW f
  PROVE  ~TooMany(f, {})
<1>1. Cardinality({}) = 0 /\ Bytes(f, {}) = 0
  BY FS_EmptySet, NoBytes
<1>2. MaxGroups \in Nat /\ MaxBytes \in Nat
  BY DiagnosticsAssumption
<1> QED
  BY <1>1, <1>2 DEF TooMany

---------------------------------------------------------------------------
(***************************************************************************)
(* What a sweep has found and deleted.                                     *)
(***************************************************************************)

OlderIn(j, g, h) == j.manifests[g].stamp < j.manifests[h].stamp
OldIn(j, g) == j.now - j.manifests[g].day > MaxAge
Young(j) == {g \in j.all : ~OldIn(j, g)}
TailFrom(j, h) == {g \in Young(j) : ~OlderIn(j, g, h)}

\* The groups found, in the order of their manifests.
Found(j) ==
  /\ IsFiniteSet(j.all)
  /\ \A g \in j.all : j.sizes[g] \in Nat /\ j.manifests[g].stamp \in Nat
  /\ \A g, h \in j.all : j.manifests[g].stamp = j.manifests[h].stamp => g = h

\* The first pass has deleted only old ones; what the second has left are the newest
\* of the young, and with any other they would have been too many.
Swept(j) ==
  /\ j.live \subseteq j.all /\ j.tried = {} /\ j.pass \in {"age", "size"}
  /\ j.pass = "age" => \A g \in j.all \ j.live : OldIn(j, g)
  /\ j.pass = "size" =>
       /\ j.live \subseteq Young(j)
       /\ \A g \in j.live, h \in Young(j) : OlderIn(j, g, h) => h \in j.live
       /\ \A h \in Young(j) \ j.live : TooMany(j.sizes, TailFrom(j, h))

\* Why the sweep deletes the group it has chosen.
Doomed(j) ==
  /\ j.victim \in j.live
  /\ j.pass = "age" => OldIn(j, j.victim)
  /\ j.pass = "size" =>
       /\ TooMany(j.sizes, j.live)
       /\ \A h \in j.live \ {j.victim} : OlderIn(j, j.victim, h)

\* No two files are written at the same time.
StampInv ==
  /\ IsFiniteSet(files)
  /\ \A f \in files : f.stamp \in Nat
  /\ \A f, h \in files : f.stamp = h.stamp => f = h

\* A sweep after a save, as long as it could delete what it had to.
Sweeping(j) ==
  j.step \in {"pick", "audio", "manifest"} /\ j.by \in Attempts /\ ~j.failed

\* What it has not deleted is on the disk.
SweepInv ==
  Sweeping(job) =>
    /\ Groups = job.live
    /\ Found(job) /\ Swept(job)
    /\ job.step # "pick" => Doomed(job)

CountInv == incidents \in Nat

RetentionInv == StampInv /\ SweepInv /\ CountInv

---------------------------------------------------------------------------
\* A new file has a stamp of its own.
LEMMA StampIsNew ==
  ASSUME StampInv
  PROVE  Stamp \in Nat /\ \A f \in files : f.stamp # Stamp
<1> DEFINE at == [f \in files |-> f.stamp]
           S == {at[f] : f \in files}
           T == S \union {0}
<1>1. IsFiniteSet(S)
  <2>1. DOMAIN at = files /\ IsFiniteSet(files)
    BY DEF StampInv
  <2> HIDE DEF at
  <2> QED
    BY <2>1, ImageIsSmaller
<1>2. S = {f.stamp : f \in files} /\ S \subseteq Nat
  BY DEF StampInv
<1>3. Stamp = 1 + Max(T)
  <2>1. Stamp = 1 + Max({f.stamp : f \in files} \union {0})
    BY DEF Stamp
  <2> HIDE DEF S
  <2> QED
    BY <1>2, <2>1
<1>4. \A f \in files : f.stamp \in T
  BY <1>2
<1> HIDE DEF S
<1>5. IsFiniteSet(T) /\ T \in SUBSET Nat /\ T # {}
  BY <1>1, <1>2, FS_AddElement
<1> HIDE DEF T
<1>6. Max(T) \in T /\ \A x \in T : x <= Max(T)
  BY <1>5, LargestNumber
<1> DEFINE m == Max(T)
<1>7. m \in T /\ (\A x \in T : x <= m) /\ Stamp = 1 + m
  BY <1>3, <1>6
<1> HIDE DEF m
<1>8. m \in Nat /\ Stamp \in Nat
  BY <1>5, <1>7
<1>9. ASSUME NEW f \in files
      PROVE  f.stamp # Stamp
  <2>1. f.stamp \in Nat /\ f.stamp <= m
    BY <1>4, <1>5, <1>7
  <2> QED
    BY <1>7, <1>8, <2>1
<1> QED
  BY <1>8, <1>9

LEMMA FewerFiles ==
  ASSUME StampInv, files' \subseteq files
  PROVE  StampInv'
<1>1. IsFiniteSet(files')
  BY FS_Subset DEF StampInv
<1> QED
  BY <1>1 DEF StampInv

LEMMA WriteTempStamp ==
  ASSUME StampInv, WriteTemp
  PROVE  StampInv'
<1>1. CASE files' = files
  BY <1>1, FewerFiles
<1>2. ASSUME NEW part, NEW lists, files' = files \union {FileOf(job.by, part, TRUE, lists)}
      PROVE  StampInv'
  <2> DEFINE new == FileOf(job.by, part, TRUE, lists)
  <2>1. new.stamp = Stamp
    BY DEF FileOf
  <2> HIDE DEF new
  <2>2. files' = files \union {new}
    BY <1>2 DEF new
  <2>3. IsFiniteSet(files')
    BY <2>2, FS_AddElement DEF StampInv
  <2>4. new.stamp \in Nat /\ \A f \in files : f.stamp # new.stamp
    BY <2>1, StampIsNew
  <2> QED
    BY <2>2, <2>3, <2>4 DEF StampInv
<1> QED
  BY <1>1, <1>2 DEF WriteTemp

\* A renamed file keeps its time.
LEMMA RenameTempStamp ==
  ASSUME StampInv, FilesInv, RenameTemp
  PROVE  StampInv'
<1> DEFINE temp == {f \in OnDisk(job.by) : f.tmp}
           Renamed(f) == [f EXCEPT !.tmp = FALSE]
           renamed == [f \in temp |-> Renamed(f)]
           new == {renamed[f] : f \in temp}
<1>0. new = {Renamed(f) : f \in temp}
  OBVIOUS
<1>1. files' = (files \ temp) \union new \/ files' \subseteq files
  BY <1>0 DEF RenameTemp
<1>2. temp \subseteq files
  BY DEF OnDisk
<1>3. \A f \in files : Renamed(f).stamp = f.stamp
  BY DEF FilesInv, FileType
<1>4. CASE files' = (files \ temp) \union new
  <2>1. IsFiniteSet(temp) /\ IsFiniteSet(files \ temp)
    BY <1>2, FS_Subset DEF StampInv
  <2>2. IsFiniteSet(new)
    <3>1. DOMAIN renamed = temp
      OBVIOUS
    <3> HIDE DEF renamed, temp
    <3> QED
      BY <2>1, <3>1, ImageIsSmaller
  <2>3. IsFiniteSet(files')
    <3> HIDE DEF temp, new
    <3> QED
      BY <1>4, <2>1, <2>2, FS_Union
  <2>4. \A f \in files' : \E h \in files :
          /\ f.stamp = h.stamp
          /\ f = IF h \in temp THEN Renamed(h) ELSE h
    <3> HIDE DEF temp, Renamed, new
    <3> QED
      BY <1>0, <1>2, <1>3, <1>4
  <2> HIDE DEF temp, Renamed, new
  <2> QED
    BY <2>3, <2>4 DEF StampInv
<1> QED
  BY <1>1, <1>4, FewerFiles

LEMMA StampNext ==
  ASSUME WorkInv, JobInv, DiskInv, StampInv, [Next]_vars
  PROVE  StampInv'
<1>1. CASE UNCHANGED vars \/ AttemptStep \/ TakeStep
  <2>1. files' = files
    BY <1>1 DEF vars, diagnosticVars, disk, AttemptStep, TakeStep
  <2> QED
    BY <2>1, FewerFiles
<1>2. CASE EndOfProcess
  <2>1. files' = files
    BY <1>2 DEF EndOfProcess, ProcessEnds
  <2> QED
    BY <2>1, FewerFiles
<1>3. CASE Diagnose
  <2>1. CASE WriteTemp \/ RenameTemp
    BY <2>1, WriteTempStamp, RenameTempStamp DEF DiskInv
  <2>2. CASE \E w \in waiting : StartSave(w)
    BY <2>2, FewerFiles DEF StartSave
  <2>3. CASE UndoSave \/ DeleteAudio \/ DeleteManifest \/ CleanupOldManagedTemps
    BY <2>3, FewerFiles DEF UndoSave, DeleteAudio, DeleteManifest, CleanupOldManagedTemps
  <2>4. CASE PickGroup \/ NextPass \/ EndSweep
    BY <2>4, FewerFiles DEF PickGroup, NextPass, EndSweep
  <2>5. CASE FinalizeStep
    BY <2>5, FewerFiles DEF FinalizeStep, CountWriter, StartWriter, disk
  <2>6. CASE WaitForPendingWrites \/ DayPasses \/ DeleteManagedRecordings
    BY <2>6, FewerFiles DEF WaitForPendingWrites, DayPasses, DeleteManagedRecordings, disk
  <2> QED
    BY <1>3, <2>1, <2>2, <2>3, <2>4, <2>5, <2>6 DEF Diagnose, WriterStep
<1> QED
  BY <1>1, <1>2, <1>3, StepKinds

LEMMA CountNext ==
  ASSUME WorkInv, CountInv, [Next]_vars
  PROVE  CountInv'
<1>1. CASE UNCHANGED vars \/ AttemptStep \/ TakeStep
  BY <1>1 DEF vars, diagnosticVars, bounds, AttemptStep, TakeStep, CountInv
<1>2. CASE EndOfProcess
  BY <1>2 DEF EndOfProcess, ProcessEnds, Incident, CountInv
<1>3. CASE Diagnose
  <2> SUFFICES incidents' = incidents \/ Incident
    BY DEF CountInv, Incident
  <2>1. CASE WriteTemp \/ RenameTemp \/ UndoSave \/ \E w \in waiting : StartSave(w)
    BY <2>1 DEF WriteTemp, RenameTemp, UndoSave, StartSave
  <2>2. CASE DeleteAudio \/ DeleteManifest \/ CleanupOldManagedTemps
    BY <2>2 DEF DeleteAudio, DeleteManifest, CleanupOldManagedTemps, bounds
  <2>3. CASE PickGroup \/ NextPass \/ EndSweep
    BY <2>3 DEF PickGroup, NextPass, EndSweep, bounds
  <2>4. CASE FinalizeStep
    BY <2>4 DEF FinalizeStep, CountWriter, StartWriter, bounds
  <2>5. CASE WaitForPendingWrites \/ DayPasses \/ DeleteManagedRecordings
    BY <2>5 DEF WaitForPendingWrites, DayPasses, DeleteManagedRecordings, bounds
  <2> QED
    BY <1>3, <2>1, <2>2, <2>3, <2>4, <2>5 DEF Diagnose, WriterStep
<1> QED
  BY <1>1, <1>2, <1>3, StepKinds

---------------------------------------------------------------------------
(***************************************************************************)
(* The order of the groups, and what a limit leaves of them.               *)
(***************************************************************************)

\* The groups found are ordered by the age of their manifests.
LEMMA GroupOrder ==
  ASSUME NEW j, Found(j), NEW g \in j.all, NEW h \in j.all
  PROVE  /\ OlderIn(j, g, h) \/ g = h \/ OlderIn(j, h, g)
         /\ ~(OlderIn(j, g, h) /\ OlderIn(j, h, g))
         /\ ~OlderIn(j, g, g)
<1> DEFINE a == j.manifests[g].stamp
           b == j.manifests[h].stamp
<1>1. a \in Nat /\ b \in Nat /\ (a = b => g = h)
  BY DEF Found
<1> HIDE DEF a, b
<1>2. (a < b \/ g = h \/ b < a) /\ ~(a < b /\ b < a) /\ ~(a < a)
  BY <1>1
<1> QED
  BY <1>2 DEF OlderIn, a, b

\* Some group is older than all the others.
LEMMA OldestExists ==
  ASSUME NEW j, Found(j), NEW S \in SUBSET j.all, S # {}
  PROVE  \E g \in S : \A h \in S \ {g} : OlderIn(j, g, h)
<1> DEFINE T == {j.manifests[g].stamp : g \in S}
<1>1. T \in SUBSET Nat /\ T # {}
  BY DEF Found
<1>2. PICK x \in T : \A y \in T : x <= y
  BY <1>1, LeastNumber
<1>3. PICK g \in S : x = j.manifests[g].stamp
  BY <1>2
<1>4. ASSUME NEW h \in S \ {g}
      PROVE  OlderIn(j, g, h)
  <2> DEFINE y == j.manifests[h].stamp
  <2>1. y \in T /\ x \in T /\ x # y
    BY <1>2, <1>3 DEF Found
  <2> HIDE DEF y, T
  <2>2. x \in Nat /\ y \in Nat /\ x <= y
    BY <1>1, <1>2, <2>1
  <2>3. x < y
    BY <2>1, <2>2
  <2> QED
    BY <1>3, <2>3 DEF OlderIn, y
<1> QED
  BY <1>4

LEMMA OldestIs ==
  ASSUME Found(job), NEW S \in SUBSET job.all, S # {}
  PROVE  Oldest(S) \in S /\ \A h \in S \ {Oldest(S)} : OlderIn(job, Oldest(S), h)
<1>1. \E g \in S : \A h \in S \ {g} : Older(g, h)
  BY OldestExists DEF Older, OlderIn
<1> QED
  BY <1>1 DEF Oldest, Older, OlderIn

\* A tail is what is left from its oldest group on.
LEMMA TailOfOldest ==
  ASSUME NEW j, Found(j), NEW live \in SUBSET Young(j), NEW v \in live,
         \A g \in live, h \in Young(j) : OlderIn(j, g, h) => h \in live,
         \A h \in live \ {v} : OlderIn(j, v, h)
  PROVE  TailFrom(j, v) = live
<1>0. Young(j) \subseteq j.all
  BY DEF Young
<1>1. ASSUME NEW g \in live
      PROVE  g \in TailFrom(j, v)
  <2>1. g = v \/ OlderIn(j, v, g)
    OBVIOUS
  <2>2. ~OlderIn(j, g, v)
    BY <1>0, <2>1, GroupOrder
  <2> QED
    BY <2>2 DEF TailFrom
<1>2. ASSUME NEW g \in TailFrom(j, v)
      PROVE  g \in live
  <2>1. g \in Young(j) /\ ~OlderIn(j, g, v)
    BY DEF TailFrom
  <2>2. g = v \/ OlderIn(j, v, g)
    BY <1>0, <2>1, GroupOrder
  <2> QED
    BY <2>1, <2>2
<1> QED
  BY <1>1, <1>2

\* The sweep may be at another group, in another step.
LEMMA SameSwept ==
  ASSUME NEW j, NEW k, Found(j), Swept(j), k.all = j.all, k.live = j.live,
         k.tried = j.tried, k.sizes = j.sizes, k.now = j.now,
         k.manifests = j.manifests, k.pass = j.pass
  PROVE  Found(k) /\ Swept(k)
<1>1. Found(k)
  BY DEF Found
<1>2. Young(k) = Young(j) /\ \A h : TailFrom(k, h) = TailFrom(j, h)
  BY DEF Young, TailFrom, OldIn, OlderIn
<1> QED
  BY <1>1, <1>2 DEF Swept, OldIn, OlderIn

\* The oldest is deleted: those that are left are still the newest of the young.
LEMMA DeletedSwept ==
  ASSUME NEW j, NEW k, Found(j), Swept(j), Doomed(j), k.all = j.all,
         k.live = j.live \ {j.victim}, k.tried = j.tried, k.sizes = j.sizes,
         k.now = j.now, k.manifests = j.manifests, k.pass = j.pass
  PROVE  Found(k) /\ Swept(k)
<1> DEFINE v == j.victim
<1>1. Found(k)
  BY DEF Found
<1>2. Young(k) = Young(j) /\ \A h : TailFrom(k, h) = TailFrom(j, h)
  BY DEF Young, TailFrom, OldIn, OlderIn
<1>3. /\ v \in j.live /\ j.live \subseteq j.all /\ j.tried = {}
      /\ j.pass \in {"age", "size"} /\ Young(j) \subseteq j.all
  BY DEF Swept, Doomed, Young
<1>4. CASE j.pass = "age"
  <2>1. \A g \in k.all \ k.live : OldIn(k, g)
    BY <1>4 DEF Swept, Doomed, OldIn
  <2> QED
    BY <1>1, <1>3, <1>4, <2>1 DEF Swept
<1>5. CASE j.pass = "size"
  <2>1. /\ j.live \subseteq Young(j)
        /\ \A g \in j.live, h \in Young(j) : OlderIn(j, g, h) => h \in j.live
        /\ \A h \in Young(j) \ j.live : TooMany(j.sizes, TailFrom(j, h))
    BY <1>5 DEF Swept
  <2>2. /\ TooMany(j.sizes, j.live)
        /\ \A h \in j.live \ {v} : OlderIn(j, v, h)
    BY <1>5 DEF Doomed
  <2>3. TailFrom(j, v) = j.live
    BY <1>3, <2>1, <2>2, TailOfOldest
  <2>4. \A h \in Young(k) \ k.live : TooMany(k.sizes, TailFrom(k, h))
    BY <1>2, <2>1, <2>2, <2>3
  <2>5. ASSUME NEW g \in k.live, NEW h \in Young(k), OlderIn(k, g, h)
        PROVE  h \in k.live
    <3>1. g \in j.live \ {v} /\ h \in Young(j) /\ OlderIn(j, g, h)
      BY <1>2, <2>5 DEF OlderIn
    <3>2. h \in j.live /\ OlderIn(j, v, g)
      BY <2>1, <2>2, <3>1
    <3>3. ~OlderIn(j, g, v)
      BY <1>3, <3>1, <3>2, GroupOrder
    <3> QED
      BY <3>1, <3>2, <3>3
  <2>6. k.live \subseteq Young(k)
    BY <1>2, <2>1
  <2> QED
    BY <1>1, <1>3, <1>5, <2>4, <2>5, <2>6 DEF Swept
<1> QED
  BY <1>3, <1>4, <1>5

\* What is left when the second pass has nothing to delete is the longest tail that
\* the limits allow.
LEMMA SweptIsFitting ==
  ASSUME Found(job), Swept(job), job.pass = "size", ~TooMany(job.sizes, job.live)
  PROVE  job.live = Fitting
<1> DEFINE young == {g \in job.all : ~TooOld(g)}
           tails == {{g \in young : ~Older(g, h)} : h \in young} \union {{}}
           fits == {t \in tails : /\ Cardinality(t) <= MaxGroups
                                  /\ Bytes(job.sizes, t) <= MaxBytes}
           live == job.live
<1>1. young = Young(job) /\ young \subseteq job.all
  BY DEF Young, OldIn, TooOld
<1>2. tails = {TailFrom(job, h) : h \in young} \union {{}}
  BY <1>1 DEF TailFrom, Older, OlderIn
<1>3. Fitting = CHOOSE t \in fits : \A u \in fits : u \subseteq t
  BY DEF Fitting
<1>4. \A t \in tails : t \subseteq job.all
  BY <1>1
<1> HIDE DEF young, tails
<1>5. ASSUME NEW t \in tails
      PROVE  t \in fits <=> ~TooMany(job.sizes, t)
  <2>1. IsFiniteSet(t) /\ \A g \in t : job.sizes[g] \in Nat
    BY <1>4, FS_Subset DEF Found
  <2> QED
    BY <2>1, WithinLimits
<1> HIDE DEF fits
<1>6. fits \subseteq tails
  BY DEF fits
<1>7. /\ live \subseteq young
      /\ \A g \in live, h \in young : OlderIn(job, g, h) => h \in live
      /\ \A h \in young \ live : TooMany(job.sizes, TailFrom(job, h))
  BY <1>1 DEF Swept
<1>8. live \in tails
  <2>1. CASE live = {}
    BY <1>2, <2>1
  <2>2. CASE live # {}
    <3>1. PICK v \in live : \A h \in live \ {v} : OlderIn(job, v, h)
      BY <1>1, <1>7, <2>2, OldestExists
    <3>2. TailFrom(job, v) = live
      BY <1>1, <1>7, <3>1, TailOfOldest
    <3> QED
      BY <1>2, <1>7, <3>2
  <2> QED
    BY <2>1, <2>2
<1>9. live \in fits
  BY <1>5, <1>8
<1>10. ASSUME NEW u \in fits
       PROVE  u \subseteq live
  <2>1. CASE u = {}
    BY <2>1
  <2>2. ASSUME NEW h \in young, u = TailFrom(job, h)
        PROVE  u \subseteq live
    <3>1. ~TooMany(job.sizes, u)
      BY <1>5, <1>6
    <3>2. h \in live
      BY <1>7, <2>2, <3>1
    <3>3. ASSUME NEW g \in u
          PROVE  g \in live
      <4>1. g \in young /\ ~OlderIn(job, g, h)
        BY <1>1, <2>2 DEF TailFrom
      <4>2. g = h \/ OlderIn(job, h, g)
        BY <1>1, <4>1, GroupOrder
      <4> QED
        BY <1>7, <3>2, <4>1, <4>2
    <3> QED
      BY <3>3
  <2> QED
    BY <1>2, <1>6, <2>1, <2>2
<1>11. \A t \in fits : (\A u \in fits : u \subseteq t) => t = live
  BY <1>9, <1>10
<1> QED
  BY <1>3, <1>9, <1>10, <1>11

---------------------------------------------------------------------------
(***************************************************************************)
(* The steps of a sweep.                                                   *)
(***************************************************************************)

LEMMA SameGroups ==
  ASSUME Manifests(files') = Manifests(files)
  PROVE  Groups' = Groups
  BY DEF Groups, Manifests

LEMMA CleanupSweep ==
  ASSUME StampInv, CleanupOldManagedTemps
  PROVE  SweepInv'
<1>1. job' = SweepJob(job.by, job.late, "age")
      /\ files' = {f \in files : f.tmp => day - f.day <= 1}
  BY DEF CleanupOldManagedTemps
<1>2. /\ job'.step = "pick" /\ job'.all = Groups /\ job'.live = Groups
      /\ job'.tried = {} /\ job'.pass = "age"
      /\ job'.sizes = [g \in Groups |-> SizeOf(g)]
      /\ job'.manifests = [g \in Groups |-> ManifestOf(g)]
  BY <1>1 DEF SweepJob
<1>3. Groups' = Groups
  <2>1. Manifests(files') = Manifests(files)
    BY <1>1 DEF Manifests
  <2> QED
    BY <2>1, SameGroups
<1>4. IsFiniteSet(Groups)
  <2> DEFINE M == Manifests(files)
             group == [f \in M |-> f.group]
  <2>1. IsFiniteSet(M)
    BY FS_Subset DEF StampInv, Manifests
  <2>2. DOMAIN group = M /\ Groups = {group[f] : f \in M}
    BY DEF Groups
  <2> HIDE DEF group, M
  <2> QED
    BY <2>1, <2>2, ImageIsSmaller
<1>5. ASSUME NEW g \in Groups
      PROVE  SizeOf(g) \in Nat /\ ManifestOf(g) \in files /\ ManifestOf(g).group = g
  <2>1. IsFiniteSet(Audio(OnDisk(g)))
    BY FS_Subset DEF StampInv, Audio, OnDisk
  <2>2. \E f \in files : f \in Manifests(OnDisk(g))
    BY DEF Groups, Manifests, OnDisk
  <2>3. ManifestOf(g) \in files /\ ManifestOf(g) \in Manifests(OnDisk(g))
    BY <2>2 DEF ManifestOf
  <2>4. ManifestOf(g).group = g
    BY <2>3 DEF Manifests, OnDisk
  <2> QED
    BY <2>1, <2>3, <2>4, FS_CardinalityType DEF SizeOf
<1>6. Found(job')
  <2>1. \A g \in Groups : /\ job'.sizes[g] = SizeOf(g)
                          /\ job'.manifests[g] = ManifestOf(g)
    BY <1>2
  <2>2. \A g, h \in Groups : ManifestOf(g).stamp = ManifestOf(h).stamp => g = h
    BY <1>5 DEF StampInv
  <2>3. \A g \in Groups : ManifestOf(g).stamp \in Nat
    BY <1>5 DEF StampInv
  <2> QED
    BY <1>2, <1>4, <1>5, <2>1, <2>2, <2>3 DEF Found
<1>7. Swept(job')
  BY <1>2 DEF Swept
<1> QED
  BY <1>2, <1>3, <1>6, <1>7 DEF SweepInv, Found, Swept

LEMMA PickSweep ==
  ASSUME JobInv, SweepInv, PickGroup
  PROVE  SweepInv'
<1> DEFINE v == Oldest(Candidates)
<1>1. job' = [job EXCEPT !.step = "audio", !.victim = v] /\ job.step = "pick"
      /\ Candidates # {} /\ files' = files
  BY DEF PickGroup
<1>2. SweepType(job)
  BY <1>1, JobKinds DEF JobInv, JobOK
<1> HIDE DEF v
<1>3. /\ job'.step = "audio" /\ job'.victim = v /\ job'.by = job.by
      /\ job'.all = job.all /\ job'.live = job.live /\ job'.tried = job.tried
      /\ job'.sizes = job.sizes /\ job'.now = job.now /\ job'.failed = job.failed
      /\ job'.manifests = job.manifests /\ job'.pass = job.pass
  BY <1>1, <1>2 DEF SweepType
<1> SUFFICES ASSUME Sweeping(job')
             PROVE  Groups' = job'.live /\ Found(job') /\ Swept(job') /\ Doomed(job')
  BY <1>3 DEF SweepInv, Sweeping, Found, Swept, Doomed
<1>4. Groups = job.live /\ Found(job) /\ Swept(job)
  BY <1>1, <1>3 DEF SweepInv, Sweeping
<1>5. Groups' = job'.live
  BY <1>1, <1>3, <1>4, SameGroups
<1>6. Found(job') /\ Swept(job')
  BY <1>3, <1>4, SameSwept
<1>7. Candidates \subseteq job.live /\ job.live \subseteq job.all /\ job.tried = {}
      /\ job.pass \in {"age", "size"}
  BY <1>4 DEF Candidates, Swept
<1>8. v \in Candidates /\ \A h \in Candidates \ {v} : OlderIn(job, v, h)
  BY <1>1, <1>4, <1>7, OldestIs DEF v
<1>9. CASE job.pass = "age"
  <2>1. TooOld(v)
    BY <1>8, <1>9 DEF Candidates
  <2>2. OldIn(job', v)
    BY <1>3, <2>1 DEF TooOld, OldIn
  <2> QED
    BY <1>3, <1>5, <1>6, <1>7, <1>8, <1>9, <2>2 DEF Doomed
<1>10. CASE job.pass = "size"
  <2>1. TooMany(job.sizes, job.live) /\ Candidates = job.live
    BY <1>7, <1>8, <1>10 DEF Candidates
  <2>2. \A h \in job'.live \ {v} : OlderIn(job', v, h)
    BY <1>3, <1>8, <2>1 DEF OlderIn
  <2> QED
    BY <1>3, <1>5, <1>6, <1>7, <1>8, <1>10, <2>1, <2>2 DEF Doomed
<1> QED
  BY <1>7, <1>9, <1>10

LEMMA NextPassSweep ==
  ASSUME JobInv, SweepInv, NextPass
  PROVE  SweepInv'
<1>1. job' = [job EXCEPT !.pass = "size", !.tried = {}] /\ job.step = "pick"
      /\ Candidates = {} /\ job.pass = "age" /\ files' = files
  BY DEF NextPass
<1>2. SweepType(job)
  BY <1>1, JobKinds DEF JobInv, JobOK
<1>3. /\ job'.step = "pick" /\ job'.by = job.by
      /\ job'.all = job.all /\ job'.live = job.live /\ job'.tried = {}
      /\ job'.sizes = job.sizes /\ job'.now = job.now /\ job'.failed = job.failed
      /\ job'.manifests = job.manifests /\ job'.pass = "size"
  BY <1>1, <1>2 DEF SweepType
<1> SUFFICES ASSUME Sweeping(job')
             PROVE  Groups' = job'.live /\ Found(job') /\ Swept(job')
  BY <1>3 DEF SweepInv, Sweeping, Found, Swept
<1>4. Groups = job.live /\ Found(job) /\ Swept(job)
  BY <1>1, <1>3 DEF SweepInv, Sweeping
<1>5. Groups' = job'.live
  BY <1>1, <1>3, <1>4, SameGroups
<1>6. Found(job')
  BY <1>3, <1>4 DEF Found
<1>7. job.live \subseteq job.all /\ job.tried = {}
      /\ \A g \in job.all \ job.live : OldIn(job, g)
  BY <1>1, <1>4 DEF Swept
<1>8. \A g \in job.live : ~TooOld(g)
  BY <1>1, <1>7 DEF Candidates
<1>9. job.live = Young(job)
  BY <1>7, <1>8 DEF Young, OldIn, TooOld
<1>10. Young(job') = Young(job)
  BY <1>3 DEF Young, OldIn
<1>11. Swept(job')
  BY <1>3, <1>7, <1>9, <1>10 DEF Swept
<1> QED
  BY <1>5, <1>6, <1>11

LEMMA DeleteAudioSweep ==
  ASSUME JobInv, SweepInv, DeleteAudio
  PROVE  SweepInv'
<1>1. PICK kept \in SUBSET Audio(OnDisk(job.victim)) :
        /\ files' = files \ (Audio(OnDisk(job.victim)) \ kept)
        /\ job' = [job EXCEPT !.step = "manifest", !.failed = @ \/ kept # {},
                              !.tried = IF kept # {} THEN @ \union {job.victim} ELSE @]
  BY DEF DeleteAudio
<1>2. SweepType(job) /\ job.step = "audio"
  BY JobKinds DEF JobInv, JobOK, DeleteAudio
<1> DEFINE failed == job.failed \/ kept # {}
           tried == IF kept # {} THEN job.tried \union {job.victim} ELSE job.tried
<1>3. failed \in BOOLEAN /\ (~failed => ~job.failed /\ tried = job.tried)
  OBVIOUS
<1>4. job' = [job EXCEPT !.step = "manifest", !.failed = failed, !.tried = tried]
  BY <1>1, <1>2 DEF SweepType
<1> HIDE DEF failed, tried
<1>5. /\ job'.step = "manifest" /\ job'.victim = job.victim /\ job'.by = job.by
      /\ job'.all = job.all /\ job'.live = job.live /\ job'.tried = tried
      /\ job'.sizes = job.sizes /\ job'.now = job.now /\ job'.failed = failed
      /\ job'.manifests = job.manifests /\ job'.pass = job.pass
  BY <1>2, <1>4 DEF SweepType
<1> SUFFICES ASSUME Sweeping(job')
             PROVE  Groups' = job'.live /\ Found(job') /\ Swept(job') /\ Doomed(job')
  BY <1>5 DEF SweepInv, Sweeping, Found, Swept, Doomed
<1>6. ~failed /\ job.by \in Attempts
  BY <1>5 DEF Sweeping
<1>7. Groups = job.live /\ Found(job) /\ Swept(job) /\ Doomed(job)
  BY <1>2, <1>3, <1>6 DEF SweepInv, Sweeping
<1>8. Manifests(files') = Manifests(files)
  BY <1>1 DEF Manifests, Audio
<1>9. Groups' = job'.live
  BY <1>5, <1>7, <1>8, SameGroups
<1>10. Found(job') /\ Swept(job')
  BY <1>3, <1>5, <1>6, <1>7, SameSwept
<1>11. Doomed(job')
  BY <1>5, <1>7 DEF Doomed, OldIn, OlderIn
<1> QED
  BY <1>9, <1>10, <1>11

LEMMA DeleteManifestSweep ==
  ASSUME JobInv, SweepInv, DeleteManifest
  PROVE  SweepInv'
<1>1. SweepType(job) /\ job.step = "manifest"
  BY JobKinds DEF JobInv, JobOK, DeleteManifest
<1> DEFINE live == IF job.victim \in job.tried THEN job.live ELSE job.live \ {job.victim}
           tried == job.tried \union {job.victim}
<1>2. \/ /\ job' = [job EXCEPT !.step = "pick", !.live = live]
         /\ files' = files \ Manifests(OnDisk(job.victim))
      \/ job' = [job EXCEPT !.step = "pick", !.failed = TRUE, !.tried = tried]
  BY <1>1 DEF DeleteManifest, SweepType
<1>3. job.tried = {} => live = job.live \ {job.victim}
  OBVIOUS
<1> HIDE DEF live, tried
<1>4. CASE job' = [job EXCEPT !.step = "pick", !.failed = TRUE, !.tried = tried]
  <2>1. job'.failed
    BY <1>1, <1>4 DEF SweepType
  <2> QED
    BY <2>1 DEF SweepInv, Sweeping
<1>5. CASE /\ job' = [job EXCEPT !.step = "pick", !.live = live]
           /\ files' = files \ Manifests(OnDisk(job.victim))
  <2>1. /\ job'.step = "pick" /\ job'.by = job.by
        /\ job'.all = job.all /\ job'.live = live /\ job'.tried = job.tried
        /\ job'.sizes = job.sizes /\ job'.now = job.now /\ job'.failed = job.failed
        /\ job'.manifests = job.manifests /\ job'.pass = job.pass
    BY <1>1, <1>5 DEF SweepType
  <2> SUFFICES ASSUME Sweeping(job')
               PROVE  Groups' = job'.live /\ Found(job') /\ Swept(job')
    BY <2>1 DEF SweepInv, Sweeping, Found, Swept
  <2>2. Groups = job.live /\ Found(job) /\ Swept(job) /\ Doomed(job)
    BY <1>1, <2>1 DEF SweepInv, Sweeping
  <2>3. live = job.live \ {job.victim}
    BY <1>3, <2>2 DEF Swept
  <2>4. Groups' = Groups \ {job.victim}
    BY <1>5 DEF Groups, Manifests, OnDisk
  <2>5. Found(job') /\ Swept(job')
    BY <2>1, <2>2, <2>3, DeletedSwept
  <2> QED
    BY <2>1, <2>2, <2>3, <2>4, <2>5
<1> QED
  BY <1>2, <1>4, <1>5

LEMMA NotSweeping ==
  ASSUME ~Sweeping(job')
  PROVE  SweepInv'
  BY DEF SweepInv, Sweeping

LEMMA SameSweep ==
  ASSUME SweepInv, UNCHANGED <<job, files>>
  PROVE  SweepInv'
<1>1. Groups' = Groups
  BY SameGroups
<1> QED
  BY <1>1 DEF SweepInv, Found, Swept, Doomed

LEMMA SweepNext ==
  ASSUME WorkInv, JobInv, StampInv, SweepInv, [Next]_vars
  PROVE  SweepInv'
<1>1. CASE UNCHANGED vars \/ AttemptStep \/ TakeStep
  <2>1. UNCHANGED <<job, files>>
    BY <1>1 DEF vars, diagnosticVars, disk, AttemptStep, TakeStep
  <2> QED
    BY <2>1, SameSweep
<1>2. CASE EndOfProcess \/ UndoSave \/ EndSweep
  <2>1. job' = NoJob
    BY <1>2 DEF EndOfProcess, ProcessEnds, UndoSave, EndSweep, Release
  <2> QED
    BY <2>1, NotSweeping DEF Sweeping, NoJob
<1>3. CASE Diagnose
  <2>1. CASE CleanupOldManagedTemps \/ PickGroup \/ NextPass
    BY <2>1, CleanupSweep, PickSweep, NextPassSweep
  <2>2. CASE DeleteAudio \/ DeleteManifest
    BY <2>2, DeleteAudioSweep, DeleteManifestSweep
  <2>3. CASE WriteTemp
    <3>1. job.step = "temp" /\ job \in SaveJobs
      BY <2>3, JobKinds DEF JobInv, JobOK, WriteTemp
    <3>2. job'.step \in {"rename", "undo"}
      BY <2>3, <3>1 DEF WriteTemp, SaveJobs
    <3> QED
      BY <3>2, NotSweeping DEF Sweeping
  <2>4. CASE RenameTemp
    <3>1. job.step = "rename" /\ job \in SaveJobs
      BY <2>4, JobKinds DEF JobInv, JobOK, RenameTemp
    <3> DEFINE committed == job.committed \union {Head(job.todo)}
               todo == Tail(job.todo)
    <3>2. \/ job'.step = "clean"
          \/ job' = [job EXCEPT !.step = "temp", !.todo = todo, !.committed = committed]
          \/ job' = [job EXCEPT !.step = "undo"]
      BY <2>4, <3>1 DEF RenameTemp, SaveJobs
    <3> HIDE DEF committed, todo
    <3>3. job'.step \in {"clean", "temp", "undo"}
      BY <3>1, <3>2 DEF SaveJobs
    <3> QED
      BY <3>3, NotSweeping DEF Sweeping
  <2>5. ASSUME NEW w \in waiting, StartSave(w)
        PROVE  SweepInv'
    <3>1. files' = files /\ (job' = job \/ job'.step = "temp")
      BY <2>5 DEF StartSave, SaveJob
    <3> QED
      BY <3>1, NotSweeping, SameSweep DEF Sweeping
  <2>6. CASE FinalizeStep \/ WaitForPendingWrites \/ DayPasses
    <3>1. UNCHANGED <<job, files>>
      BY <2>6 DEF FinalizeStep, CountWriter, StartWriter, WaitForPendingWrites,
           DayPasses, disk
    <3> QED
      BY <3>1, SameSweep
  <2>7. CASE DeleteManagedRecordings
    <3>1. job'.by = Settings
      BY <2>7 DEF DeleteManagedRecordings, SweepJob
    <3>2. Settings \notin Attempts
      BY DiagnosticsAssumption DEF Settings
    <3> QED
      BY <3>1, <3>2, NotSweeping DEF Sweeping
  <2> QED
    BY <1>2, <1>3, <2>1, <2>2, <2>3, <2>4, <2>5, <2>6, <2>7 DEF Diagnose, WriterStep
<1> QED
  BY <1>1, <1>2, <1>3, StepKinds

LEMMA RetentionInit ==
  ASSUME Init
  PROVE  RetentionInv
<1>1. files = {} /\ job = NoJob /\ incidents = 0
  BY DEF Init, DiagnosticsInit
<1>2. StampInv
  BY <1>1, FS_EmptySet DEF StampInv
<1>3. SweepInv
  BY <1>1 DEF SweepInv, Sweeping, NoJob
<1> QED
  BY <1>1, <1>2, <1>3 DEF RetentionInv, CountInv

LEMMA RetentionNext ==
  ASSUME Inv, RetentionInv, [Next]_vars
  PROVE  RetentionInv'
<1>1. WorkInv /\ JobInv /\ DiskInv /\ StampInv /\ SweepInv /\ CountInv
  BY DEF Inv, RetentionInv
<1>2. StampInv' /\ SweepInv' /\ CountInv'
  BY <1>1, StampNext, SweepNext, CountNext
<1> QED
  BY <1>2 DEF RetentionInv

\* A sweep that ends has left what the limits allow.
LEMMA SweepEnds ==
  ASSUME Inv, RetentionInv, [Next]_vars, job.step = "pick", job.by # Settings,
         job' = NoJob, incidents' = incidents, ~job.failed
  PROVE  Groups' = Fitting
<1>1. WorkInv /\ JobInv /\ JobType(job) /\ incidents \in Nat
  BY DEF Inv, JobInv, JobOK, RetentionInv, CountInv
<1>2. SweepType(job) /\ job.by \in Attempts /\ job # NoJob
  BY <1>1, JobKinds
<1>3. Groups = job.live /\ Found(job) /\ Swept(job)
  BY <1>2 DEF RetentionInv, SweepInv, Sweeping
<1>4. EndSweep
  <2>1. ~(UNCHANGED vars \/ AttemptStep \/ TakeStep)
    BY <1>2 DEF vars, diagnosticVars, disk, AttemptStep, TakeStep
  <2>2. ~EndOfProcess
    BY <1>1 DEF EndOfProcess, ProcessEnds, Incident
  <2>3. Diagnose
    BY <1>1, <2>1, <2>2, StepKinds
  <2>4. ~(WriteTemp \/ RenameTemp \/ UndoSave \/ CleanupOldManagedTemps)
    BY DEF WriteTemp, RenameTemp, UndoSave, CleanupOldManagedTemps
  <2>5. ~(PickGroup \/ NextPass)
    BY <1>1, PickGroupJob, NextPassJob DEF GoesOn
  <2>6. ~(DeleteAudio \/ DeleteManifest \/ \E w \in waiting : StartSave(w))
    BY <1>2 DEF DeleteAudio, DeleteManifest, StartSave
  <2>7. ~(FinalizeStep \/ WaitForPendingWrites \/ DayPasses \/ DeleteManagedRecordings)
    BY <1>2 DEF FinalizeStep, CountWriter, StartWriter, WaitForPendingWrites, DayPasses,
         DeleteManagedRecordings, disk
  <2> QED
    BY <2>3, <2>4, <2>5, <2>6, <2>7 DEF Diagnose, WriterStep
<1>5. Candidates = {} /\ job.pass = "size" /\ files' = files /\ job.tried = {}
  BY <1>3, <1>4 DEF EndSweep, Swept
<1>6. ~TooMany(job.sizes, job.live)
  <2>1. CASE job.live = {}
    BY <2>1, NoneIsWithin
  <2>2. CASE job.live # {}
    BY <1>5, <2>2 DEF Candidates
  <2> QED
    BY <2>1, <2>2
<1>7. job.live = Fitting
  BY <1>3, <1>5, <1>6, SweptIsFitting
<1>8. Groups' = Groups
  BY <1>5, SameGroups
<1> QED
  BY <1>3, <1>7, <1>8

\* A save whose sweep could delete what it had to leaves exactly the newest groups that
\* the limits on their age, number and bytes allow together, whatever the limits and
\* whatever the groups on the disk (ApplyRetention, DeleteManagedGroup).
THEOREM OnlyTheNewestStay == Spec => RetentionHolds
<1>1. Init => RetentionInv
  BY RetentionInit
<1>2. Inv /\ RetentionInv /\ [Next]_vars => RetentionInv'
  BY RetentionNext
<1>3. Inv /\ RetentionInv /\ [Next]_vars =>
        [job.step = "pick" /\ job.by # Settings /\ job' = NoJob
           /\ incidents' = incidents /\ ~job.failed => Groups' = Fitting]_diagnosticVars
  BY SweepEnds
<1> QED
  BY <1>1, <1>2, <1>3, Invariance, PTL DEF Spec, RetentionHolds
=============================================================================
