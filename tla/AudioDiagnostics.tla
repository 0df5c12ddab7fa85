-------------------------- MODULE AudioDiagnostics --------------------------
(***************************************************************************)
(* The diagnostic recordings: the attempts that are open in memory, the    *)
(* writer threads that save them, and the files they leave on the disk,    *)
(* with retention, the Delete button of Settings, crashes and the exit of  *)
(* the program.                                                            *)
(*                                                                         *)
(* The calls that collect an attempt (BeginAttempt ... CompleteStage) are  *)
(* operators on g_attempts, one lock section each; the module that         *)
(* extends this one has the threads that make them.  FinalizeAttempt is    *)
(* three lock sections: take the attempt, count a writer, start it.        *)
(*                                                                         *)
(* job is what the holder of g_fileIoMutex does.  A file is a WAV of one   *)
(* content or a manifest; a WAV has size 1 and a manifest none.            *)
(***************************************************************************)
EXTENDS Integers, SequencesExt, FiniteSetsExt

CONSTANTS
  Attempts,    \* the recordings, numbered in the order they begin
  MaxGroups,   \* kRetentionMaxGroups
  MaxBytes,    \* kRetentionMaxBytes
  MaxAge,      \* kRetentionMaxAgeDays
  MaxDays,     \* bound: days that pass
  MaxIncidents \* bound: ends of the process, by exit or crash, and file
               \* operations and thread starts that fail

ASSUME DiagnosticsAssumption ==
  /\ Attempts \subseteq Nat \ {0} /\ IsFiniteSet(Attempts)
  /\ {MaxGroups, MaxBytes, MaxAge, MaxDays, MaxIncidents} \subseteq Nat

VARIABLES
  attempts, \* g_attempts: the open attempts
  finals,   \* calls of FinalizeAttempt that have taken an attempt to save
  pending,  \* g_pendingWriters
  threads,  \* g_writerThreads
  waiting,  \* writer threads that have not got g_fileIoMutex yet
  job,      \* what the holder of g_fileIoMutex does
  files,    \* the diagnostics directory
  day,      \* the clock
  exit,     \* how far the program's exit is
  torn,     \* history: groups a crash or a failed deletion has hit
  incidents \* those so far

memory == <<attempts, finals, pending, threads, waiting>>
disk == <<job, files, torn>>
bounds == <<day, incidents>>
diagnosticVars == <<memory, disk, bounds, exit>>

(***************************************************************************)
(* An attempt.  A stage is one provider's work on the recording, with its  *)
(* input and how it ended; sent is history: the requests made under it.    *)
(* A terminal is "good", "bad" or "plain": HasContradictoryStages knows    *)
(* the terminals of the streaming providers as successes, and not those of *)
(* the HTTP providers, the Doubao sessions or the local recognizer.        *)
(***************************************************************************)

NewAttempt(mode) ==
  [mode |-> mode, size |-> "none", pcm |-> "none", stages |-> <<>>]

NewStage == [pcm |-> "none", terminal |-> "none", sent |-> 0]

\* a map with one more entry, or another value for one it has
Put(map, key, value) ==
  [k \in DOMAIN map \union {key} |-> IF k = key THEN value ELSE map[k]]

FindOrCreateStage(a, key) ==
  IF key \in DOMAIN a.stages THEN a.stages[key] ELSE NewStage

WithStage(as, i, key, stage) ==
  IF i \in DOMAIN as
  THEN [as EXCEPT ![i].stages = Put(@, key, stage)]
  ELSE as

BeginAttempt(as, i, mode) ==
  IF mode = "off" THEN as ELSE Put(as, i, NewAttempt(mode))

DiscardAttempt(as, i) == [j \in DOMAIN as \ {i} |-> as[j]]

AttachCapture(as, i, size) ==
  IF i \in DOMAIN as
  THEN [as EXCEPT ![i].size = size,
                  ![i].pcm = IF size = "none" THEN "none" ELSE "raw"]
  ELSE as

StageOf(as, i, key) ==
  IF i \in DOMAIN as THEN FindOrCreateStage(as[i], key) ELSE NewStage

\* RegisterStageInput and AppendStageInput
StageInput(as, i, key, pcm) ==
  WithStage(as, i, key, [StageOf(as, i, key) EXCEPT !.pcm = pcm])

CompleteStage(as, i, key, terminal) ==
  WithStage(as, i, key, [StageOf(as, i, key) EXCEPT !.terminal = terminal])

CompleteStageIfMissing(as, i, key, terminal) ==
  IF StageOf(as, i, key).terminal = "none"
  THEN CompleteStage(as, i, key, terminal)
  ELSE as

AlwaysInternalRetry(kind) == "internal_retry"

RetryStageKind(kind) == IF kind = "fallback" THEN kind ELSE "internal_retry"

RetryStageIndex(kind, index, n) == IF kind = "fallback" THEN index + n ELSE n

(***************************************************************************)
(* What is saved.  The sizes are those the decision tells apart: no PCM,   *)
(* under 8000 bytes, under three seconds, longer.                          *)
(***************************************************************************)

HasContradictoryStages(a) ==
  {"good", "bad"} \subseteq {a.stages[k].terminal : k \in DOMAIN a.stages}

ShouldSaveDiagnosticAudio(a, kind) ==
  /\ kind # "cancelled"
  /\ \/ kind = "capture_failure"
     \/ /\ a.size # "none"
        /\ \/ a.mode = "all"
           \/ /\ kind # "too_short"
              /\ \/ HasContradictoryStages(a)
                 \/ kind = "no_speech" /\ a.size = "full"
                 \/ kind = "operational_error" /\ a.size # "tiny"

\* the WAVs of a group: one for each content
Artifacts(a) ==
  ({a.pcm} \union {a.stages[k].pcm : k \in DOMAIN a.stages}) \ {"none"}

(***************************************************************************)
(* The directory                                                           *)
(***************************************************************************)

Stamp == 1 + Max({f.stamp : f \in files} \union {0})

\* A file, with its time of writing: a day, and its place among the others.
FileOf(g, part, tmp, lists) ==
  [group |-> g, part |-> part, tmp |-> tmp, lists |-> lists, day |-> day,
   stamp |-> Stamp]

OnDisk(g) == {f \in files : f.group = g}
Manifests(fs) == {f \in fs : f.part = "json" /\ ~f.tmp}
Audio(fs) == {f \in fs : f.part # "json" /\ ~f.tmp}

\* EnumerateManagedGroups: a group is a manifest and what belongs to it.
Groups == {f.group : f \in Manifests(files)}
SizeOf(g) == Cardinality(Audio(OnDisk(g)))
ManifestOf(g) == CHOOSE f \in files : f \in Manifests(OnDisk(g))

NoJob == [by |-> 0, step |-> "none"]

SaveJob(w) ==
  [by |-> w.group, late |-> w.late, step |-> "temp", committed |-> {},
   audio |-> w.audio, todo |-> SetToSeq(w.audio) \o <<"json">>]

\* all: the groups found; live: those not deleted; tried: those that were
\* tried in this pass; failed: a deletion has failed.
SweepJob(by, late, pass) ==
  [by |-> by, late |-> late, step |-> "pick", pass |-> pass, victim |-> 0,
   all |-> Groups, live |-> Groups, tried |-> {}, failed |-> FALSE,
   sizes |-> [g \in Groups |-> SizeOf(g)], now |-> day,
   manifests |-> [g \in Groups |-> ManifestOf(g)]]

\* by of DeleteManagedRecordings, which runs on the main thread
Settings == -1
MainIsFree == job.by # Settings

Incident == incidents < MaxIncidents /\ incidents' = incidents + 1

\* the holder of the mutex is done; a writer thread has ended then
WriterFinished == pending' = IF pending > 0 THEN pending - 1 ELSE 0

Release ==
  /\ job' = NoJob
  /\ IF job.by = Settings THEN UNCHANGED pending ELSE WriterFinished

(***************************************************************************)
(* SaveAttempt                                                             *)
(***************************************************************************)

\* The writer gets g_fileIoMutex, or it ends: there is no directory.
StartSave(w) ==
  /\ job = NoJob
  /\ waiting' = waiting \ {w}
  /\ \/ job' = SaveJob(w) /\ UNCHANGED <<pending, incidents>>
     \/ Incident /\ WriterFinished /\ UNCHANGED job
  /\ UNCHANGED <<attempts, finals, threads, files, torn, day, exit>>

\* AtomicWriteFile fills a temporary file ...
WriteTemp ==
  /\ job.step = "temp"
  /\ \/ /\ files' = files \union
             {FileOf(job.by, Head(job.todo), TRUE,
                     IF Head(job.todo) = "json" THEN job.audio ELSE {})}
        /\ job' = [job EXCEPT !.step = "rename"]
        /\ UNCHANGED incidents
     \/ /\ Incident
        /\ job' = [job EXCEPT !.step = "undo"]
        /\ UNCHANGED files
  /\ UNCHANGED <<memory, torn, day, exit>>

\* mutant: a file that could not be renamed is passed over
RenameUnchecked ==
  /\ job.step = "rename"
  /\ LET temp == {f \in OnDisk(job.by) : f.tmp}
         next == IF Head(job.todo) = "json"
                 THEN [by |-> job.by, late |-> job.late, step |-> "clean"]
                 ELSE [job EXCEPT !.step = "temp", !.todo = Tail(@)]
     IN \/ /\ files' = (files \ temp) \union
                         {[f EXCEPT !.tmp = FALSE] : f \in temp}
           /\ job' = next
           /\ UNCHANGED incidents
        \/ Incident /\ files' = files \ temp /\ job' = next
  /\ UNCHANGED <<memory, torn, day, exit>>

\* ... and renames it.
RenameTemp ==
  /\ job.step = "rename"
  /\ LET temp == {f \in OnDisk(job.by) : f.tmp}
     IN \/ /\ files' = (files \ temp) \union
                         {[f EXCEPT !.tmp = FALSE] : f \in temp}
           /\ job' = IF Head(job.todo) = "json"
                     THEN [by |-> job.by, late |-> job.late, step |-> "clean"]
                     ELSE [job EXCEPT !.step = "temp", !.todo = Tail(@),
                                      !.committed = @ \union {Head(job.todo)}]
           /\ UNCHANGED incidents
        \/ /\ Incident
           /\ files' = files \ temp
           /\ job' = [job EXCEPT !.step = "undo"]
  /\ UNCHANGED <<memory, torn, day, exit>>

\* A file could not be written: those before it are deleted.
UndoSave ==
  /\ job.step = "undo"
  /\ \E kept \in SUBSET {f \in OnDisk(job.by) : f.part \in job.committed} :
       /\ files' = files \ (OnDisk(job.by) \ kept)
       /\ IF kept = {}
          THEN UNCHANGED <<torn, incidents>>
          ELSE Incident /\ torn' = torn \union {job.by}
  /\ Release
  /\ UNCHANGED <<attempts, finals, threads, waiting, day, exit>>

(***************************************************************************)
(* ApplyRetention and DeleteManagedRecordings                              *)
(***************************************************************************)

CleanupOldManagedTemps ==
  /\ job.step = "clean"
  /\ files' = {f \in files : f.tmp => day - f.day <= 1}
  /\ job' = SweepJob(job.by, job.late, "age")
  /\ UNCHANGED <<memory, torn, bounds, exit>>

Older(g, h) == job.manifests[g].stamp < job.manifests[h].stamp
TooOld(g) == job.now - job.manifests[g].day > MaxAge
Oldest(groups) == CHOOSE g \in groups : \A h \in groups \ {g} : Older(g, h)
Bytes(sizes, groups) == SumFunctionOnSet(sizes, groups)

TooMany(sizes, groups) ==
  Cardinality(groups) > MaxGroups \/ Bytes(sizes, groups) > MaxBytes

\* mutant: the second pass counts the groups found, not those still there
CandidatesUncounted ==
  {g \in job.live \ job.tried :
     CASE job.pass = "age" -> TooOld(g)
       [] job.pass = "size" -> TooMany(job.sizes, job.all)
       [] job.pass = "all" -> TRUE}

\* the groups a pass would delete now
Candidates ==
  {g \in job.live \ job.tried :
     CASE job.pass = "age" -> TooOld(g)
       [] job.pass = "size" -> TooMany(job.sizes, job.live)
       [] job.pass = "all" -> TRUE}

PickGroup ==
  /\ job.step = "pick"
  /\ Candidates # {}
  /\ job' = [job EXCEPT !.step = "audio", !.victim = Oldest(Candidates)]
  /\ UNCHANGED <<memory, files, torn, bounds, exit>>

NextPass ==
  /\ job.step = "pick"
  /\ Candidates = {} /\ job.pass = "age"
  /\ job' = [job EXCEPT !.pass = "size", !.tried = {}]
  /\ UNCHANGED <<memory, files, torn, bounds, exit>>

EndSweep ==
  /\ job.step = "pick"
  /\ Candidates = {} /\ job.pass # "age"
  /\ Release
  /\ UNCHANGED <<attempts, finals, threads, waiting, files, torn, bounds,
                 exit>>

\* DeleteManagedGroup: the WAVs ...
DeleteAudio ==
  /\ job.step = "audio"
  /\ \E kept \in SUBSET Audio(OnDisk(job.victim)) :
       /\ files' = files \ (Audio(OnDisk(job.victim)) \ kept)
       /\ job' = [job EXCEPT !.step = "manifest",
                             !.failed = @ \/ kept # {},
                             !.tried = IF kept # {}
                                       THEN @ \union {job.victim} ELSE @]
       /\ IF kept = {}
          THEN UNCHANGED <<torn, incidents>>
          ELSE Incident /\ torn' = torn \union {job.victim}
  /\ UNCHANGED <<memory, day, exit>>

\* ... and the manifest, also when a WAV is still there.
DeleteManifest ==
  /\ job.step = "manifest"
  /\ \/ /\ files' = files \ Manifests(OnDisk(job.victim))
        /\ job' = [job EXCEPT !.step = "pick",
                              !.live = IF job.victim \in job.tried
                                       THEN @ ELSE @ \ {job.victim}]
        /\ UNCHANGED <<torn, incidents>>
     \/ /\ Incident
        /\ torn' = torn \union {job.victim}
        /\ job' = [job EXCEPT !.step = "pick", !.failed = TRUE,
                              !.tried = @ \union {job.victim}]
        /\ UNCHANGED files
  /\ UNCHANGED <<memory, day, exit>>

DeleteManagedRecordings ==
  /\ job = NoJob /\ exit = "open" /\ files # {}
  /\ job' = SweepJob(Settings, FALSE, "all")
  /\ UNCHANGED <<memory, files, torn, bounds, exit>>

(***************************************************************************)
(* FinalizeAttempt and the writer threads                                  *)
(***************************************************************************)

\* WaitForPendingWrites(0), then the attempt is taken out of g_attempts.
TakeAttempt(as, i, kind) ==
  /\ threads' = IF pending = 0 THEN {} ELSE threads
  /\ attempts' = DiscardAttempt(as, i)
  /\ finals' = IF i \in DOMAIN as /\ ShouldSaveDiagnosticAudio(as[i], kind)
               THEN finals \union {[group |-> i, step |-> "taken",
                                    audio |-> Artifacts(as[i]),
                                    late |-> FALSE]}
               ELSE finals
  /\ UNCHANGED <<pending, waiting>>

\* mutant: the writer is not counted before it is started
CountNothing(f) ==
  /\ f.step = "taken"
  /\ finals' = (finals \ {f}) \union
                 {[f EXCEPT !.step = "counted", !.late = exit = "ended"]}
  /\ UNCHANGED <<attempts, pending, threads, waiting, disk, bounds, exit>>

CountWriter(f) ==
  /\ f.step = "taken"
  /\ pending' = pending + 1
  /\ finals' = (finals \ {f}) \union
                 {[f EXCEPT !.step = "counted", !.late = exit = "ended"]}
  /\ UNCHANGED <<attempts, threads, waiting, disk, bounds, exit>>

StartWriter(f) ==
  /\ f.step = "counted"
  /\ finals' = finals \ {f}
  /\ \/ /\ threads' = threads \union {[group |-> f.group, late |-> f.late]}
        /\ waiting' = waiting \union {f}
        /\ UNCHANGED <<pending, incidents>>
     \/ Incident /\ WriterFinished /\ UNCHANGED <<threads, waiting>>
  /\ UNCHANGED <<attempts, disk, day, exit>>

\* wWinMain waits for the writers after its message loop, and the guard's
\* destructor waits once more.
WaitForPendingWrites ==
  /\ exit \in {"closing", "drained"}
  /\ pending = 0 /\ MainIsFree
  /\ threads' = {}
  /\ exit' = IF exit = "closing" THEN "drained" ELSE "ended"
  /\ UNCHANGED <<attempts, finals, pending, waiting, disk, bounds>>

(***************************************************************************)
(* Crashes and the end of the process                                      *)
(***************************************************************************)

InWork ==
  CASE job.step \in {"temp", "rename", "undo"} -> {job.by}
    [] job.step \in {"audio", "manifest"} -> {job.victim}
    [] OTHER -> {}

\* The process is gone, and starts again.
ProcessEnds ==
  /\ Incident
  /\ attempts' = <<>> /\ finals' = {} /\ pending' = 0
  /\ threads' = {} /\ waiting' = {} /\ job' = NoJob /\ exit' = "open"
  /\ torn' = torn \union InWork
  /\ UNCHANGED <<files, day>>

\* Nobody can tell the day while there is no file.
DayPasses ==
  /\ files # {} /\ day < MaxDays /\ day' = day + 1
  /\ UNCHANGED <<memory, disk, incidents, exit>>

DiagnosticsInit ==
  /\ attempts = <<>> /\ finals = {} /\ pending = 0 /\ threads = {}
  /\ waiting = {} /\ job = NoJob /\ files = {} /\ day = 0 /\ exit = "open"
  /\ torn = {} /\ incidents = 0

WriterStep ==
  \/ \E w \in waiting : StartSave(w)
  \/ WriteTemp \/ RenameTemp \/ UndoSave
  \/ CleanupOldManagedTemps \/ PickGroup \/ NextPass \/ EndSweep
  \/ DeleteAudio \/ DeleteManifest

FinalizeStep == \E f \in finals : CountWriter(f) \/ StartWriter(f)

(***************************************************************************)
(* Properties                                                              *)
(***************************************************************************)

\* A recording is on the disk with its manifest and every WAV the manifest
\* lists, or not at all; only a crash or a deletion that failed leaves a
\* part of one.  Retention and the Delete button find recordings by their
\* manifests alone (SaveAttempt, DeleteManagedGroup).
GroupsAreWhole ==
  \A g \in Attempts \ (torn \union InWork) :
    \/ OnDisk(g) = {}
    \/ /\ \A f \in OnDisk(g) : ~f.tmp
       /\ \E m \in Manifests(OnDisk(g)) :
            {f.part : f \in Audio(OnDisk(g))} = m.lists

\* the longest tail of the groups found that the limits allow
Fitting ==
  LET young == {g \in job.all : ~TooOld(g)}
      tails == {{g \in young : ~Older(g, h)} : h \in young} \union {{}}
      fits == {t \in tails : /\ Cardinality(t) <= MaxGroups
                              /\ Bytes(job.sizes, t) <= MaxBytes}
  IN CHOOSE t \in fits : \A u \in fits : u \subseteq t

\* A save that can delete what it has to leaves exactly the newest
\* recordings that 20 groups, 100 MiB and seven days allow, none more and
\* none less (ApplyRetention).
RetentionHolds ==
  [][ job.step = "pick" /\ job.by # Settings /\ job' = NoJob
        /\ incidents' = incidents /\ ~job.failed
      => Groups' = Fitting ]_diagnosticVars

\* When the program ends, no writer is still at work that was counted while
\* the exit waited: a thread that has only taken its attempt by then is the
\* one exception (FinalizeAttempt, WaitForPendingWrites, ~WriterThreadGuard).
ExitWaitsForWriters ==
  exit = "ended" =>
    /\ \A w \in waiting \union threads : w.late
    /\ job # NoJob => job.late
    /\ \A f \in finals : f.step = "counted" => f.late
=============================================================================
