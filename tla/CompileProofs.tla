---------------------------- MODULE CompileProofs ----------------------------
(***************************************************************************)
(* What holds after compiling for any source tree, any configurations, and *)
(* any number of edits, deleted artifacts, failures and crashes before it. *)
(***************************************************************************)
EXTENDS Compile, TLAPS

(* What the artifacts of a file are made of.                                *)
Closure(contents, f) == {f} \cup Reached(ImportsIn(contents), ImportsOf[contents[f]])

CacheOK(cache) ==
  /\ DOMAIN cache \subseteq Files
  /\ \A f \in DOMAIN cache :
       cache[f].contentHash \in Contents /\ cache[f].artifacts = ContractsOf[cache[f].contentHash]

Hashes(cache) == [f \in DOMAIN cache |-> cache[f].contentHash]

(* The debug file of an artifact names the run of the compiler that made it.*)
DebugOK(fc) ==
  /\ OnDisk(DebugFile(fc))
  /\ disk[DebugFile(fc)].solc = disk[Artifact(fc)].solc
  /\ Restrict(disk[DebugFile(fc)].sources, DOMAIN disk[Artifact(fc)].sources) = disk[Artifact(fc)].sources

(* An artifact is of the files that were read, and of the compiler that the *)
(* task's cache has for its file.                                           *)
AsCached(fc) ==
  /\ ArtifactExists(fc)
  /\ disk[Artifact(fc)].sources = Restrict(task.read, {fc[1]} \cup task.deps[fc[1]])
  /\ disk[Artifact(fc)].solc = task.cache[fc[1]].solcConfig

(* If there still is an artifact, it is of the contents a cache remembers,  *)
(* of the file and of all it depended on.                                   *)
Follows(fc, cache) ==
  ArtifactExists(fc) =>
    /\ Closure(Hashes(cache), fc[1]) \subseteq DOMAIN cache
    /\ disk[Artifact(fc)].sources = Restrict(Hashes(cache), Closure(Hashes(cache), fc[1]))
    /\ disk[Artifact(fc)].solc = cache[fc[1]].solcConfig
    /\ DebugOK(fc)

Emitted == IF task.name = "compile" THEN task.emitted ELSE {}

(* The cache on disk can be relied on for all files but those in doubt and  *)
(* those this task has compiled.                                            *)
StoredOK ==
  OnDisk(Cache) /\ ~IsTorn(Cache) =>
    /\ CacheOK(disk[Cache])
    /\ \A f \in DOMAIN disk[Cache] \ (doubtful \cup Emitted) :
         \A contract \in disk[Cache][f].artifacts : Follows(<<f, contract>>, disk[Cache])
------------------------------------------------------------------------------
(* The task                                                                 *)
JobOK(job, read) ==
  /\ job.solc \in Solcs
  /\ job.emits \subseteq DOMAIN read
  /\ job.files \subseteq DOMAIN read
  /\ \A f \in job.emits : Closure(read, f) \subseteq job.files

ReadOK(read, deps) ==
  /\ DOMAIN read \subseteq Files
  /\ read \in [DOMAIN read -> Contents]
  /\ \A f \in DOMAIN read : Closure(read, f) \subseteq DOMAIN read
  /\ deps = TransitiveDependencies(read)

(* The compiler has made the file, with the compiler the cache has for it,  *)
(* from contents that include what the file depends on.                     *)
MadeOf(f) ==
  /\ f \in task.emitted /\ f \in DOMAIN task.cache
  /\ task.buildInfo.solc \in Solcs
  /\ task.buildInfo.solc = task.cache[f].solcConfig
  /\ Closure(task.read, f) \subseteq DOMAIN task.buildInfo.sources
  /\ \A g \in Closure(task.read, f) : task.buildInfo.sources[g] = task.read[g]

Saving(fc) == task.step = "save debug file" /\ task.of = fc

Waits(f) == \E job \in task.jobs : f \in job.emits

(* An artifact is written or will be; and as it should be.                  *)
HasArtifact(fc) == fc \in task.toEmit \/ ArtifactExists(fc)
IsMade(fc) == fc \in task.toEmit \/ (AsCached(fc) /\ (Saving(fc) \/ DebugOK(fc)))

(* The cache is right about a file, and its artifacts are there.            *)
Done(f) ==
  /\ f \in DOMAIN task.cache /\ task.cache[f].contentHash = task.read[f]
  /\ \A contract \in ContractsOf[task.read[f]] : HasArtifact(<<f, contract>>)

DoneFresh(f) == \A contract \in ContractsOf[task.read[f]] : IsMade(<<f, contract>>)

FilesOK ==
  /\ \A f \in DOMAIN task.read : Waits(f) \/ Done(f)
  /\ \A f \in DOMAIN task.read \ (doubtful \ task.emitted) : Waits(f) \/ DoneFresh(f)

(* What the compiler has made and the task still has to write.              *)
EmitsOK ==
  /\ task.emitted \subseteq DOMAIN task.read
  /\ \A fc \in task.toEmit : fc \in ContractsIn(DOMAIN task.read, task.read) /\ MadeOf(fc[1])
  /\ task.step = "save debug file" =>
       task.of \in ContractsIn(DOMAIN task.read, task.read) /\ MadeOf(task.of[1]) /\ AsCached(task.of)
  /\ task.step = "remove debug file" =>
       task.toEmit = {} /\ task.of \in Named \ ValidArtifacts /\ ~OnDisk(Artifact(task.of))

Shape ==
  /\ DOMAIN task = {"name", "step", "config", "existing", "read", "deps", "cache", "jobs", "buildInfo",
                    "toEmit", "of", "emitted"}
  /\ task.step \in {"jobs", "save debug file", "remove debug file", "remove build info"}

CompileTaskOK ==
  /\ Shape
  /\ ReadOK(task.read, task.deps)
  /\ CacheOK(task.cache)
  /\ \A job \in task.jobs : JobOK(job, task.read)
  /\ EmitsOK
  /\ FilesOK

TaskOK ==
  \/ task = Idle
  \/ task = [name |-> "clean"]
  \/ task.name = "compile" /\ CompileTaskOK

CompileInv ==
  /\ sources \in Trees
  /\ config \in ProjectConfigs
  /\ StoredOK
  /\ TaskOK

------------------------------------------------------------------------------
(* What is reached                                                          *)
LEMMA ReachedFacts ==
  ASSUME NEW contents, NEW from, from \subseteq Files
  PROVE  LET R == Reached(ImportsIn(contents), from)
         IN  /\ from \subseteq R /\ R \subseteq Files
             /\ ClosedUnder(ImportsIn(contents), R)
             /\ \A S \in SUBSET Files : from \subseteq S /\ ClosedUnder(ImportsIn(contents), S) => R \subseteq S
<1> DEFINE R == Reached(ImportsIn(contents), from)
<1>1. from \subseteq R /\ R \subseteq Files
  BY DEF Reached
<1>2. \A S \in SUBSET Files : from \subseteq S /\ ClosedUnder(ImportsIn(contents), S) => R \subseteq S
  BY DEF Reached
<1>3. ASSUME NEW p \in ImportsIn(contents), p[1] \in R PROVE p[2] \in R
  <2>1. p[2] \in Files
    BY DEF ImportsIn
  <2>2. \A S \in SUBSET Files : from \subseteq S /\ ClosedUnder(ImportsIn(contents), S) => p[2] \in S
    BY <1>3 DEF Reached, ClosedUnder
  <2> QED
    BY <2>1, <2>2 DEF Reached
<1> QED
  BY <1>1, <1>2, <1>3 DEF ClosedUnder

(* With a file, its closure has all it imports, and nothing else.           *)
LEMMA ClosureFacts ==
  ASSUME NEW contents, NEW f \in DOMAIN contents, f \in Files, contents[f] \in Contents
  PROVE  /\ f \in Closure(contents, f) /\ Closure(contents, f) \subseteq Files
         /\ \A g \in Closure(contents, f) \cap DOMAIN contents :
              \A h \in Files : h \in ImportsOf[contents[g]] => h \in Closure(contents, f)
         /\ \A S \in SUBSET Files :
              /\ f \in S /\ ImportsOf[contents[f]] \subseteq S
              /\ \A g \in S \cap DOMAIN contents : \A h \in Files : h \in ImportsOf[contents[g]] => h \in S
              => Closure(contents, f) \subseteq S
<1> DEFINE from == ImportsOf[contents[f]]
           R == Reached(ImportsIn(contents), from)
<1>1. from \subseteq Files
  BY CompileAssumption
<1>2. /\ from \subseteq R /\ R \subseteq Files
      /\ ClosedUnder(ImportsIn(contents), R)
      /\ \A S \in SUBSET Files : from \subseteq S /\ ClosedUnder(ImportsIn(contents), S) => R \subseteq S
  BY <1>1, ReachedFacts
<1>3. Closure(contents, f) = {f} \cup R
  BY DEF Closure
<1> HIDE DEF R
<1>4. ASSUME NEW g \in R \cap DOMAIN contents, NEW h \in Files, h \in ImportsOf[contents[g]]
      PROVE  h \in R
  <2>1. <<g, h>> \in ImportsIn(contents)
    BY <1>4 DEF ImportsIn
  <2> QED
    BY <2>1, <1>2 DEF ClosedUnder
<1>5. ASSUME NEW S \in SUBSET Files, f \in S, from \subseteq S,
             \A g \in S \cap DOMAIN contents : \A h \in Files : h \in ImportsOf[contents[g]] => h \in S
      PROVE  R \subseteq S
  <2>1. ClosedUnder(ImportsIn(contents), S)
    BY <1>5 DEF ClosedUnder, ImportsIn
  <2> QED
    BY <2>1, <1>2, <1>5
<1> QED
  BY <1>2, <1>3, <1>4, <1>5

(* The closure of a file depends on the contents of its files alone.        *)
LEMMA ClosureAgrees ==
  ASSUME NEW r, NEW s, NEW f \in DOMAIN r, f \in Files, r[f] \in Contents,
         Closure(r, f) \subseteq DOMAIN r, Closure(r, f) \subseteq DOMAIN s,
         \A g \in Closure(r, f) : s[g] = r[g]
  PROVE  Closure(s, f) = Closure(r, f)
<1> DEFINE A == Closure(r, f)
           B == Closure(s, f)
<1>1. /\ f \in A /\ A \subseteq Files
      /\ \A g \in A \cap DOMAIN r : \A h \in Files : h \in ImportsOf[r[g]] => h \in A
      /\ \A S \in SUBSET Files :
           /\ f \in S /\ ImportsOf[r[f]] \subseteq S
           /\ \A g \in S \cap DOMAIN r : \A h \in Files : h \in ImportsOf[r[g]] => h \in S
           => A \subseteq S
  BY ClosureFacts
<1>2. f \in DOMAIN s /\ s[f] = r[f]
  BY <1>1
<1>3. /\ f \in B /\ B \subseteq Files
      /\ \A g \in B \cap DOMAIN s : \A h \in Files : h \in ImportsOf[s[g]] => h \in B
      /\ \A S \in SUBSET Files :
           /\ f \in S /\ ImportsOf[s[f]] \subseteq S
           /\ \A g \in S \cap DOMAIN s : \A h \in Files : h \in ImportsOf[s[g]] => h \in S
           => B \subseteq S
  BY <1>2, ClosureFacts
<1>4. A \subseteq DOMAIN r /\ A \subseteq DOMAIN s /\ \A g \in A : s[g] = r[g]
  OBVIOUS
<1>5. ImportsOf[r[f]] \subseteq Files
  BY CompileAssumption
<1> HIDE DEF A, B
<1>6. B \subseteq A
  <2>1. ImportsOf[s[f]] \subseteq A
    BY <1>1, <1>2, <1>4, <1>5
  <2>2. \A g \in A \cap DOMAIN s : \A h \in Files : h \in ImportsOf[s[g]] => h \in A
    BY <1>1, <1>4
  <2> QED
    BY <2>1, <2>2, <1>1, <1>3
<1>7. A \subseteq A \cap B
  <2>1. ImportsOf[r[f]] \subseteq A \cap B
    BY <1>1, <1>2, <1>3, <1>4, <1>5
  <2>2. \A g \in (A \cap B) \cap DOMAIN r : \A h \in Files : h \in ImportsOf[r[g]] => h \in A \cap B
    BY <1>1, <1>3, <1>4
  <2>3. A \cap B \in SUBSET Files /\ f \in A \cap B
    BY <1>1, <1>3
  <2> QED
    BY <2>1, <2>2, <2>3, <1>1
<1> QED
  BY <1>6, <1>7 DEF A, B

(* Dependencies are the rest of the closure.                                *)
LEMMA Dependencies ==
  ASSUME NEW read, NEW deps, ReadOK(read, deps), NEW f \in DOMAIN read
  PROVE  /\ {f} \cup deps[f] = Closure(read, f)
         /\ Closure(read, f) \subseteq DOMAIN read /\ f \in Closure(read, f)
         /\ f \in Files /\ read[f] \in Contents
BY DEF ReadOK, TransitiveDependencies, Closure

LEMMA ComponentsCover ==
  ASSUME NEW deps, DOMAIN deps \subseteq Files
  PROVE  /\ \A component \in ConnectedComponents(deps) : component \subseteq DOMAIN deps
         /\ \A f \in DOMAIN deps : \E component \in ConnectedComponents(deps) : f \in component
<1> DEFINE linked == {p \in (DOMAIN deps) \X (DOMAIN deps) : p[2] \in deps[p[1]] \/ p[1] \in deps[p[2]]}
<1>1. ConnectedComponents(deps) = {Reached(linked, {f}) : f \in DOMAIN deps}
  BY DEF ConnectedComponents
<1>2. \A p \in linked : p[2] \in DOMAIN deps
  OBVIOUS
<1> HIDE DEF linked
<1>3. ASSUME NEW f \in DOMAIN deps
      PROVE  f \in Reached(linked, {f}) /\ Reached(linked, {f}) \subseteq DOMAIN deps
  <2>1. f \in Reached(linked, {f})
    BY DEF Reached
  <2>2. ClosedUnder(linked, DOMAIN deps)
    BY <1>2 DEF ClosedUnder
  <2> QED
    BY <2>1, <2>2 DEF Reached
<1> QED
  BY <1>1, <1>3

------------------------------------------------------------------------------
(* The jobs                                                                 *)
LEMMA MergedOK ==
  ASSUME NEW read, NEW jobs, jobs # {}, \A job \in jobs : JobOK(job, read)
  PROVE  /\ JobOK(Merged(jobs), read)
         /\ \A job \in jobs : job.emits \subseteq Merged(jobs).emits /\ job.files \subseteq Merged(jobs).files
<1>1. PICK solc : solc \in Solcs /\ solc = (CHOOSE job \in jobs : TRUE).solc
  BY DEF JobOK
<1>2. /\ Merged(jobs).solc = solc
      /\ Merged(jobs).emits = UNION {job.emits : job \in jobs}
      /\ Merged(jobs).files = UNION {job.files : job \in jobs}
  BY <1>1 DEF Merged
<1>3. \A job \in jobs : job.emits \subseteq Merged(jobs).emits /\ job.files \subseteq Merged(jobs).files
  BY <1>2
<1>4. Merged(jobs).emits \subseteq DOMAIN read /\ Merged(jobs).files \subseteq DOMAIN read
  BY <1>2 DEF JobOK
<1>5. ASSUME NEW f \in Merged(jobs).emits PROVE Closure(read, f) \subseteq Merged(jobs).files
  <2>1. PICK job \in jobs : f \in job.emits
    BY <1>2
  <2> QED
    BY <2>1, <1>3 DEF JobOK
<1> QED
  BY <1>1, <1>2, <1>3, <1>4, <1>5 DEF JobOK

(* A file is in a job, or all it depends on is as the cache remembers it.   *)
LEMMA JobsCover ==
  ASSUME NEW read, NEW deps, ReadOK(read, deps), NEW solcOf, NEW cache, NEW force,
         \A f \in DOMAIN read : solcOf[f] \in Solcs,
         NEW jobs, jobs = CompilationJobs(read, deps, solcOf, cache, force)
  PROVE  /\ \A job \in jobs : JobOK(job, read)
         /\ \A f \in DOMAIN read :
              \/ \E job \in jobs : f \in job.emits
              \/ \A g \in Closure(read, f) : g \in DOMAIN cache /\ cache[g].contentHash = read[g]
<1> DEFINE Job(f) == [solc |-> solcOf[f], emits |-> {f}, files |-> {f} \cup deps[f]]
           JobsOf(group) == {Job(f) : f \in group}
           Needed(some) == {job \in some : force \/ NeedsCompilation(job, read, cache)}
           ofFiles == Needed({Job(f) : f \in {g \in DOMAIN read : ~solcOf[g].optimizer}})
           groups ==
             UNION {{{g \in component : solcOf[g] = solcOf[f]} : f \in {h \in component : solcOf[h].optimizer}} :
                      component \in ConnectedComponents(deps)}
           ofGroups == Needed({Merged(JobsOf(group)) : group \in groups})
           ofSolc(solc) == {job \in ofFiles : job.solc = solc}
           merged == {Merged(ofSolc(solc)) : solc \in {job.solc : job \in ofFiles}}
<1>1. jobs = ofGroups \cup merged
  BY DEF CompilationJobs
<1>2. ASSUME NEW f \in DOMAIN read
      PROVE  JobOK(Job(f), read) /\ Job(f).files = Closure(read, f) /\ Job(f).emits = {f}
  BY Dependencies DEF JobOK
<1>3. DOMAIN deps = DOMAIN read /\ DOMAIN read \subseteq Files
  BY DEF ReadOK, TransitiveDependencies
<1>4. /\ \A component \in ConnectedComponents(deps) : component \subseteq DOMAIN read
      /\ \A f \in DOMAIN read : \E component \in ConnectedComponents(deps) : f \in component
  BY <1>3, ComponentsCover
<1>5. /\ \A group \in groups : group \subseteq DOMAIN read /\ group # {}
      /\ \A f \in DOMAIN read : solcOf[f].optimizer => \E group \in groups : f \in group
  <2>1. ASSUME NEW group \in groups PROVE group \subseteq DOMAIN read /\ group # {}
    <3>1. PICK component \in ConnectedComponents(deps) :
            \E f \in component : group = {g \in component : solcOf[g] = solcOf[f]}
      OBVIOUS
    <3>2. PICK f \in component : group = {g \in component : solcOf[g] = solcOf[f]}
      BY <3>1
    <3> QED
      BY <3>1, <3>2, <1>4
  <2>2. ASSUME NEW f \in DOMAIN read, solcOf[f].optimizer PROVE \E group \in groups : f \in group
    <3>1. PICK component \in ConnectedComponents(deps) : f \in component
      BY <1>4
    <3>2. {g \in component : solcOf[g] = solcOf[f]} \in groups
      BY <2>2, <3>1
    <3>3. f \in {g \in component : solcOf[g] = solcOf[f]}
      BY <3>1
    <3> QED
      BY <3>2, <3>3
  <2> QED
    BY <2>1, <2>2
<1> HIDE DEF groups
<1>6. \A job \in ofFiles : JobOK(job, read)
  BY <1>2
<1>7. ASSUME NEW job, job.files \subseteq DOMAIN read, ~NeedsCompilation(job, read, cache),
             NEW g \in job.files
      PROVE  g \in DOMAIN cache /\ cache[g].contentHash = read[g]
  BY <1>7 DEF NeedsCompilation
<1>8. ASSUME NEW group \in groups
      PROVE  /\ JobOK(Merged(JobsOf(group)), read)
             /\ \A f \in group : /\ f \in Merged(JobsOf(group)).emits
                                 /\ Closure(read, f) \subseteq Merged(JobsOf(group)).files
  <2>1. JobsOf(group) # {}
    BY <1>5
  <2>2. \A job \in JobsOf(group) : JobOK(job, read)
    BY <1>2, <1>5
  <2>3. \A f \in group : Job(f) \in JobsOf(group) /\ Job(f).emits = {f} /\ Job(f).files = Closure(read, f)
    BY <1>2, <1>5
  <2> HIDE DEF Job, JobsOf
  <2> QED
    BY <2>1, <2>2, <2>3, MergedOK
<1>9. ASSUME NEW solc \in {job.solc : job \in ofFiles}
      PROVE  /\ JobOK(Merged(ofSolc(solc)), read)
             /\ \A job \in ofSolc(solc) : job.emits \subseteq Merged(ofSolc(solc)).emits
  <2>1. ofSolc(solc) # {} /\ \A job \in ofSolc(solc) : JobOK(job, read)
    BY <1>6
  <2> HIDE DEF ofSolc
  <2> QED
    BY <2>1, MergedOK
<1>10. \A job \in jobs : JobOK(job, read)
  BY <1>1, <1>8, <1>9
<1>11. ASSUME NEW f \in DOMAIN read, solcOf[f].optimizer
       PROVE  \/ \E job \in jobs : f \in job.emits
              \/ \A g \in Closure(read, f) : g \in DOMAIN cache /\ cache[g].contentHash = read[g]
  <2>1. PICK group \in groups : f \in group
    BY <1>5, <1>11
  <2> DEFINE job == Merged(JobsOf(group))
  <2>2. JobOK(job, read) /\ f \in job.emits /\ Closure(read, f) \subseteq job.files
    BY <1>8, <2>1
  <2>3. NeedsCompilation(job, read, cache) => job \in jobs
    BY <1>1, <2>1
  <2> HIDE DEF job
  <2> QED
    BY <2>2, <2>3, <1>7 DEF JobOK
<1>12. ASSUME NEW f \in DOMAIN read, ~solcOf[f].optimizer
       PROVE  \/ \E job \in jobs : f \in job.emits
              \/ \A g \in Closure(read, f) : g \in DOMAIN cache /\ cache[g].contentHash = read[g]
  <2>1. JobOK(Job(f), read) /\ Job(f).files = Closure(read, f) /\ Job(f).emits = {f}
    BY <1>2
  <2>2. CASE NeedsCompilation(Job(f), read, cache)
    <3>1. Job(f) \in ofFiles
      BY <2>2, <1>12
    <3>2. Job(f).solc \in {job.solc : job \in ofFiles} /\ Job(f) \in ofSolc(Job(f).solc)
      BY <3>1
    <3>3. Merged(ofSolc(Job(f).solc)) \in jobs
      BY <3>2, <1>1
    <3>4. f \in Merged(ofSolc(Job(f).solc)).emits
      BY <3>2, <2>1, <1>9
    <3> QED
      BY <3>3, <3>4
  <2>3. CASE ~NeedsCompilation(Job(f), read, cache)
    BY <2>1, <2>3, <1>7 DEF JobOK
  <2> QED
    BY <2>2, <2>3
<1> QED
  BY <1>10, <1>11, <1>12

------------------------------------------------------------------------------
(* What a step does to the disk                                             *)
Same(path) ==
  /\ OnDisk(path)' <=> OnDisk(path)
  /\ OnDisk(path) => disk'[path] = disk[path]

LEMMA WriteEffect ==
  ASSUME NEW path, NEW content, Write(path, content)
  PROVE  /\ OnDisk(path)' /\ disk'[path] = content
         /\ \A other : other # path => Same(other)
BY DEF Write, Over, Same, OnDisk

LEMMA RemoveEffect ==
  ASSUME NEW path, Remove(path)
  PROVE  ~OnDisk(path)' /\ \A other : other # path => Same(other)
BY DEF Remove, Restrict, Same, OnDisk

LEMMA Paths ==
  ASSUME NEW fc \in Named, NEW gc \in Named, NEW name
  PROVE  /\ fc # gc => Artifact(fc) # Artifact(gc) /\ DebugFile(fc) # DebugFile(gc)
         /\ Artifact(fc) # DebugFile(gc)
         /\ Cache \notin {Artifact(fc), DebugFile(fc), BuildInfo(name)}
         /\ BuildInfo(name) \notin {Artifact(fc), DebugFile(fc)}
BY DEF Named, Artifact, DebugFile, Cache, BuildInfo

LEMMA ArtifactKept ==
  ASSUME NEW fc, Same(Artifact(fc))
  PROVE  ArtifactExists(fc)' <=> ArtifactExists(fc)
BY DEF Same, ArtifactExists, OnDisk, IsTorn

LEMMA FreshKept ==
  ASSUME NEW fc, Same(Artifact(fc)), AsCached(fc),
         task'.read = task.read, task'.deps = task.deps, task'.cache[fc[1]] = task.cache[fc[1]]
  PROVE  AsCached(fc)'
BY DEF Same, AsCached, ArtifactExists, OnDisk, IsTorn

LEMMA DebugKept ==
  ASSUME NEW fc, Same(Artifact(fc)), Same(DebugFile(fc)), OnDisk(Artifact(fc)), DebugOK(fc)
  PROVE  DebugOK(fc)'
BY DEF Same, DebugOK, OnDisk

LEMMA FollowsKept ==
  ASSUME NEW fc, NEW cache, Same(Artifact(fc)), Same(DebugFile(fc)), Follows(fc, cache)
  PROVE  Follows(fc, cache)'
<1> SUFFICES ASSUME ArtifactExists(fc)' PROVE Follows(fc, cache)'
  BY DEF Follows
<1>1. ArtifactExists(fc) /\ OnDisk(Artifact(fc)) /\ disk'[Artifact(fc)] = disk[Artifact(fc)]
  BY ArtifactKept DEF ArtifactExists, Same
<1>2. DebugOK(fc)'
  BY <1>1, DebugKept DEF Follows
<1> QED
  BY <1>1, <1>2 DEF Follows

LEMMA FollowsNothing ==
  ASSUME NEW fc, NEW cache, ~ArtifactExists(fc)'
  PROVE  Follows(fc, cache)'
BY DEF Follows

(* What the cache says stays true of the artifacts a step leaves alone, and *)
(* of those it takes away.                                                  *)
LEMMA StoredKept ==
  ASSUME StoredOK, Same(Cache),
         \A fc \in Named : fc[1] \notin (doubtful \cup Emitted)' =>
           /\ fc[1] \notin doubtful \cup Emitted
           /\ ~ArtifactExists(fc)' \/ (Same(Artifact(fc)) /\ Same(DebugFile(fc)))
  PROVE  StoredOK'
<1> SUFFICES ASSUME (OnDisk(Cache) /\ ~IsTorn(Cache))'
             PROVE  /\ CacheOK(disk'[Cache])
                    /\ \A f \in DOMAIN disk'[Cache] \ (doubtful \cup Emitted)' :
                         \A contract \in disk'[Cache][f].artifacts : Follows(<<f, contract>>, disk[Cache])'
  BY DEF StoredOK
<1>1. OnDisk(Cache) /\ ~IsTorn(Cache) /\ disk'[Cache] = disk[Cache]
  BY DEF Same, OnDisk, IsTorn, Cache
<1> PICK cache : cache = disk[Cache]
  OBVIOUS
<1>2. /\ CacheOK(cache)
      /\ \A f \in DOMAIN cache \ (doubtful \cup Emitted) :
           \A contract \in cache[f].artifacts : Follows(<<f, contract>>, cache)
  BY <1>1 DEF StoredOK
<1>3. ASSUME NEW f \in DOMAIN cache \ (doubtful \cup Emitted)', NEW contract \in cache[f].artifacts
      PROVE  Follows(<<f, contract>>, cache)'
  <2>1. <<f, contract>> \in Named
    BY <1>2 DEF CacheOK, Named, Contracts
  <2>2. f \notin doubtful \cup Emitted
    BY <2>1, <1>3
  <2>3. Follows(<<f, contract>>, cache)
    BY <1>2, <2>2, <1>3
  <2> QED
    BY <2>1, <2>3, <1>3, FollowsKept, FollowsNothing
<1> QED
  BY <1>1, <1>2, <1>3

------------------------------------------------------------------------------
(* The steps of the compile task                                            *)
LEMMA Compiling ==
  ASSUME CompileInv, task.name = "compile"
  PROVE  CompileTaskOK /\ task # Idle
BY DEF CompileInv, TaskOK, Idle

LEMMA ValidArtifactsNamed ==
  ASSUME CacheOK(task.cache)
  PROVE  ValidArtifacts \subseteq Named
BY DEF CacheOK, ValidArtifacts, Named, Contracts

LEMMA ContractsNamed ==
  ASSUME NEW read, NEW deps, ReadOK(read, deps), NEW fc \in ContractsIn(DOMAIN read, read)
  PROVE  fc \in Named /\ fc[1] \in DOMAIN read /\ fc[2] \in ContractsOf[read[fc[1]]] /\ fc = <<fc[1], fc[2]>>
<1>1. PICK f \in DOMAIN read : fc \in {f} \X ContractsOf[read[f]]
  BY DEF ContractsIn
<1>2. f \in Files /\ read[f] \in Contents
  BY DEF ReadOK
<1> QED
  BY <1>1, <1>2 DEF Named, Contracts

(* What a step has to keep for the files of the graph.                      *)
LEMMA FilesKept ==
  ASSUME CompileTaskOK, task'.read = task.read, task'.cache = task.cache,
         task'.jobs = task.jobs, task'.emitted = task.emitted, doubtful' = doubtful,
         \A fc \in ValidArtifacts : (HasArtifact(fc) => HasArtifact(fc)') /\ (IsMade(fc) => IsMade(fc)')
  PROVE  FilesOK'
<1>1. \A f : Waits(f)' <=> Waits(f)
  BY DEF Waits
<1>2. ASSUME NEW f \in DOMAIN task.read, Done(f)
      PROVE  \A contract \in ContractsOf[task.read[f]] : <<f, contract>> \in ValidArtifacts
  BY <1>2 DEF Done, CompileTaskOK, CacheOK, ValidArtifacts
<1>3. ASSUME NEW f \in DOMAIN task.read, Done(f) PROVE Done(f)'
  BY <1>2, <1>3 DEF Done
<1>4. ASSUME NEW f \in DOMAIN task.read, Done(f), DoneFresh(f) PROVE DoneFresh(f)'
  BY <1>2, <1>4 DEF DoneFresh
<1> QED
  BY <1>1, <1>3, <1>4 DEF CompileTaskOK, FilesOK

LEMMA SaveArtifactStep ==
  ASSUME CompileInv, NEW fc \in Named, SaveArtifact(fc)
  PROVE  CompileInv'
<1>1. CompileTaskOK /\ task.name = "compile" /\ task.step = "jobs" /\ fc \in task.toEmit
  BY Compiling DEF SaveArtifact
<1>2. /\ task'.name = "compile" /\ Shape'
      /\ task'.step = "save debug file" /\ task'.of = fc
      /\ task'.read = task.read /\ task'.deps = task.deps /\ task'.cache = task.cache
      /\ task'.jobs = task.jobs /\ task'.emitted = task.emitted /\ task'.buildInfo = task.buildInfo
      /\ task'.toEmit = task.toEmit \ {fc}
  BY <1>1 DEF SaveArtifact, CompileTaskOK, Shape
<1>3. MadeOf(fc[1]) /\ fc \in ContractsIn(DOMAIN task.read, task.read)
  BY <1>1 DEF CompileTaskOK, EmitsOK
<1> DEFINE output == Output(fc[1], task.buildInfo.solc, task.read, task.deps)
<1>4. OnDisk(Artifact(fc))' /\ disk'[Artifact(fc)] = output /\ \A other : other # Artifact(fc) => Same(other)
  BY WriteEffect DEF SaveArtifact
<1>5. /\ output \in Outputs
      /\ output.solc = task.buildInfo.solc
      /\ output.sources = Restrict(task.read, {fc[1]} \cup task.deps[fc[1]])
  <2>1. fc[1] \in DOMAIN task.read
    BY <1>3 DEF ContractsIn
  <2>2. {fc[1]} \cup task.deps[fc[1]] \subseteq DOMAIN task.read /\ DOMAIN task.read \subseteq Files
    BY <1>1, <2>1, Dependencies DEF CompileTaskOK, ReadOK
  <2>3. Restrict(task.read, {fc[1]} \cup task.deps[fc[1]]) \in [{fc[1]} \cup task.deps[fc[1]] -> Contents]
    BY <1>1, <2>2 DEF CompileTaskOK, ReadOK, Restrict
  <2> QED
    BY <1>3, <2>2, <2>3 DEF Output, Outputs, MadeOf
<1>6. AsCached(fc)'
  <2>1. ArtifactExists(fc)'
    BY <1>4, <1>5, CompileAssumption DEF ArtifactExists, IsTorn
  <2> QED
    BY <2>1, <1>2, <1>3, <1>4, <1>5 DEF AsCached, MadeOf
<1>7. \A g : MadeOf(g) => MadeOf(g)'
  BY <1>2 DEF MadeOf
<1>8. EmitsOK'
  BY <1>1, <1>2, <1>3, <1>6, <1>7 DEF EmitsOK, CompileTaskOK
<1>9. ASSUME NEW gc \in Named
      PROVE  (HasArtifact(gc) => HasArtifact(gc)') /\ (IsMade(gc) => IsMade(gc)')
  <2>1. CASE gc = fc
    BY <2>1, <1>2, <1>6 DEF HasArtifact, IsMade, Saving, AsCached
  <2>2. CASE gc # fc
    <3>1. Same(Artifact(gc)) /\ Same(DebugFile(gc))
      BY <2>2, <1>4, Paths
    <3>2. gc \in task.toEmit => gc \in task'.toEmit
      BY <2>2, <1>2
    <3>3. ArtifactExists(gc) => ArtifactExists(gc)'
      BY <3>1, ArtifactKept
    <3>4. AsCached(gc) /\ DebugOK(gc) => AsCached(gc)' /\ DebugOK(gc)'
      BY <3>1, <1>2, FreshKept, DebugKept DEF AsCached, ArtifactExists
    <3>5. ~Saving(gc)
      BY <1>1 DEF Saving
    <3> QED
      BY <3>2, <3>3, <3>4, <3>5 DEF HasArtifact, IsMade
  <2> QED
    BY <2>1, <2>2
<1>10. CompileTaskOK'
  <2>1. FilesOK'
    BY <1>1, <1>2, <1>9, ValidArtifactsNamed, FilesKept DEF SaveArtifact, CompileTaskOK
  <2> QED
    BY <1>1, <1>2, <1>8, <2>1 DEF CompileTaskOK
<1>11. StoredOK'
  <2>1. fc[1] \in Emitted /\ Emitted' = Emitted
    BY <1>1, <1>2, <1>3 DEF Emitted, MadeOf
  <2>2. Same(Cache)
    BY <1>4, Paths
  <2>3. \A gc \in Named : gc # fc => Same(Artifact(gc)) /\ Same(DebugFile(gc))
    BY <1>4, Paths
  <2> QED
    BY <2>1, <2>2, <2>3, StoredKept DEF CompileInv, SaveArtifact
<1> QED
  BY <1>2, <1>10, <1>11 DEF CompileInv, TaskOK, SaveArtifact

LEMMA SaveDebugFileStep ==
  ASSUME CompileInv, SaveDebugFile
  PROVE  CompileInv'
<1>1. CompileTaskOK /\ task.name = "compile" /\ task.step = "save debug file"
  BY Compiling DEF SaveDebugFile
<1>2. /\ task'.name = "compile" /\ Shape' /\ task'.step = "jobs"
      /\ task'.read = task.read /\ task'.deps = task.deps /\ task'.cache = task.cache
      /\ task'.jobs = task.jobs /\ task'.emitted = task.emitted /\ task'.buildInfo = task.buildInfo
      /\ task'.toEmit = task.toEmit
  BY <1>1 DEF SaveDebugFile, CompileTaskOK, Shape
<1>3. PICK fc : fc = task.of
  OBVIOUS
<1>4. /\ fc \in ContractsIn(DOMAIN task.read, task.read)
      /\ MadeOf(fc[1]) /\ AsCached(fc)
  BY <1>1, <1>3 DEF CompileTaskOK, EmitsOK
<1>5. fc \in Named /\ fc[1] \in DOMAIN task.read
  BY <1>1, <1>4, ContractsNamed DEF CompileTaskOK
<1>6. OnDisk(DebugFile(fc))' /\ disk'[DebugFile(fc)] = task.buildInfo /\ \A other : other # DebugFile(fc) => Same(other)
  BY <1>3, WriteEffect DEF SaveDebugFile
<1>7. Same(Cache) /\ \A gc \in Named : Same(Artifact(gc)) /\ (gc # fc => Same(DebugFile(gc)))
  BY <1>5, <1>6, Paths
<1>8. AsCached(fc)' /\ disk'[Artifact(fc)] = disk[Artifact(fc)]
  BY <1>2, <1>4, <1>5, <1>7, FreshKept DEF Same, AsCached, ArtifactExists
<1>9. DebugOK(fc)'
  <2>1. /\ disk[Artifact(fc)].solc = task.buildInfo.solc
        /\ disk[Artifact(fc)].sources = Restrict(task.read, Closure(task.read, fc[1]))
    BY <1>1, <1>4, <1>5, Dependencies DEF AsCached, MadeOf, CompileTaskOK
  <2>2. Restrict(task.buildInfo.sources, Closure(task.read, fc[1])) = Restrict(task.read, Closure(task.read, fc[1]))
    BY <1>4 DEF Restrict, MadeOf
  <2>3. DOMAIN Restrict(task.read, Closure(task.read, fc[1])) = Closure(task.read, fc[1])
    BY DEF Restrict
  <2> QED
    BY <2>1, <2>2, <2>3, <1>6, <1>8 DEF DebugOK
<1>10. ASSUME NEW gc \in Named
       PROVE  (HasArtifact(gc) => HasArtifact(gc)') /\ (IsMade(gc) => IsMade(gc)')
  <2>1. ArtifactExists(gc) => ArtifactExists(gc)'
    BY <1>7, ArtifactKept
  <2>2. AsCached(gc) => AsCached(gc)'
    BY <1>2, <1>7, FreshKept
  <2>3. CASE gc = fc
    BY <2>1, <2>3, <1>2, <1>8, <1>9 DEF HasArtifact, IsMade
  <2>4. CASE gc # fc
    <3>1. AsCached(gc) /\ DebugOK(gc) => DebugOK(gc)'
      BY <2>4, <1>7, DebugKept DEF AsCached, ArtifactExists
    <3>2. ~Saving(gc)
      BY <1>3, <2>4 DEF Saving
    <3> QED
      BY <2>1, <2>2, <3>1, <3>2, <1>2 DEF HasArtifact, IsMade
  <2> QED
    BY <2>3, <2>4
<1>11. CompileTaskOK'
  <2>1. FilesOK'
    BY <1>1, <1>2, <1>10, ValidArtifactsNamed, FilesKept DEF SaveDebugFile, CompileTaskOK
  <2>2. \A g : MadeOf(g) => MadeOf(g)'
    BY <1>2 DEF MadeOf
  <2>3. EmitsOK'
    BY <1>1, <1>2, <2>2 DEF EmitsOK, CompileTaskOK
  <2> QED
    BY <1>1, <1>2, <2>1, <2>3 DEF CompileTaskOK
<1>12. StoredOK'
  <2>1. fc[1] \in Emitted /\ Emitted' = Emitted
    BY <1>1, <1>2, <1>4 DEF Emitted, MadeOf
  <2> QED
    BY <2>1, <1>7, StoredKept DEF CompileInv, SaveDebugFile
<1> QED
  BY <1>2, <1>11, <1>12 DEF CompileInv, TaskOK, SaveDebugFile

LEMMA RemoveArtifactStep ==
  ASSUME CompileInv, NEW fc \in Named, RemoveArtifact(fc)
  PROVE  CompileInv'
<1>1. /\ CompileTaskOK /\ task.name = "compile" /\ task.step = "jobs"
      /\ task.toEmit = {} /\ fc \notin ValidArtifacts
  BY Compiling DEF RemoveArtifact, Compiled, Building, ObsoleteArtifacts
<1>2. /\ task'.name = "compile" /\ Shape' /\ task'.step = "remove debug file" /\ task'.of = fc
      /\ task'.read = task.read /\ task'.deps = task.deps /\ task'.cache = task.cache
      /\ task'.jobs = task.jobs /\ task'.emitted = task.emitted /\ task'.toEmit = {}
  BY <1>1 DEF RemoveArtifact, CompileTaskOK, Shape
<1>3. ~OnDisk(Artifact(fc))' /\ \A other : other # Artifact(fc) => Same(other)
  BY RemoveEffect DEF RemoveArtifact
<1>4. Same(Cache) /\ \A gc \in Named : gc # fc => Same(Artifact(gc)) /\ Same(DebugFile(gc))
  BY <1>3, Paths
<1>5. ASSUME NEW gc \in ValidArtifacts
      PROVE  (HasArtifact(gc) => HasArtifact(gc)') /\ (IsMade(gc) => IsMade(gc)')
  <2>1. Same(Artifact(gc)) /\ Same(DebugFile(gc))
    BY <1>1, <1>4, ValidArtifactsNamed DEF CompileTaskOK
  <2>2. (ArtifactExists(gc) => ArtifactExists(gc)') /\ (AsCached(gc) => AsCached(gc)')
    BY <2>1, <1>2, ArtifactKept, FreshKept
  <2>3. AsCached(gc) /\ DebugOK(gc) => DebugOK(gc)'
    BY <2>1, DebugKept DEF AsCached, ArtifactExists
  <2>4. ~Saving(gc)
    BY <1>1 DEF Saving
  <2> QED
    BY <2>2, <2>3, <2>4, <1>1 DEF HasArtifact, IsMade
<1>6. CompileTaskOK'
  <2>1. FilesOK'
    BY <1>1, <1>2, <1>5, FilesKept DEF RemoveArtifact, CompileTaskOK
  <2>2. ValidArtifacts' = ValidArtifacts
    BY <1>2 DEF ValidArtifacts
  <2>3. EmitsOK'
    BY <1>1, <1>2, <1>3, <2>2 DEF EmitsOK, CompileTaskOK
  <2> QED
    BY <1>1, <1>2, <2>1, <2>3 DEF CompileTaskOK
<1>7. StoredOK'
  <2>1. Emitted' = Emitted
    BY <1>1, <1>2 DEF Emitted
  <2>2. ~ArtifactExists(fc)'
    BY <1>3 DEF ArtifactExists
  <2> QED
    BY <2>1, <2>2, <1>4, StoredKept DEF CompileInv, RemoveArtifact
<1> QED
  BY <1>2, <1>6, <1>7 DEF CompileInv, TaskOK, RemoveArtifact

LEMMA RemoveDebugFileStep ==
  ASSUME CompileInv, RemoveDebugFile
  PROVE  CompileInv'
<1>1. CompileTaskOK /\ task.name = "compile" /\ task.step = "remove debug file"
  BY Compiling DEF RemoveDebugFile
<1>2. /\ task'.name = "compile" /\ Shape' /\ task'.step \in {"jobs", "remove build info"}
      /\ task'.read = task.read /\ task'.deps = task.deps /\ task'.cache = task.cache
      /\ task'.jobs = task.jobs /\ task'.emitted = task.emitted /\ task'.toEmit = task.toEmit
  BY <1>1 DEF RemoveDebugFile, CompileTaskOK, Shape
<1>3. PICK fc : fc = task.of
  OBVIOUS
<1>4. fc \in Named \ ValidArtifacts /\ ~OnDisk(Artifact(fc)) /\ task.toEmit = {}
  BY <1>1, <1>3 DEF CompileTaskOK, EmitsOK
<1>5. \A other : other # DebugFile(fc) => Same(other)
  BY <1>3, RemoveEffect DEF RemoveDebugFile, Same, OnDisk
<1>6. Same(Cache) /\ \A gc \in Named : Same(Artifact(gc)) /\ (gc # fc => Same(DebugFile(gc)))
  BY <1>4, <1>5, Paths
<1>7. ASSUME NEW gc \in ValidArtifacts
      PROVE  (HasArtifact(gc) => HasArtifact(gc)') /\ (IsMade(gc) => IsMade(gc)')
  <2>1. Same(Artifact(gc)) /\ Same(DebugFile(gc))
    BY <1>1, <1>4, <1>6, ValidArtifactsNamed DEF CompileTaskOK
  <2>2. (ArtifactExists(gc) => ArtifactExists(gc)') /\ (AsCached(gc) => AsCached(gc)')
    BY <2>1, <1>2, ArtifactKept, FreshKept
  <2>3. AsCached(gc) /\ DebugOK(gc) => DebugOK(gc)'
    BY <2>1, DebugKept DEF AsCached, ArtifactExists
  <2>4. ~Saving(gc)
    BY <1>1 DEF Saving
  <2> QED
    BY <2>2, <2>3, <2>4, <1>4 DEF HasArtifact, IsMade
<1>8. CompileTaskOK'
  <2>1. FilesOK'
    BY <1>1, <1>2, <1>7, FilesKept DEF RemoveDebugFile, CompileTaskOK
  <2>2. EmitsOK'
    BY <1>1, <1>2, <1>4 DEF EmitsOK, CompileTaskOK
  <2> QED
    BY <1>1, <1>2, <2>1, <2>2 DEF CompileTaskOK
<1>9. StoredOK'
  <2>1. Emitted' = Emitted
    BY <1>1, <1>2 DEF Emitted
  <2>2. ~ArtifactExists(fc)'
    BY <1>4, <1>6, ArtifactKept DEF ArtifactExists
  <2> QED
    BY <2>1, <2>2, <1>6, StoredKept DEF CompileInv, RemoveDebugFile
<1> QED
  BY <1>2, <1>8, <1>9 DEF CompileInv, TaskOK, RemoveDebugFile

(* A step that removes a build info.                                        *)
LEMMA BuildInfoRemoved ==
  ASSUME CompileInv, task.name = "compile", NEW name, Remove(BuildInfo(name)),
         task.step # "save debug file", task.step # "remove debug file",
         \/ task' = task
         \/ task' = [task EXCEPT !.step = "jobs"],
         UNCHANGED <<sources, config, doubtful>>
  PROVE  CompileInv'
<1>1. CompileTaskOK
  BY Compiling
<1>2. /\ task'.name = "compile" /\ Shape' /\ task'.step \in {"jobs", task.step}
      /\ task'.read = task.read /\ task'.deps = task.deps /\ task'.cache = task.cache
      /\ task'.jobs = task.jobs /\ task'.emitted = task.emitted /\ task'.buildInfo = task.buildInfo
      /\ task'.toEmit = task.toEmit
  BY <1>1 DEF CompileTaskOK, Shape
<1>3. Same(Cache) /\ \A gc \in Named : Same(Artifact(gc)) /\ Same(DebugFile(gc))
  <2>1. \A other : other # BuildInfo(name) => Same(other)
    BY RemoveEffect
  <2>2. Cache # BuildInfo(name)
    BY DEF Cache, BuildInfo
  <2>3. ASSUME NEW gc \in Named PROVE BuildInfo(name) \notin {Artifact(gc), DebugFile(gc)}
    BY Paths
  <2> QED
    BY <2>1, <2>2, <2>3
<1>4. ASSUME NEW gc \in Named
      PROVE  (HasArtifact(gc) => HasArtifact(gc)') /\ (IsMade(gc) => IsMade(gc)')
  <2>1. (ArtifactExists(gc) => ArtifactExists(gc)') /\ (AsCached(gc) => AsCached(gc)')
    BY <1>2, <1>3, ArtifactKept, FreshKept
  <2>2. AsCached(gc) /\ DebugOK(gc) => DebugOK(gc)'
    BY <1>3, DebugKept DEF AsCached, ArtifactExists
  <2>3. ~Saving(gc)
    BY DEF Saving
  <2> QED
    BY <2>1, <2>2, <2>3, <1>2 DEF HasArtifact, IsMade
<1>5. CompileTaskOK'
  <2>1. FilesOK'
    BY <1>1, <1>2, <1>4, ValidArtifactsNamed, FilesKept DEF CompileTaskOK
  <2>2. \A g : MadeOf(g) => MadeOf(g)'
    BY <1>2 DEF MadeOf
  <2>3. EmitsOK'
    BY <1>1, <1>2, <2>2 DEF EmitsOK, CompileTaskOK
  <2> QED
    BY <1>1, <1>2, <2>1, <2>3 DEF CompileTaskOK
<1>6. StoredOK'
  <2>1. Emitted' = Emitted
    BY <1>1, <1>2 DEF Emitted
  <2> QED
    BY <2>1, <1>3, StoredKept DEF CompileInv
<1> QED
  BY <1>2, <1>5, <1>6 DEF CompileInv, TaskOK

LEMMA CompileJobStep ==
  ASSUME CompileInv, NEW job, CompileJob(job)
  PROVE  CompileInv'
<1>1. /\ CompileTaskOK /\ task.name = "compile" /\ task.step = "jobs" /\ task.toEmit = {}
      /\ job \in task.jobs
  BY Compiling DEF CompileJob, Building, NextJobs
<1>2. /\ task'.name = "compile" /\ Shape' /\ task'.step = "jobs"
      /\ task'.read = task.read /\ task'.deps = task.deps
      /\ task'.cache = Over(CacheEntries(job), task.cache)
      /\ task'.jobs = task.jobs \ {job} /\ task'.emitted = task.emitted \cup job.emits
      /\ task'.buildInfo = CompilerInput(job, task.read)
      /\ task'.toEmit = ContractsIn(job.emits, task.read)
  BY <1>1 DEF CompileJob, CompileTaskOK, Shape
<1>3. /\ job.solc \in Solcs
      /\ job.emits \subseteq DOMAIN task.read /\ job.files \subseteq DOMAIN task.read
      /\ \A f \in job.emits : Closure(task.read, f) \subseteq job.files
  BY <1>1 DEF CompileTaskOK, JobOK
<1>4. DOMAIN task.read \subseteq Files /\ \A f \in DOMAIN task.read : task.read[f] \in Contents
  BY <1>1 DEF CompileTaskOK, ReadOK
<1>5. Same(Cache) /\ \A gc \in Named : Same(Artifact(gc)) /\ Same(DebugFile(gc))
  <2>1. PICK name : Write(BuildInfo(name), "build info")
    BY DEF CompileJob
  <2>2. \A other : other # BuildInfo(name) => Same(other)
    BY <2>1, WriteEffect
  <2>3. Cache # BuildInfo(name)
    BY DEF Cache, BuildInfo
  <2>4. ASSUME NEW gc \in Named PROVE BuildInfo(name) \notin {Artifact(gc), DebugFile(gc)}
    BY Paths
  <2> QED
    BY <2>2, <2>3, <2>4
<1>6. /\ DOMAIN task'.cache = job.emits \cup DOMAIN task.cache
      /\ \A f \in job.emits :
           /\ task'.cache[f].contentHash = task.read[f] /\ task'.cache[f].solcConfig = job.solc
           /\ task'.cache[f].artifacts = ContractsOf[task.read[f]]
      /\ \A f \in DOMAIN task.cache \ job.emits : task'.cache[f] = task.cache[f]
  BY <1>2 DEF Over, CacheEntries
<1>7. CacheOK(task.cache)'
  BY <1>1, <1>3, <1>4, <1>6 DEF CompileTaskOK, CacheOK
<1>8. ASSUME NEW f \in job.emits PROVE MadeOf(f)'
  <2>1. Closure(task.read, f) \subseteq job.files
    BY <1>3
  <2> HIDE DEF Closure
  <2> QED
    BY <2>1, <1>2, <1>3, <1>6 DEF MadeOf, CompilerInput, Restrict
<1>9. EmitsOK'
  <2>1. ASSUME NEW fc \in ContractsIn(job.emits, task.read)
        PROVE  fc \in ContractsIn(DOMAIN task.read, task.read) /\ fc[1] \in job.emits
    BY <1>3 DEF ContractsIn
  <2> QED
    BY <2>1, <1>1, <1>2, <1>3, <1>8 DEF EmitsOK, CompileTaskOK
<1>10. ASSUME NEW f \in job.emits PROVE Done(f)' /\ DoneFresh(f)'
  <2>1. \A contract \in ContractsOf[task.read[f]] : <<f, contract>> \in task'.toEmit
    BY <1>2 DEF ContractsIn
  <2> QED
    BY <2>1, <1>2, <1>6 DEF Done, DoneFresh, HasArtifact, IsMade
<1>11. ASSUME NEW f \in DOMAIN task.read \ job.emits, Done(f) PROVE Done(f)'
  <2>1. ASSUME NEW contract \in ContractsOf[task.read[f]] PROVE ArtifactExists(<<f, contract>>)'
    <3>1. <<f, contract>> \in Named
      BY <1>4 DEF Named, Contracts
    <3> QED
      BY <3>1, <1>1, <1>5, <1>11, ArtifactKept DEF Done, HasArtifact
  <2> QED
    BY <2>1, <1>2, <1>6, <1>11 DEF Done, HasArtifact
<1>12. ASSUME NEW f \in DOMAIN task.read \ job.emits, Done(f), DoneFresh(f) PROVE DoneFresh(f)'
  <2>1. f \in DOMAIN task.cache /\ task'.cache[f] = task.cache[f]
    BY <1>6, <1>12 DEF Done
  <2>2. ASSUME NEW contract \in ContractsOf[task.read[f]] PROVE IsMade(<<f, contract>>)'
    <3> DEFINE fc == <<f, contract>>
    <3>1. fc \in Named /\ fc[1] = f
      BY <1>4 DEF Named, Contracts
    <3>2. AsCached(fc) /\ DebugOK(fc)
      BY <1>1, <1>12 DEF DoneFresh, IsMade, Saving
    <3>3. OnDisk(Artifact(fc))
      BY <3>2 DEF AsCached, ArtifactExists
    <3> HIDE DEF fc
    <3>4. AsCached(fc)' /\ DebugOK(fc)'
      BY <3>1, <3>2, <3>3, <2>1, <1>2, <1>5, FreshKept, DebugKept
    <3> QED
      BY <3>4 DEF IsMade, fc
  <2> QED
    BY <2>2, <1>2 DEF DoneFresh
<1>13. \A f \in DOMAIN task.read \ job.emits : Waits(f) => Waits(f)'
  BY <1>2 DEF Waits
<1>14. FilesOK'
  <2>1. doubtful' = doubtful
    BY DEF CompileJob
  <2>2. \A f \in DOMAIN task.read \ job.emits : Waits(f) \/ Done(f)
    BY <1>1 DEF CompileTaskOK, FilesOK
  <2>3. ASSUME NEW f \in DOMAIN task.read PROVE Waits(f)' \/ Done(f)'
    BY <2>2, <1>10, <1>11, <1>13
  <2>4. ASSUME NEW f \in DOMAIN task.read \ (doubtful \ (task.emitted \cup job.emits))
        PROVE  Waits(f)' \/ DoneFresh(f)'
    <3>1. CASE f \in job.emits
      BY <3>1, <1>10
    <3>2. CASE f \notin job.emits
      <4>1. Waits(f) \/ DoneFresh(f)
        BY <1>1, <3>2 DEF CompileTaskOK, FilesOK
      <4> QED
        BY <4>1, <3>2, <2>2, <1>12, <1>13
    <3> QED
      BY <3>1, <3>2
  <2> QED
    BY <2>1, <2>3, <2>4, <1>2 DEF FilesOK
<1>15. StoredOK'
  <2>1. Emitted \subseteq Emitted'
    BY <1>1, <1>2 DEF Emitted
  <2> QED
    BY <2>1, <1>5, StoredKept DEF CompileInv, CompileJob
<1>16. CompileTaskOK'
  <2>1. \A other \in task'.jobs : JobOK(other, task.read)
    BY <1>1, <1>2 DEF CompileTaskOK
  <2> QED
    BY <2>1, <1>1, <1>2, <1>7, <1>9, <1>14 DEF CompileTaskOK
<1> QED
  BY <1>2, <1>15, <1>16 DEF CompileInv, TaskOK, CompileJob

(* What the new cache says of a file it may be believed about.              *)
LEMMA WriteCacheStep ==
  ASSUME CompileInv, WriteCache
  PROVE  CompileInv'
<1>1. /\ CompileTaskOK /\ task.name = "compile" /\ task.step = "jobs"
      /\ task.toEmit = {} /\ task.jobs = {}
  BY Compiling DEF WriteCache, ReadyToFinish, Cleaned, Compiled, Building
<1>2. disk'[Cache] = task.cache /\ \A gc \in Named : Same(Artifact(gc)) /\ Same(DebugFile(gc))
  <2>1. disk'[Cache] = task.cache /\ \A other : other # Cache => Same(other)
    BY WriteEffect DEF WriteCache
  <2>2. ASSUME NEW gc \in Named PROVE Cache \notin {Artifact(gc), DebugFile(gc)}
    BY Paths
  <2> QED
    BY <2>1, <2>2
<1>3. PICK read, cache, hashes : read = task.read /\ cache = task.cache /\ hashes = Hashes(cache)
  OBVIOUS
<1>4. /\ DOMAIN hashes = DOMAIN cache /\ \A f \in DOMAIN cache : hashes[f] = cache[f].contentHash
  BY <1>3 DEF Hashes
<1>5. /\ ReadOK(read, task.deps) /\ CacheOK(cache)
      /\ \A f \in DOMAIN read : Done(f)
      /\ \A f \in DOMAIN read \ (doubtful \ task.emitted) : DoneFresh(f)
  BY <1>1, <1>3 DEF CompileTaskOK, FilesOK, Waits
<1>6. \A f \in DOMAIN read : /\ f \in DOMAIN cache /\ hashes[f] = read[f]
                             /\ cache[f].artifacts = ContractsOf[read[f]]
  BY <1>3, <1>4, <1>5 DEF Done, CacheOK
<1>7. ASSUME NEW f \in DOMAIN cache \ doubtful', NEW contract \in cache[f].artifacts
      PROVE  Follows(<<f, contract>>, cache)'
  <2> DEFINE fc == <<f, contract>>
  <2>1. f \in DOMAIN read /\ f \notin doubtful \ task.emitted
    BY <1>3, <1>7 DEF WriteCache
  <2>2. /\ {f} \cup task.deps[f] = Closure(read, f)
        /\ Closure(read, f) \subseteq DOMAIN read /\ f \in Files /\ read[f] \in Contents
    BY <2>1, <1>5, Dependencies
  <2>3. Closure(hashes, f) = Closure(read, f)
    <3>1. Closure(read, f) \subseteq DOMAIN hashes /\ \A g \in Closure(read, f) : hashes[g] = read[g]
      BY <2>2, <1>4, <1>6
    <3> QED
      BY <3>1, <2>1, <2>2, ClosureAgrees
  <2>4. Restrict(hashes, Closure(hashes, f)) = Restrict(read, Closure(read, f))
    BY <2>2, <2>3, <1>6 DEF Restrict
  <2>5. contract \in ContractsOf[read[f]]
    BY <2>1, <1>6
  <2>6. AsCached(fc) /\ DebugOK(fc) /\ fc[1] = f
    BY <2>1, <2>5, <1>1, <1>3, <1>5 DEF DoneFresh, IsMade, Saving
  <2>7. fc \in Named /\ OnDisk(Artifact(fc))
    BY <2>2, <2>5, <2>6 DEF Named, Contracts, AsCached, ArtifactExists
  <2>8. DOMAIN Hashes(cache) = DOMAIN cache
    BY DEF Hashes
  <2> HIDE DEF fc
  <2>9. Follows(fc, cache)
    <3>1. Closure(Hashes(cache), fc[1]) \subseteq DOMAIN cache
      BY <2>2, <2>3, <2>6, <1>3, <1>6
    <3>2. disk[Artifact(fc)].sources = Restrict(Hashes(cache), Closure(Hashes(cache), fc[1]))
      BY <2>2, <2>4, <2>6, <1>3 DEF AsCached
    <3>3. disk[Artifact(fc)].solc = cache[fc[1]].solcConfig
      BY <2>6, <1>3 DEF AsCached
    <3> QED
      BY <3>1, <3>2, <3>3, <2>6 DEF Follows
  <2> QED
    BY <2>7, <2>9, <1>2, FollowsKept DEF fc
<1>8. StoredOK'
  <2>1. CacheOK(disk'[Cache]) /\ disk'[Cache] = cache
    BY <1>2, <1>3, <1>5
  <2>2. Emitted' = {}
    BY DEF WriteCache, Emitted, Idle
  <2>3. \A f \in DOMAIN cache \ (doubtful \cup Emitted)' :
          \A contract \in cache[f].artifacts : Follows(<<f, contract>>, cache)'
    BY <2>2, <1>7
  <2> QED
    BY <2>1, <2>3 DEF StoredOK, Cache
<1> QED
  BY <1>8 DEF CompileInv, TaskOK, WriteCache

------------------------------------------------------------------------------
(* The start of the compile task                                            *)
LEMMA GraphOK ==
  ASSUME sources \in Trees, GraphFiles \subseteq Existing,
         NEW read, read = Restrict(sources, GraphFiles)
  PROVE  ReadOK(read, TransitiveDependencies(read))
<1>1. DOMAIN sources = Files
  BY CompileAssumption
<1>2. DOMAIN read = GraphFiles /\ \A f \in GraphFiles : read[f] = sources[f]
  BY DEF Restrict
<1>3. ASSUME NEW f \in GraphFiles PROVE f \in Files /\ read[f] \in Contents
  <2>1. f \in Files /\ sources[f] # Absent
    BY <1>3 DEF Existing
  <2>2. sources[f] \in Range(sources)
    BY <2>1, <1>1 DEF Range
  <2> QED
    <3>1. sources[f] \in UNION {Range(tree) : tree \in Trees}
      BY <2>2
    <3> QED
      BY <3>1, <2>1, <1>2, <1>3 DEF Contents
<1> PICK contents : contents = Restrict(sources, Existing)
  OBVIOUS
<1>4. DOMAIN contents = Existing /\ \A f \in Existing : contents[f] = sources[f]
  BY DEF Restrict
<1>5. ClosedUnder(ImportsIn(contents), GraphFiles)
  <2>1. GraphFiles = Reached(ImportsIn(contents), Existing \ Library)
    BY DEF GraphFiles
  <2>2. Existing \ Library \subseteq Files
    BY DEF Existing
  <2> QED
    BY <2>1, <2>2, ReachedFacts
<1>6. ASSUME NEW f \in GraphFiles PROVE Closure(read, f) \subseteq GraphFiles
  <2>1. \A g \in GraphFiles : \A h \in Files : h \in ImportsOf[read[g]] => h \in GraphFiles
    <3> SUFFICES ASSUME NEW g \in GraphFiles, NEW h \in Files, h \in ImportsOf[read[g]] PROVE h \in GraphFiles
      OBVIOUS
    <3>1. <<g, h>> \in ImportsIn(contents)
      BY <1>2, <1>4 DEF ImportsIn
    <3> QED
      BY <3>1, <1>5 DEF ClosedUnder
  <2>2. ImportsOf[read[f]] \subseteq Files
    BY <1>3, CompileAssumption
  <2>3. GraphFiles \in SUBSET Files
    BY DEF Existing
  <2> QED
    BY <2>1, <2>2, <2>3, <1>2, <1>3, ClosureFacts
<1>7. read \in [DOMAIN read -> Contents]
  BY <1>2, <1>3 DEF Restrict
<1> QED
  BY <1>2, <1>3, <1>6, <1>7 DEF ReadOK

LEMMA CompilersConfigured ==
  ASSUME config \in ProjectConfigs, NEW read, NEW deps, NEW f
  PROVE  CompilersFor(read, deps, config, f) \subseteq Solcs
BY DEF CompilersFor, Solcs, Range

(* What is left of the stored cache.                                        *)
LEMMA ReadCacheFacts ==
  ASSUME StoredOK, ~IsTorn(Cache), NEW graph, NEW cache, cache = ReadCache(graph)
  PROVE  /\ CacheOK(cache)
         /\ \A f \in DOMAIN cache :
              /\ OnDisk(Cache) /\ f \in DOMAIN disk[Cache] /\ cache[f] = disk[Cache][f]
              /\ f \in graph => \A contract \in cache[f].artifacts : ArtifactExists(<<f, contract>>)
<1> PICK kept : kept = StoredCache
  OBVIOUS
<1>1. /\ DOMAIN cache \subseteq DOMAIN kept /\ \A f \in DOMAIN cache : cache[f] = kept[f]
      /\ \A f \in DOMAIN cache : f \in graph => \A contract \in kept[f].artifacts : ArtifactExists(<<f, contract>>)
  BY DEF ReadCache, Restrict
<1>2. \A f \in DOMAIN kept : OnDisk(Cache) /\ f \in DOMAIN disk[Cache] /\ kept[f] = disk[Cache][f]
  BY DEF StoredCache, Restrict
<1>3. OnDisk(Cache) => CacheOK(disk[Cache])
  BY DEF StoredOK
<1> QED
  BY <1>1, <1>2, <1>3 DEF CacheOK

LEMMA StartCompileStep ==
  ASSUME CompileInv, NEW force, StartCompile(force)
  PROVE  CompileInv'
<1> PICK read : read = Restrict(sources, GraphFiles)
  OBVIOUS
<1> PICK deps : deps = TransitiveDependencies(read)
  OBVIOUS
<1> PICK cache : cache = ReadCache(DOMAIN read)
  OBVIOUS
<1>1. task = Idle /\ ~IsTorn(Cache) /\ GraphFiles \subseteq Existing
  BY DEF StartCompile
<1>2. \A f \in DOMAIN read : CompilersFor(read, deps, config, f) # {}
  BY DEF StartCompile
<1>3. PICK solcOf, jobs :
        /\ \A f \in DOMAIN read : solcOf[f] \in Solcs
        /\ jobs = CompilationJobs(read, deps, solcOf, cache, force)
        /\ task' = [name |-> "compile", step |-> "jobs", config |-> config, existing |-> Existing,
                    read |-> read, deps |-> deps, cache |-> cache, jobs |-> jobs,
                    buildInfo |-> "none", toEmit |-> {}, of |-> "none", emitted |-> {}]
  <2> DEFINE solcOf == [f \in DOMAIN read |-> CHOOSE solc \in CompilersFor(read, deps, config, f) : TRUE]
  <2>1. \A f \in DOMAIN read : solcOf[f] \in Solcs
    BY <1>2, CompilersConfigured DEF CompileInv
  <2>2. task' = [name |-> "compile", step |-> "jobs", config |-> config, existing |-> Existing,
                 read |-> read, deps |-> deps, cache |-> cache,
                 jobs |-> CompilationJobs(read, deps, solcOf, cache, force),
                 buildInfo |-> "none", toEmit |-> {}, of |-> "none", emitted |-> {}]
    BY DEF StartCompile
  <2> HIDE DEF solcOf
  <2> QED
    BY <2>1, <2>2
<1>4. /\ task'.name = "compile" /\ Shape' /\ task'.step = "jobs"
      /\ task'.read = read /\ task'.deps = deps /\ task'.cache = cache /\ task'.jobs = jobs
      /\ task'.toEmit = {} /\ task'.emitted = {}
  BY <1>3 DEF Shape
<1>5. ReadOK(read, deps)
  BY <1>1, GraphOK DEF CompileInv
<1>6. /\ CacheOK(cache)
      /\ \A f \in DOMAIN cache :
           /\ OnDisk(Cache) /\ f \in DOMAIN disk[Cache] /\ cache[f] = disk[Cache][f]
           /\ f \in DOMAIN read => \A contract \in cache[f].artifacts : ArtifactExists(<<f, contract>>)
  BY <1>1, ReadCacheFacts DEF CompileInv
<1>7. /\ \A job \in jobs : JobOK(job, read)
      /\ \A f \in DOMAIN read :
           \/ \E job \in jobs : f \in job.emits
           \/ \A g \in Closure(read, f) : g \in DOMAIN cache /\ cache[g].contentHash = read[g]
  BY <1>3, <1>5, JobsCover
<1>8. /\ \A path : Same(path)
      /\ \A fc : (ArtifactExists(fc)' <=> ArtifactExists(fc))
  <2>1. disk' = disk
    BY DEF StartCompile
  <2> QED
    BY <2>1 DEF Same, OnDisk, ArtifactExists, IsTorn
<1>9. ASSUME NEW f \in DOMAIN read,
              \A g \in Closure(read, f) : g \in DOMAIN cache /\ cache[g].contentHash = read[g]
       PROVE  Done(f)' /\ (f \notin doubtful => DoneFresh(f)')
  <2>1. /\ {f} \cup deps[f] = Closure(read, f)
        /\ Closure(read, f) \subseteq DOMAIN read /\ f \in Closure(read, f)
        /\ f \in Files /\ read[f] \in Contents
    BY <1>5, Dependencies
  <2>2. /\ f \in DOMAIN cache /\ cache[f].contentHash = read[f]
        /\ cache[f].artifacts = ContractsOf[read[f]]
    BY <2>1, <1>6, <1>9 DEF CacheOK
  <2>3. \A contract \in ContractsOf[read[f]] : ArtifactExists(<<f, contract>>)
    BY <2>2, <1>6
  <2>4. Done(f)'
    BY <2>2, <2>3, <1>4, <1>8 DEF Done, HasArtifact
  <2>5. ASSUME f \notin doubtful, NEW contract \in ContractsOf[read[f]] PROVE IsMade(<<f, contract>>)'
    <3> DEFINE fc == <<f, contract>>
    <3>1. PICK stored : stored = disk[Cache]
      OBVIOUS
    <3>2. PICK hashes : hashes = Hashes(stored)
      OBVIOUS
    <3>3. Follows(fc, stored)
      <4>1. f \in DOMAIN stored /\ contract \in stored[f].artifacts /\ OnDisk(Cache)
        BY <3>1, <2>2, <1>6
      <4>2. Emitted = {}
        BY <1>1 DEF Emitted, Idle
      <4> QED
        BY <3>1, <4>1, <4>2, <2>5, <1>1 DEF StoredOK, CompileInv
    <3>4. \A g \in Closure(read, f) : g \in DOMAIN hashes /\ hashes[g] = read[g]
      BY <3>1, <3>2, <1>6, <1>9 DEF Hashes
    <3>5. Closure(hashes, f) = Closure(read, f)
      BY <3>4, <2>1, ClosureAgrees
    <3>6. Restrict(hashes, Closure(hashes, f)) = Restrict(read, Closure(read, f))
      BY <3>4, <3>5 DEF Restrict
    <3>7. fc[1] = f /\ ArtifactExists(fc) /\ cache[f] = stored[f]
      BY <3>1, <2>2, <2>3, <1>6
    <3> HIDE DEF fc
    <3>8. /\ disk[Artifact(fc)].sources = Restrict(read, {f} \cup deps[f])
          /\ disk[Artifact(fc)].solc = cache[f].solcConfig
          /\ DebugOK(fc)
      BY <3>2, <3>3, <3>6, <3>7, <2>1 DEF Follows
    <3>9. disk' = disk
      BY DEF StartCompile
    <3>10. AsCached(fc)'
      BY <3>7, <3>8, <3>9, <1>4, <1>8 DEF AsCached
    <3>11. DebugOK(fc)'
      BY <3>8, <3>9 DEF DebugOK, OnDisk
    <3> QED
      BY <3>10, <3>11 DEF IsMade, fc
  <2> QED
    BY <2>4, <2>5, <1>4 DEF DoneFresh
<1>10. FilesOK'
  <2>1. \A f : (\E job \in jobs : f \in job.emits) => Waits(f)'
    BY <1>4 DEF Waits
  <2>2. doubtful' = doubtful
    BY DEF StartCompile
  <2> QED
    BY <2>1, <2>2, <1>4, <1>7, <1>9 DEF FilesOK
<1>11. EmitsOK'
  BY <1>4 DEF EmitsOK
<1>12. CompileTaskOK'
  BY <1>4, <1>5, <1>6, <1>7, <1>10, <1>11 DEF CompileTaskOK
<1>13. StoredOK'
  <2>1. Emitted' = {} /\ Emitted = {} /\ doubtful' = doubtful
    BY <1>1, <1>4 DEF Emitted, Idle, StartCompile
  <2> QED
    BY <2>1, <1>8, StoredKept DEF CompileInv
<1> QED
  BY <1>4, <1>12, <1>13 DEF CompileInv, TaskOK, StartCompile

------------------------------------------------------------------------------
(* The other steps                                                          *)

(* A task that stops leaves what it has compiled in doubt.                  *)
LEMMA FailCompileStep ==
  ASSUME CompileInv, FailCompile
  PROVE  CompileInv'
<1>1. Emitted \subseteq task.emitted /\ Emitted' = {}
  BY DEF FailCompile, Emitted, Idle
<1>2. Same(Cache) /\ \A gc \in Named : Same(Artifact(gc)) /\ Same(DebugFile(gc))
  BY DEF FailCompile, Same, OnDisk
<1>3. StoredOK'
  BY <1>1, <1>2, StoredKept DEF CompileInv, FailCompile
<1> QED
  BY <1>3 DEF CompileInv, TaskOK, FailCompile

LEMMA CleanStep ==
  ASSUME CompileInv, StartClean \/ FinishClean
  PROVE  CompileInv'
<1>1. ~OnDisk(Cache)'
  BY DEF StartClean, FinishClean, Remove, Restrict, OnDisk
<1>2. StoredOK'
  BY <1>1 DEF StoredOK, OnDisk, Cache
<1> QED
  BY <1>2 DEF CompileInv, TaskOK, StartClean, FinishClean, Idle

LEMMA TaskAndDiskKept ==
  ASSUME CompileInv, sources' \in Trees, config' \in ProjectConfigs, UNCHANGED <<disk, task, doubtful>>
  PROVE  CompileInv'
<1>1. disk' = disk /\ task' = task /\ doubtful' = doubtful
  OBVIOUS
<1>2. Emitted' = Emitted /\ \A path : Same(path)
  BY <1>1 DEF Emitted, Same, OnDisk
<1>3. StoredOK'
  BY <1>1, <1>2, StoredKept DEF CompileInv
<1>4. CASE task.name = "compile" /\ CompileTaskOK
  <2>1. Shape' /\ ValidArtifacts' = ValidArtifacts
    BY <1>1, <1>4 DEF CompileTaskOK, Shape, ValidArtifacts
  <2>2. \A fc : /\ ArtifactExists(fc)' <=> ArtifactExists(fc)
                /\ AsCached(fc)' <=> AsCached(fc)
                /\ DebugOK(fc)' <=> DebugOK(fc)
                /\ OnDisk(Artifact(fc))' <=> OnDisk(Artifact(fc))
    BY <1>1 DEF ArtifactExists, AsCached, DebugOK, OnDisk, IsTorn
  <2>3. \A f : (MadeOf(f)' <=> MadeOf(f)) /\ (Waits(f)' <=> Waits(f))
    BY <1>1 DEF MadeOf, Waits
  <2>4. \A fc : (HasArtifact(fc)' <=> HasArtifact(fc)) /\ (IsMade(fc)' <=> IsMade(fc))
    BY <1>1, <2>2 DEF HasArtifact, IsMade, Saving
  <2>5. \A f : (Done(f)' <=> Done(f)) /\ (DoneFresh(f)' <=> DoneFresh(f))
    BY <1>1, <2>4 DEF Done, DoneFresh
  <2>6. FilesOK'
    BY <1>1, <1>4, <2>3, <2>5 DEF CompileTaskOK, FilesOK
  <2>7. EmitsOK'
    BY <1>1, <1>4, <2>1, <2>2, <2>3 DEF CompileTaskOK, EmitsOK
  <2>8. CompileTaskOK'
    BY <1>1, <1>4, <2>1, <2>6, <2>7 DEF CompileTaskOK
  <2> QED
    BY <1>1, <1>3, <1>4, <2>8 DEF CompileInv, TaskOK
<1>5. CASE task \in {Idle, [name |-> "clean"]}
  BY <1>1, <1>3, <1>5 DEF CompileInv, TaskOK, Idle
<1> QED
  BY <1>4, <1>5 DEF CompileInv, TaskOK

LEMMA DeleteArtifactStep ==
  ASSUME CompileInv, NEW fc \in Named, DeleteArtifact(fc)
  PROVE  CompileInv'
<1>1. ~OnDisk(Artifact(fc))' /\ \A other : other # Artifact(fc) => Same(other)
  BY RemoveEffect DEF DeleteArtifact
<1>2. Same(Cache) /\ \A gc \in Named : gc # fc => Same(Artifact(gc)) /\ Same(DebugFile(gc))
  BY <1>1, Paths
<1>3. ~ArtifactExists(fc)'
  BY <1>1 DEF ArtifactExists
<1>4. Emitted' = Emitted
  BY DEF DeleteArtifact, Emitted
<1>5. StoredOK'
  BY <1>2, <1>3, <1>4, StoredKept DEF CompileInv, DeleteArtifact
<1> QED
  BY <1>5 DEF CompileInv, TaskOK, DeleteArtifact

(* What is torn belongs to a file in doubt, or is a build info or the cache.*)
LEMMA CrashStep ==
  ASSUME CompileInv, Crash
  PROVE  CompileInv'
<1>1. Emitted' = {} /\ Emitted \subseteq doubtful' /\ doubtful \subseteq doubtful'
  BY DEF Crash, Emitted, Idle
<1>2. CASE UNCHANGED disk
  <2>1. \A path : Same(path)
    BY <1>2 DEF Same, OnDisk
  <2> QED
    BY <1>1, <2>1, StoredKept DEF CompileInv, TaskOK, Crash
<1>3. ASSUME NEW path \in BeingWritten, Write(path, Torn)
      PROVE  CompileInv'
  <2>1. OnDisk(path)' /\ disk'[path] = Torn /\ \A other : other # path => Same(other)
    BY <1>3, WriteEffect
  <2>2. CASE path = Cache
    <3>1. IsTorn(Cache)'
      BY <2>1, <2>2 DEF IsTorn, OnDisk, Cache
    <3>2. StoredOK'
      BY <3>1 DEF StoredOK
    <3> QED
      BY <3>2 DEF CompileInv, TaskOK, Crash
  <2>3. ASSUME path # Cache, \A fc \in Named : path \in {Artifact(fc), DebugFile(fc)} => fc[1] \in Emitted
        PROVE  CompileInv'
    <3>1. \A fc \in Named : fc[1] \notin Emitted => Same(Artifact(fc)) /\ Same(DebugFile(fc))
      BY <2>1, <2>3
    <3>2. Same(Cache)
      BY <2>1, <2>3
    <3>3. StoredOK'
      BY <1>1, <3>1, <3>2, StoredKept DEF CompileInv
    <3> QED
      BY <3>3 DEF CompileInv, TaskOK, Crash
  <2>4. ASSUME task.name = "compile", NEW fc \in Named, path \in {Artifact(fc), DebugFile(fc)}, MadeOf(fc[1])
        PROVE  CompileInv'
    <3>1. fc[1] \in Emitted
      BY <2>4 DEF Emitted, MadeOf
    <3>2. path # Cache /\ \A gc \in Named : path \in {Artifact(gc), DebugFile(gc)} => gc = fc
      BY <2>4, Paths
    <3> QED
      BY <2>3, <3>1, <3>2
  <2>5. ASSUME NEW name, path = BuildInfo(name) PROVE CompileInv'
    <3>1. path # Cache
      BY <2>5 DEF Cache, BuildInfo
    <3>2. ASSUME NEW gc \in Named PROVE path \notin {Artifact(gc), DebugFile(gc)}
      BY <2>5, Paths
    <3> QED
      BY <2>3, <3>1, <3>2
  <2>6. \/ /\ task.name = "compile" /\ task.step = "jobs"
           /\ \E fc \in task.toEmit : path = Artifact(fc)
        \/ /\ task.name = "compile" /\ task.step = "save debug file"
           /\ path = DebugFile(task.of)
        \/ \E name : path = BuildInfo(name)
        \/ path = Cache
    BY <1>3 DEF BeingWritten
  <2>7. CASE task.name = "compile" /\ task.step = "jobs" /\ \E fc \in task.toEmit : path = Artifact(fc)
    <3>1. PICK fc \in task.toEmit : path = Artifact(fc)
      BY <2>7
    <3>2. MadeOf(fc[1]) /\ fc \in Named
      BY <2>7, Compiling, ContractsNamed DEF CompileTaskOK, EmitsOK
    <3> QED
      BY <2>4, <2>7, <3>1, <3>2
  <2>8. CASE task.name = "compile" /\ task.step = "save debug file" /\ path = DebugFile(task.of)
    <3>1. PICK fc : fc = task.of
      OBVIOUS
    <3>2. MadeOf(fc[1]) /\ fc \in Named
      BY <2>8, <3>1, Compiling, ContractsNamed DEF CompileTaskOK, EmitsOK
    <3> QED
      BY <2>4, <2>8, <3>1, <3>2
  <2> QED
    BY <2>2, <2>5, <2>6, <2>7, <2>8
<1> QED
  BY <1>2, <1>3 DEF Crash

------------------------------------------------------------------------------
(* After whatever edits, failures and crashes, the cache on disk is right   *)
(* about every file that is not in doubt, and the compile task has written, *)
(* or still has to write, the artifacts of all that it read.                *)
THEOREM CompileInvariant == CompileSpec => []CompileInv
<1>1. CompileInit => CompileInv
  BY DEF CompileInit, CompileInv, StoredOK, OnDisk, TaskOK
<1>2. CompileInv /\ [CompileNext]_compileVars => CompileInv'
  <2> SUFFICES ASSUME CompileInv, [CompileNext]_compileVars PROVE CompileInv'
    OBVIOUS
  <2>1. ASSUME NEW job, CompileJob(job) PROVE CompileInv'
    BY <2>1, CompileJobStep
  <2>2. ASSUME NEW fc \in Named, SaveArtifact(fc) \/ RemoveArtifact(fc) PROVE CompileInv'
    BY <2>2, SaveArtifactStep, RemoveArtifactStep
  <2>3. CASE SaveDebugFile \/ RemoveDebugFile
    BY <2>3, SaveDebugFileStep, RemoveDebugFileStep
  <2>4. CASE RemoveBuildInfo
    <3>1. task.name = "compile" /\ task.step = "remove build info"
      BY <2>4 DEF RemoveBuildInfo
    <3>2. PICK name : Remove(BuildInfo(name))
      BY <2>4 DEF RemoveBuildInfo
    <3>3. task' = [task EXCEPT !.step = "jobs"] /\ UNCHANGED <<sources, config, doubtful>>
      BY <2>4 DEF RemoveBuildInfo
    <3> QED
      BY <3>1, <3>2, <3>3, BuildInfoRemoved
  <2>5. ASSUME NEW name, UnlinkBuildInfo(name) PROVE CompileInv'
    <3>1. task.name = "compile" /\ task.step = "jobs" /\ Remove(BuildInfo(name))
      BY <2>5 DEF UnlinkBuildInfo, Cleaned, Compiled, Building
    <3>2. task' = task /\ UNCHANGED <<sources, config, doubtful>>
      BY <2>5 DEF UnlinkBuildInfo
    <3> QED
      BY <3>1, <3>2, BuildInfoRemoved
  <2>6. CASE WriteCache
    BY <2>6, WriteCacheStep
  <2>7. CASE FailCompile
    BY <2>7, FailCompileStep
  <2>8. CASE FinishClean \/ StartClean
    BY <2>8, CleanStep
  <2>9. CASE (\E tree \in Trees : Edit(tree)) \/ (\E cfg \in ProjectConfigs : SetConfig(cfg))
    BY <2>9, TaskAndDiskKept DEF Edit, SetConfig, CompileInv
  <2>10. ASSUME NEW fc \in Named, DeleteArtifact(fc) PROVE CompileInv'
    BY <2>10, DeleteArtifactStep
  <2>11. ASSUME NEW force \in BOOLEAN, StartCompile(force) PROVE CompileInv'
    BY <2>11, StartCompileStep
  <2>12. CASE Crash
    BY <2>12, CrashStep
  <2>13. CASE UNCHANGED compileVars
    BY <2>13, TaskAndDiskKept DEF compileVars, CompileInv
  <2> QED
    BY <2>1, <2>2, <2>3, <2>4, <2>5, <2>6, <2>7, <2>8, <2>9, <2>10, <2>11, <2>12, <2>13
       DEF CompileNext, ServeTask, UserStep
<1> QED
  BY <1>1, <1>2, PTL DEF CompileSpec

(* When compile is ready to finish, all its jobs are done and all that they *)
(* emit is written.                                                         *)
LEMMA WhenReady ==
  ASSUME CompileInv, ReadyToFinish
  PROVE  /\ CompileTaskOK
         /\ \A f \in GraphOfTask : Done(f)
         /\ \A f \in GraphOfTask \ (doubtful \ task.emitted) : DoneFresh(f)
         /\ \A fc : /\ HasArtifact(fc) => ArtifactExists(fc)
                    /\ IsMade(fc) => AsCached(fc) /\ DebugOK(fc)
         /\ ObsoleteArtifacts = {}
<1>1. /\ task.name = "compile" /\ task.step = "jobs" /\ task.toEmit = {} /\ task.jobs = {}
      /\ ObsoleteArtifacts = {}
  BY DEF ReadyToFinish, Cleaned, Compiled, Building
<1>2. CompileTaskOK
  BY <1>1, Compiling
<1>3. \A f : ~Waits(f)
  BY <1>1 DEF Waits
<1>4. \A fc : ~Saving(fc)
  BY <1>1 DEF Saving
<1> QED
  BY <1>1, <1>2, <1>3, <1>4 DEF CompileTaskOK, FilesOK, GraphOfTask, HasArtifact, IsMade

------------------------------------------------------------------------------
(* The configuration                                                        *)

(* What the task compiles with is what its configuration has for the file,  *)
(* and so is what the cache has for a file that needs no compiling.         *)
Configured(solc, f) == solc \in CompilersFor(task.read, task.deps, task.config, f)

JobsConfigured == \A job \in task.jobs : \A f \in job.emits : Configured(job.solc, f)

FilesConfigured ==
  \A f \in DOMAIN task.read : Waits(f) \/ (f \in DOMAIN task.cache /\ Configured(task.cache[f].solcConfig, f))

(* The cache lists files that are there, and the graph has those of the     *)
(* project.                                                                 *)
CacheCovers ==
  /\ DOMAIN task.cache \subseteq task.existing
  /\ DOMAIN task.read \subseteq task.existing
  /\ task.existing \subseteq Files /\ task.existing \ Library \subseteq DOMAIN task.read

TaskConfigured == task.name = "compile" => JobsConfigured /\ FilesConfigured /\ CacheCovers

OfCompiler(job, solcOf, solc) == job.solc = solc /\ \A f \in job.emits : solcOf[f] = solc

LEMMA MergedConfigured ==
  ASSUME NEW solcOf, NEW jobs, jobs # {}, NEW solc, \A job \in jobs : OfCompiler(job, solcOf, solc)
  PROVE  /\ Merged(jobs).solc = solc
         /\ \A f \in Merged(jobs).emits : solcOf[f] = solc
         /\ \A job \in jobs : job.emits \subseteq Merged(jobs).emits
<1>1. (CHOOSE job \in jobs : TRUE) \in jobs
  OBVIOUS
<1>2. /\ Merged(jobs).solc = (CHOOSE job \in jobs : TRUE).solc
      /\ Merged(jobs).emits = UNION {job.emits : job \in jobs}
  BY DEF Merged
<1> QED
  BY <1>1, <1>2 DEF OfCompiler

(* Each job has the compiler of its files; a file is in a job, or the cache *)
(* has its compiler.                                                        *)
LEMMA JobsHaveTheirCompiler ==
  ASSUME NEW read, NEW deps, ReadOK(read, deps), NEW solcOf, NEW cache, NEW force,
         NEW jobs, jobs = CompilationJobs(read, deps, solcOf, cache, force)
  PROVE  /\ \A job \in jobs : \A f \in job.emits : job.solc = solcOf[f]
         /\ \A f \in DOMAIN read :
              (\E job \in jobs : f \in job.emits) \/ (f \in DOMAIN cache /\ cache[f].solcConfig = solcOf[f])
<1> DEFINE Job(f) == [solc |-> solcOf[f], emits |-> {f}, files |-> {f} \cup deps[f]]
           JobsOf(group) == {Job(f) : f \in group}
           Needed(some) == {job \in some : force \/ NeedsCompilation(job, read, cache)}
           ofFiles == Needed({Job(f) : f \in {g \in DOMAIN read : ~solcOf[g].optimizer}})
           groups ==
             UNION {{{g \in component : solcOf[g] = solcOf[f]} : f \in {h \in component : solcOf[h].optimizer}} :
                      component \in ConnectedComponents(deps)}
           ofGroups == Needed({Merged(JobsOf(group)) : group \in groups})
           ofSolc(solc) == {job \in ofFiles : job.solc = solc}
           merged == {Merged(ofSolc(solc)) : solc \in {job.solc : job \in ofFiles}}
<1>1. jobs = ofGroups \cup merged
  BY DEF CompilationJobs
<1>2. DOMAIN deps = DOMAIN read /\ DOMAIN read \subseteq Files
  BY DEF ReadOK, TransitiveDependencies
<1>3. \A f \in DOMAIN read : \E component \in ConnectedComponents(deps) : f \in component
  BY <1>2, ComponentsCover
<1>4. ASSUME NEW group \in groups
      PROVE  \E f \in group : \A g \in group : solcOf[g] = solcOf[f]
  <2>1. PICK component \in ConnectedComponents(deps) :
          \E f \in component : group = {g \in component : solcOf[g] = solcOf[f]}
    OBVIOUS
  <2> QED
    BY <2>1
<1>5. \A f \in DOMAIN read : solcOf[f].optimizer => \E group \in groups : f \in group
  <2> SUFFICES ASSUME NEW f \in DOMAIN read, solcOf[f].optimizer PROVE \E group \in groups : f \in group
    OBVIOUS
  <2>1. PICK component \in ConnectedComponents(deps) : f \in component
    BY <1>3
  <2>2. {g \in component : solcOf[g] = solcOf[f]} \in groups
    BY <2>1
  <2>3. f \in {g \in component : solcOf[g] = solcOf[f]}
    BY <2>1
  <2> QED
    BY <2>2, <2>3
<1> HIDE DEF groups
<1>6. ASSUME NEW job, ~NeedsCompilation(job, read, cache), NEW f \in job.emits, f \in job.files
      PROVE  f \in DOMAIN cache /\ cache[f].solcConfig = job.solc
  BY <1>6 DEF NeedsCompilation
<1>7. ASSUME NEW group \in groups
      PROVE  /\ \A f \in Merged(JobsOf(group)).emits : Merged(JobsOf(group)).solc = solcOf[f]
             /\ \A f \in group : f \in Merged(JobsOf(group)).emits /\ f \in Merged(JobsOf(group)).files
  <2>1. PICK f \in group : \A g \in group : solcOf[g] = solcOf[f]
    BY <1>4
  <2> DEFINE solc == solcOf[f]
  <2>2. JobsOf(group) # {} /\ \A job \in JobsOf(group) : OfCompiler(job, solcOf, solc)
    <3>1. \A g \in group : OfCompiler(Job(g), solcOf, solc)
      <4>1. \A g \in group : solcOf[g] = solc
        BY <2>1
      <4> HIDE DEF solc
      <4> QED
        BY <4>1 DEF OfCompiler
    <3> HIDE DEF Job
    <3> QED
      BY <3>1, <2>1
  <2>3. /\ \A g \in group : Job(g) \in JobsOf(group) /\ Job(g).emits = {g} /\ g \in Job(g).files
        /\ Merged(JobsOf(group)).files = UNION {job.files : job \in JobsOf(group)}
    BY DEF Merged
  <2> HIDE DEF solc, Job, JobsOf
  <2>4. /\ Merged(JobsOf(group)).solc = solc
        /\ \A g \in Merged(JobsOf(group)).emits : solcOf[g] = solc
        /\ \A job \in JobsOf(group) : job.emits \subseteq Merged(JobsOf(group)).emits
    BY <2>2, MergedConfigured
  <2> QED
    BY <2>3, <2>4
<1>8. \A job \in ofFiles : \A f \in job.emits : solcOf[f] = job.solc
  OBVIOUS
<1>9. ASSUME NEW solc \in {job.solc : job \in ofFiles}
      PROVE  /\ \A f \in Merged(ofSolc(solc)).emits : Merged(ofSolc(solc)).solc = solcOf[f]
             /\ \A job \in ofSolc(solc) : job.emits \subseteq Merged(ofSolc(solc)).emits
  <2>1. ofSolc(solc) # {} /\ \A job \in ofSolc(solc) : OfCompiler(job, solcOf, solc)
    BY <1>8 DEF OfCompiler
  <2> HIDE DEF ofSolc
  <2> QED
    BY <2>1, MergedConfigured
<1>10. ASSUME NEW job \in jobs PROVE \A f \in job.emits : job.solc = solcOf[f]
  <2>1. CASE job \in ofGroups
    <3>1. PICK group \in groups : job = Merged(JobsOf(group))
      BY <2>1
    <3> QED
      BY <3>1, <1>7
  <2>2. CASE job \in merged
    <3>1. PICK solc \in {one.solc : one \in ofFiles} : job = Merged(ofSolc(solc))
      BY <2>2
    <3> QED
      BY <3>1, <1>9
  <2> QED
    BY <1>1, <2>1, <2>2
<1>11. ASSUME NEW f \in DOMAIN read, solcOf[f].optimizer
       PROVE  (\E job \in jobs : f \in job.emits) \/ (f \in DOMAIN cache /\ cache[f].solcConfig = solcOf[f])
  <2>1. PICK group \in groups : f \in group
    BY <1>5, <1>11
  <2> DEFINE job == Merged(JobsOf(group))
  <2>2. f \in job.emits /\ f \in job.files /\ job.solc = solcOf[f]
    BY <1>7, <2>1
  <2>3. NeedsCompilation(job, read, cache) => job \in jobs
    BY <1>1, <2>1
  <2> HIDE DEF job
  <2> QED
    BY <2>2, <2>3, <1>6
<1>12. ASSUME NEW f \in DOMAIN read, ~solcOf[f].optimizer
       PROVE  (\E job \in jobs : f \in job.emits) \/ (f \in DOMAIN cache /\ cache[f].solcConfig = solcOf[f])
  <2>1. Job(f).emits = {f} /\ f \in Job(f).files /\ Job(f).solc = solcOf[f]
    OBVIOUS
  <2>2. CASE NeedsCompilation(Job(f), read, cache)
    <3>1. Job(f) \in ofFiles
      BY <2>2, <1>12
    <3>2. Job(f).solc \in {job.solc : job \in ofFiles} /\ Job(f) \in ofSolc(Job(f).solc)
      BY <3>1
    <3>3. Merged(ofSolc(Job(f).solc)) \in jobs
      BY <3>2, <1>1
    <3>4. f \in Merged(ofSolc(Job(f).solc)).emits
      BY <3>2, <2>1, <1>9
    <3> QED
      BY <3>3, <3>4
  <2>3. CASE ~NeedsCompilation(Job(f), read, cache)
    BY <2>1, <2>3, <1>6
  <2> QED
    BY <2>2, <2>3
<1> QED
  BY <1>10, <1>11, <1>12

LEMMA StartConfigured ==
  ASSUME CompileInv, NEW force, StartCompile(force)
  PROVE  TaskConfigured'
<1> PICK read : read = Restrict(sources, GraphFiles)
  OBVIOUS
<1> PICK deps : deps = TransitiveDependencies(read)
  OBVIOUS
<1> PICK cache : cache = ReadCache(DOMAIN read)
  OBVIOUS
<1>1. PICK solcOf, jobs :
        /\ \A f \in DOMAIN read : solcOf[f] \in CompilersFor(read, deps, config, f)
        /\ jobs = CompilationJobs(read, deps, solcOf, cache, force)
        /\ task' = [name |-> "compile", step |-> "jobs", config |-> config, existing |-> Existing,
                    read |-> read, deps |-> deps, cache |-> cache, jobs |-> jobs,
                    buildInfo |-> "none", toEmit |-> {}, of |-> "none", emitted |-> {}]
  <2> DEFINE solcOf == [f \in DOMAIN read |-> CHOOSE solc \in CompilersFor(read, deps, config, f) : TRUE]
  <2>1. \A f \in DOMAIN read : CompilersFor(read, deps, config, f) # {}
    BY DEF StartCompile
  <2>2. \A f \in DOMAIN read : solcOf[f] \in CompilersFor(read, deps, config, f)
    BY <2>1
  <2>3. task' = [name |-> "compile", step |-> "jobs", config |-> config, existing |-> Existing,
                 read |-> read, deps |-> deps, cache |-> cache,
                 jobs |-> CompilationJobs(read, deps, solcOf, cache, force),
                 buildInfo |-> "none", toEmit |-> {}, of |-> "none", emitted |-> {}]
    BY DEF StartCompile
  <2> HIDE DEF solcOf
  <2> QED
    BY <2>2, <2>3
<1>2. /\ task'.read = read /\ task'.deps = deps /\ task'.config = config /\ task'.cache = cache
      /\ task'.jobs = jobs /\ task'.existing = Existing
  BY <1>1
<1>3. ReadOK(read, deps) /\ GraphFiles \subseteq Existing
  BY GraphOK DEF CompileInv, StartCompile
<1>4. /\ \A job \in jobs : job.emits \subseteq DOMAIN read
      /\ \A job \in jobs : \A f \in job.emits : job.solc = solcOf[f]
      /\ \A f \in DOMAIN read :
           (\E job \in jobs : f \in job.emits) \/ (f \in DOMAIN cache /\ cache[f].solcConfig = solcOf[f])
  <2>1. \A f \in DOMAIN read : solcOf[f] \in Solcs
    BY <1>1, CompilersConfigured DEF CompileInv
  <2>2. \A job \in jobs : JobOK(job, read)
    BY <1>1, <1>3, <2>1, JobsCover
  <2> QED
    BY <1>1, <1>3, <2>2, JobsHaveTheirCompiler DEF JobOK
<1>5. JobsConfigured'
  BY <1>1, <1>2, <1>4 DEF JobsConfigured, Configured
<1>6. FilesConfigured'
  BY <1>1, <1>2, <1>4 DEF FilesConfigured, Configured, Waits
<1>7. DOMAIN read = GraphFiles
  BY DEF Restrict
<1>8. DOMAIN cache \subseteq Existing
  BY DEF ReadCache, StoredCache, Restrict
<1>9. Existing \ Library \subseteq GraphFiles /\ Existing \subseteq Files
  BY DEF GraphFiles, Reached, Existing
<1> QED
  BY <1>2, <1>3, <1>5, <1>6, <1>7, <1>8, <1>9 DEF TaskConfigured, CacheCovers

LEMMA CompileJobConfigured ==
  ASSUME CompileInv, TaskConfigured, NEW job, CompileJob(job)
  PROVE  TaskConfigured'
<1>1. /\ task.name = "compile" /\ job \in task.jobs /\ CompileTaskOK
      /\ JobsConfigured /\ FilesConfigured /\ CacheCovers
  BY Compiling DEF CompileJob, Building, NextJobs, TaskConfigured
<1>2. /\ task'.read = task.read /\ task'.deps = task.deps /\ task'.config = task.config
      /\ task'.existing = task.existing /\ task'.jobs = task.jobs \ {job}
      /\ task'.cache = Over(CacheEntries(job), task.cache)
  BY <1>1 DEF CompileJob, CompileTaskOK, Shape
<1>3. job.emits \subseteq DOMAIN task.read
  BY <1>1 DEF CompileTaskOK, JobOK
<1>4. /\ DOMAIN task'.cache = job.emits \cup DOMAIN task.cache
      /\ \A f \in job.emits : task'.cache[f].solcConfig = job.solc
      /\ \A f \in DOMAIN task.cache \ job.emits : task'.cache[f] = task.cache[f]
  BY <1>2 DEF Over, CacheEntries
<1>5. JobsConfigured'
  BY <1>1, <1>2 DEF JobsConfigured, Configured
<1>6. FilesConfigured'
  <2> SUFFICES ASSUME NEW f \in DOMAIN task.read, ~Waits(f)'
               PROVE  f \in DOMAIN task'.cache /\ Configured(task'.cache[f].solcConfig, f)
    BY <1>2 DEF FilesConfigured, Configured
  <2>1. CASE f \in job.emits
    BY <1>1, <1>4, <2>1 DEF JobsConfigured
  <2>2. CASE f \notin job.emits
    <3>1. ~Waits(f)
      BY <1>2, <2>2 DEF Waits
    <3> QED
      BY <1>1, <1>4, <2>2, <3>1 DEF FilesConfigured
  <2> QED
    BY <2>1, <2>2
<1>7. CacheCovers'
  BY <1>1, <1>2, <1>3, <1>4 DEF CacheCovers
<1> QED
  BY <1>5, <1>6, <1>7 DEF TaskConfigured

LEMMA ConfiguredKept ==
  ASSUME TaskConfigured,
         \/ task' = task
         \/ task'.name # "compile"
         \/ /\ task.name = "compile"
            /\ task'.read = task.read /\ task'.deps = task.deps /\ task'.config = task.config
            /\ task'.existing = task.existing /\ task'.jobs = task.jobs /\ task'.cache = task.cache
  PROVE  TaskConfigured'
<1>1. CASE task' = task
  BY <1>1 DEF TaskConfigured, JobsConfigured, FilesConfigured, CacheCovers, Configured, Waits
<1>2. CASE task'.name # "compile"
  BY <1>2 DEF TaskConfigured
<1> QED
  BY <1>1, <1>2 DEF TaskConfigured, JobsConfigured, FilesConfigured, CacheCovers, Configured, Waits

(* What a task leaves alone was made by a compiler of the configuration it  *)
(* has read, for its file, and what it writes is.                           *)
THEOREM CompilersAlwaysConfigured == CompileSpec => [](CompileInv /\ TaskConfigured)
<1>1. CompileInit => TaskConfigured
  BY DEF CompileInit, TaskConfigured, Idle
<1>2. CompileInv /\ TaskConfigured /\ [CompileNext]_compileVars => TaskConfigured'
  <2> SUFFICES ASSUME CompileInv, TaskConfigured, [CompileNext]_compileVars PROVE TaskConfigured'
    OBVIOUS
  <2>1. ASSUME NEW job, CompileJob(job) PROVE TaskConfigured'
    BY <2>1, CompileJobConfigured
  <2>2. ASSUME NEW force, StartCompile(force) PROVE TaskConfigured'
    BY <2>2, StartConfigured
  <2>3. ASSUME task.name = "compile", CompileTaskOK,
               \/ SaveDebugFile \/ RemoveDebugFile \/ RemoveBuildInfo
               \/ \E fc \in Named : SaveArtifact(fc) \/ RemoveArtifact(fc)
        PROVE  TaskConfigured'
    <3>1. /\ task'.read = task.read /\ task'.deps = task.deps /\ task'.config = task.config
          /\ task'.existing = task.existing /\ task'.jobs = task.jobs /\ task'.cache = task.cache
      BY <2>3 DEF SaveDebugFile, RemoveDebugFile, RemoveBuildInfo, SaveArtifact, RemoveArtifact,
                  CompileTaskOK, Shape
    <3> QED
      BY <2>3, <3>1, ConfiguredKept
  <2>4. CASE \/ SaveDebugFile \/ RemoveDebugFile \/ RemoveBuildInfo
             \/ \E fc \in Named : SaveArtifact(fc) \/ RemoveArtifact(fc)
    <3>1. task.name = "compile"
      BY <2>4 DEF SaveDebugFile, RemoveDebugFile, RemoveBuildInfo, SaveArtifact, RemoveArtifact,
                  Compiled, Building
    <3> QED
      BY <2>3, <2>4, <3>1, Compiling
  <2>5. CASE \/ \E name \in BuildInfosOnDisk : UnlinkBuildInfo(name)
             \/ \E tree \in Trees : Edit(tree)
             \/ \E cfg \in ProjectConfigs : SetConfig(cfg)
             \/ \E fc \in Named : DeleteArtifact(fc)
             \/ UNCHANGED compileVars
    <3>1. task' = task
      BY <2>5 DEF UnlinkBuildInfo, Edit, SetConfig, DeleteArtifact, compileVars
    <3> QED
      BY <3>1, ConfiguredKept
  <2>6. CASE WriteCache \/ FailCompile \/ FinishClean \/ StartClean \/ Crash
    <3>1. task'.name # "compile"
      <4>1. task' = Idle \/ task' = [name |-> "clean"]
        BY <2>6 DEF WriteCache, FailCompile, FinishClean, StartClean, Crash
      <4> QED
        BY <4>1 DEF Idle
    <3> QED
      BY <3>1, ConfiguredKept
  <2> QED
    BY <2>1, <2>2, <2>4, <2>5, <2>6 DEF CompileNext, ServeTask, UserStep
<1> QED
  BY <1>1, <1>2, CompileInvariant, PTL DEF CompileSpec

(* When compile is ready to finish, each file has the compiler that the     *)
(* configuration has for it.                                                *)
LEMMA WhenConfigured ==
  ASSUME TaskConfigured, ReadyToFinish
  PROVE  /\ \A f \in GraphOfTask : Configured(task.cache[f].solcConfig, f)
         /\ CacheCovers
<1>1. task.name = "compile" /\ task.jobs = {}
  BY DEF ReadyToFinish, Cleaned, Compiled, Building
<1>2. \A f : ~Waits(f)
  BY <1>1 DEF Waits
<1> QED
  BY <1>1, <1>2 DEF TaskConfigured, FilesConfigured, GraphOfTask

------------------------------------------------------------------------------
(* When compile succeeds, the artifacts of every file that is not in doubt  *)
(* are what the compiler its configuration has for the file makes of the    *)
(* sources it read, whatever was edited, reconfigured or deleted, failed or *)
(* died before.                                                             *)
THEOREM ArtifactsAlwaysFresh == CompileSpec => []FreshUnlessDoubtful
<1>1. CompileInv /\ TaskConfigured => FreshUnlessDoubtful
  <2> SUFFICES ASSUME CompileInv, TaskConfigured, ReadyToFinish,
                      NEW f \in GraphOfTask \ (doubtful \ task.emitted),
                      NEW contract \in ContractsOf[task.read[f]]
               PROVE  IsFresh(<<f, contract>>)
    BY DEF FreshUnlessDoubtful
  <2> DEFINE fc == <<f, contract>>
  <2>1. AsCached(fc) /\ fc[1] = f
    BY WhenReady DEF DoneFresh
  <2>2. Configured(task.cache[f].solcConfig, f)
    BY WhenConfigured
  <2> HIDE DEF fc
  <2>3. IsFresh(fc)
    BY <2>1, <2>2 DEF IsFresh, AsCached, Configured
  <2> QED
    BY <2>3 DEF fc
<1> QED
  BY <1>1, CompilersAlwaysConfigured, PTL

(* When compile succeeds, there is a whole artifact for every contract of   *)
(* the graph, and none for any other but of libraries that are there and no *)
(* longer imported.                                                         *)
THEOREM ArtifactsAlwaysComplete == CompileSpec => []CompleteAfterSuccess
<1>1. CompileInv /\ TaskConfigured => CompleteAfterSuccess
  <2> SUFFICES ASSUME CompileInv, TaskConfigured, ReadyToFinish
               PROVE  /\ \A fc \in ContractsIn(GraphOfTask, task.read) : ArtifactExists(fc)
                      /\ \A fc \in ArtifactsOnDisk :
                           \/ fc \in ContractsIn(GraphOfTask, task.read)
                           \/ fc[1] \in (Library \cap task.existing) \ GraphOfTask
    BY DEF CompleteAfterSuccess
  <2>1. CompileTaskOK /\ ObsoleteArtifacts = {} /\ CacheCovers /\ \A f \in GraphOfTask : Done(f)
    BY WhenReady, WhenConfigured
  <2>2. ASSUME NEW fc \in ContractsIn(GraphOfTask, task.read) PROVE ArtifactExists(fc)
    <3>1. /\ fc[1] \in GraphOfTask /\ fc[2] \in ContractsOf[task.read[fc[1]]]
          /\ fc = <<fc[1], fc[2]>>
      BY <2>1, ContractsNamed DEF CompileTaskOK, GraphOfTask
    <3> QED
      BY <2>1, <3>1, WhenReady DEF Done
  <2>3. ASSUME NEW fc \in ArtifactsOnDisk
        PROVE  \/ fc \in ContractsIn(GraphOfTask, task.read)
               \/ fc[1] \in (Library \cap task.existing) \ GraphOfTask
    <3>1. fc \in ValidArtifacts
      BY <2>1 DEF ObsoleteArtifacts
    <3>2. PICK f \in DOMAIN task.cache : fc \in {f} \X task.cache[f].artifacts
      BY <3>1 DEF ValidArtifacts
    <3>3. fc[1] = f /\ f \in task.existing
      BY <2>1, <3>2 DEF CacheCovers
    <3>4. CASE f \in GraphOfTask
      <4>1. task.cache[f].artifacts = ContractsOf[task.read[f]]
        BY <2>1, <3>2, <3>4 DEF Done, CompileTaskOK, CacheOK
      <4> QED
        BY <3>2, <3>4, <4>1 DEF ContractsIn
    <3>5. CASE f \notin GraphOfTask
      BY <2>1, <3>3, <3>5 DEF CacheCovers, GraphOfTask
    <3> QED
      BY <3>4, <3>5
  <2> QED
    BY <2>2, <2>3
<1> QED
  BY <1>1, CompilersAlwaysConfigured, PTL

(* When compile succeeds, the debug file of an artifact that is not in      *)
(* doubt names the build info of the run of the compiler that made it.      *)
THEOREM DebugFilesAlwaysName == CompileSpec => []DebugFilesName
<1>1. CompileInv => DebugFilesName
  <2> SUFFICES ASSUME CompileInv, ReadyToFinish,
                      NEW f \in GraphOfTask \ (doubtful \ task.emitted),
                      NEW fc \in {f} \X ContractsOf[task.read[f]]
               PROVE  DebugOK(fc)
    BY DEF DebugFilesName, DebugOK
  <2>1. DoneFresh(f)
    BY WhenReady
  <2>2. fc = <<f, fc[2]>> /\ fc[2] \in ContractsOf[task.read[f]]
    OBVIOUS
  <2>3. IsMade(fc)
    BY <2>1, <2>2 DEF DoneFresh
  <2> QED
    BY <2>3, WhenReady
<1> QED
  BY <1>1, CompileInvariant, PTL
==============================================================================
