------------------------------- MODULE Compile -------------------------------
(***************************************************************************)
(* The compile and clean tasks: the Solidity files of the project and of   *)
(* the libraries they import are turned into compilation jobs; a job whose *)
(* files are as the cache remembers them is left out; the others write     *)
(* their build info and the artifact and debug file of every contract;     *)
(* what is obsolete is removed, and the cache is written last. The files   *)
(* and the configuration may change at any time, and the process may die   *)
(* between any two writes and in the middle of one.                        *)
(***************************************************************************)
EXTENDS Integers, Functions

CONSTANTS
  Files,          \* the source files
  Library,        \* those that are compiled only when they are imported
  Trees,          \* the states the source tree may be in: the content of each file or Absent
  ImportsOf,      \* the files a content imports
  VersionsOf,     \* the compiler versions the pragmas of a content allow
  ContractsOf,    \* the contracts a content declares
  Broken,         \* the contents the compiler rejects
  ProjectConfigs, \* the Solidity configurations the project may have
  MaxChanges,     \* bound on what the user changes
  MaxCrashes,     \* bound on the crashes
  Absent,         \* in place of the content of a file that does not exist
  Torn            \* what is left of a file when the process dies writing it

Contents == (UNION {Range(tree) : tree \in Trees}) \ {Absent}
Contracts == UNION {ContractsOf[content] : content \in Contents}

Solcs == UNION {cfg.compilers \cup Range(cfg.overrides) : cfg \in ProjectConfigs}

(* What the compiler makes of some files.                                   *)
Outputs == [solc: Solcs, sources: UNION {[S -> Contents] : S \in SUBSET Files}]

(* The compilers and overrides of the configuration are told apart by their *)
(* value; each job has one of them. What is torn is no output.              *)
ASSUME CompileAssumption ==
  /\ Library \subseteq Files
  /\ \A tree \in Trees : DOMAIN tree = Files
  /\ \A content \in Contents : ImportsOf[content] \subseteq Files
  /\ \A cfg \in ProjectConfigs :
       \A x, y \in cfg.compilers : x.version = y.version => x = y
  /\ Torn \notin Outputs

VARIABLES
  sources,  \* the content of every file, or Absent
  config,   \* the Solidity configuration
  disk,     \* the cache, artifacts, debug files and build infos by their path
  task,     \* the task that runs
  doubtful, \* files whose artifacts a stopped task or an unused import left in doubt
  changes,  \* how often the user changed something
  crashes   \* how often the process died

counters == <<changes, crashes>>
compileVars == <<sources, config, disk, task, doubtful, counters>>

Idle == [name |-> "none"]
Cache == <<"cache">>
Artifact(fc) == <<"artifact", fc[1], fc[2]>>
DebugFile(fc) == <<"debug", fc[1], fc[2]>>
BuildInfo(name) == <<"build-info", name>>

OnDisk(path) == path \in DOMAIN disk
IsTorn(path) == OnDisk(path) /\ disk[path] = Torn

Over(f, g) == [x \in DOMAIN f \cup DOMAIN g |-> IF x \in DOMAIN f THEN f[x] ELSE g[x]]

Write(path, content) == disk' = Over([p \in {path} |-> content], disk)
Remove(path) == disk' = Restrict(disk, DOMAIN disk \ {path})

Named == Files \X Contracts
ArtifactsOnDisk == {fc \in Named : OnDisk(Artifact(fc))}
DebugFilesOnDisk == {fc \in Named : OnDisk(DebugFile(fc))}
BuildInfosOnDisk == {path[2] : path \in {p \in DOMAIN disk : p[1] = "build-info"}}
------------------------------------------------------------------------------
(* The dependency graph                                                     *)
Existing == {f \in Files : sources[f] # Absent}

ImportsIn(contents) == {p \in (DOMAIN contents) \X Files : p[2] \in ImportsOf[contents[p[1]]]}

(* All that is reached from some files along the imports: what is in every  *)
(* set that has these files and with a file all that it imports.            *)
ClosedUnder(imports, S) == \A p \in imports : p[1] \in S => p[2] \in S

Reached(imports, from) ==
  {f \in Files : \A S \in SUBSET Files : from \subseteq S /\ ClosedUnder(imports, S) => f \in S}

(* The files of the project and all they import.                            *)
GraphFiles == Reached(ImportsIn(Restrict(sources, Existing)), Existing \ Library)

(* For each file, what it imports in one or more steps; and the connected   *)
(* component it is in.                                                      *)
TransitiveDependencies(read) ==
  LET imports == ImportsIn(read)
  IN  [f \in DOMAIN read |-> Reached(imports, ImportsOf[read[f]]) \ {f}]

ConnectedComponents(deps) ==
  LET linked == {p \in (DOMAIN deps) \X (DOMAIN deps) : p[2] \in deps[p[1]] \/ p[1] \in deps[p[2]]}
  IN  {Reached(linked, {f}) : f \in DOMAIN deps}
------------------------------------------------------------------------------
(* The compilation jobs                                                     *)

(* The override of the file if its version is allowed by the file and all   *)
(* it imports, else the newest compiler that is.                            *)
CompilersFor(read, deps, cfg, f) ==
  LET Allowed(solc) == \A g \in {f} \cup deps[f] : solc.version \in VersionsOf[read[g]]
      matching == {solc \in cfg.compilers : Allowed(solc)}
  IN  IF f \in DOMAIN cfg.overrides
        THEN {solc \in {cfg.overrides[f]} : Allowed(solc)}
        ELSE {solc \in matching : \A other \in matching : other.version <= solc.version}

Merged(jobs) ==
  [solc |-> (CHOOSE job \in jobs : TRUE).solc,
   emits |-> UNION {job.emits : job \in jobs},
   files |-> UNION {job.files : job \in jobs}]

(* Mutant: only the file itself is compared with the cache. *)
NeedsCompilationOfItself(job, read, cache) ==
  \E f \in job.emits :
    \/ f \notin DOMAIN cache
    \/ cache[f].contentHash # read[f]
    \/ cache[f].solcConfig # job.solc

(* Mutant: files compiled with another configuration are taken for done.    *)
NeedsCompilationIfEdited(job, read, cache) ==
  \E f \in job.files : f \notin DOMAIN cache \/ cache[f].contentHash # read[f]

NeedsCompilation(job, read, cache) ==
  \E f \in job.files :
    \/ f \notin DOMAIN cache
    \/ cache[f].contentHash # read[f]
    \/ f \in job.emits /\ cache[f].solcConfig # job.solc

(* With the optimizer a job is all the files of a connected component that  *)
(* have the same compiler (solc bug 9573); otherwise a job is one file, and *)
(* those that are needed are merged.                                        *)
CompilationJobs(read, deps, solcOf, cache, force) ==
  LET Job(f) == [solc |-> solcOf[f], emits |-> {f}, files |-> {f} \cup deps[f]]
      Needed(jobs) == {job \in jobs : force \/ NeedsCompilation(job, read, cache)}
      ofFiles == Needed({Job(f) : f \in {g \in DOMAIN read : ~solcOf[g].optimizer}})
      groups ==
        UNION {{{g \in component : solcOf[g] = solcOf[f]} : f \in {h \in component : solcOf[h].optimizer}} :
                 component \in ConnectedComponents(deps)}
  IN  Needed({Merged({Job(f) : f \in group}) : group \in groups})
        \cup {Merged({job \in ofFiles : job.solc = solc}) : solc \in {job.solc : job \in ofFiles}}

(* What the compiler is given, which is also the name of the build info.    *)
CompilerInput(job, read) == [solc |-> job.solc, sources |-> Restrict(read, job.files)]

(* What the compiler makes of a file: it depends on what the file imports.  *)
Output(f, solc, read, deps) == [solc |-> solc, sources |-> Restrict(read, {f} \cup deps[f])]

ContractsIn(files, read) == UNION {{f} \X ContractsOf[read[f]] : f \in files}
------------------------------------------------------------------------------
(* The user                                                                 *)
Edit(tree) ==
  /\ sources # tree
  /\ sources' = tree
  /\ changes < MaxChanges /\ changes' = changes + 1
  /\ UNCHANGED <<crashes, config, disk, task, doubtful>>

SetConfig(cfg) ==
  /\ config # cfg
  /\ config' = cfg
  /\ changes < MaxChanges /\ changes' = changes + 1
  /\ UNCHANGED <<crashes, sources, disk, task, doubtful>>

DeleteArtifact(fc) ==
  /\ task = Idle
  /\ OnDisk(Artifact(fc))
  /\ Remove(Artifact(fc))
  /\ changes < MaxChanges /\ changes' = changes + 1
  /\ UNCHANGED <<crashes, sources, config, task, doubtful>>
------------------------------------------------------------------------------
(* The compile task                                                         *)

(* An artifact that cannot be read does not exist.                          *)
ArtifactExists(fc) == OnDisk(Artifact(fc)) /\ ~IsTorn(Artifact(fc))

(* Mutant: the files that are gone stay in the cache. *)
WholeStoredCache == IF OnDisk(Cache) THEN disk[Cache] ELSE <<>>

(* The cache without the files that are gone.                               *)
StoredCache ==
  LET stored == IF OnDisk(Cache) THEN disk[Cache] ELSE <<>>
  IN  Restrict(stored, DOMAIN stored \cap Existing)

(* Mutant: missing artifacts are not looked for. *)
CacheAsStored(graph) == StoredCache

(* And without the files of the graph that miss an artifact.                *)
ReadCache(graph) ==
  Restrict(StoredCache, {f \in DOMAIN StoredCache :
    f \in graph => \A contract \in StoredCache[f].artifacts : ArtifactExists(<<f, contract>>)})

(* A cache that cannot be parsed, an import that cannot be resolved and a   *)
(* file without a compiler stop the task before it writes anything.         *)
StartCompile(force) ==
  /\ task = Idle
  /\ ~IsTorn(Cache)
  /\ GraphFiles \subseteq Existing
  /\ \E read \in {Restrict(sources, GraphFiles)} :
       \E deps \in {TransitiveDependencies(read)}, cache \in {ReadCache(DOMAIN read)} :
         /\ \A f \in DOMAIN read : CompilersFor(read, deps, config, f) # {}
         /\ \E solcOf \in {[f \in DOMAIN read |-> CHOOSE solc \in CompilersFor(read, deps, config, f) : TRUE]} :
              task' = [name |-> "compile", step |-> "jobs", config |-> config, existing |-> Existing,
                       read |-> read, deps |-> deps, cache |-> cache,
                       jobs |-> CompilationJobs(read, deps, solcOf, cache, force),
                       buildInfo |-> "none", toEmit |-> {}, of |-> "none", emitted |-> {}]
  /\ UNCHANGED <<sources, config, disk, doubtful, counters>>

Building == task.name = "compile" /\ task.step = "jobs" /\ task.toEmit = {}

NextJobs == {job \in task.jobs : \A other \in task.jobs : job.solc.version <= other.solc.version}

IsBroken(job) == \E f \in job.files : task.read[f] \in Broken

CacheEntries(job) ==
  [f \in job.emits |->
     [contentHash |-> task.read[f], solcConfig |-> job.solc, artifacts |-> ContractsOf[task.read[f]]]]

CompileJob(job) ==
  /\ Building /\ job \in NextJobs
  /\ ~IsBroken(job)
  /\ Write(BuildInfo(CompilerInput(job, task.read)), "build info")
  /\ task' = [task EXCEPT
                !.jobs = @ \ {job},
                !.buildInfo = CompilerInput(job, task.read),
                !.toEmit = ContractsIn(job.emits, task.read),
                !.emitted = @ \cup job.emits,
                !.cache = Over(CacheEntries(job), @)]
  /\ UNCHANGED <<sources, config, doubtful, counters>>

SaveArtifact(fc) ==
  /\ task.name = "compile" /\ task.step = "jobs" /\ fc \in task.toEmit
  /\ Write(Artifact(fc), Output(fc[1], task.buildInfo.solc, task.read, task.deps))
  /\ task' = [task EXCEPT !.step = "save debug file", !.of = fc, !.toEmit = @ \ {fc}]
  /\ UNCHANGED <<sources, config, doubtful, counters>>

(* Mutant: a debug file that is there already stays. *)
SaveMissingDebugFile ==
  /\ task.name = "compile" /\ task.step = "save debug file"
  /\ IF OnDisk(DebugFile(task.of)) THEN UNCHANGED disk ELSE Write(DebugFile(task.of), task.buildInfo)
  /\ task' = [task EXCEPT !.step = "jobs", !.of = "none"]
  /\ UNCHANGED <<sources, config, doubtful, counters>>

SaveDebugFile ==
  /\ task.name = "compile" /\ task.step = "save debug file"
  /\ Write(DebugFile(task.of), task.buildInfo)
  /\ task' = [task EXCEPT !.step = "jobs", !.of = "none"]
  /\ UNCHANGED <<sources, config, doubtful, counters>>

Compiled == Building /\ task.jobs = {}

ValidArtifacts == UNION {{f} \X task.cache[f].artifacts : f \in DOMAIN task.cache}
ObsoleteArtifacts == ArtifactsOnDisk \ ValidArtifacts

(* The artifact, its debug file, and the build info that this one names.    *)
RemoveArtifact(fc) ==
  /\ Compiled /\ fc \in ObsoleteArtifacts
  /\ Remove(Artifact(fc))
  /\ task' = [task EXCEPT !.step = "remove debug file", !.of = fc]
  /\ UNCHANGED <<sources, config, doubtful, counters>>

RemoveDebugFile ==
  /\ task.name = "compile" /\ task.step = "remove debug file"
  /\ ~IsTorn(DebugFile(task.of))
  /\ IF OnDisk(DebugFile(task.of))
       THEN /\ Remove(DebugFile(task.of))
            /\ task' = [task EXCEPT !.step = "remove build info", !.of = "none",
                                    !.buildInfo = disk[DebugFile(task.of)]]
       ELSE /\ task' = [task EXCEPT !.step = "jobs", !.of = "none"]
            /\ UNCHANGED disk
  /\ UNCHANGED <<sources, config, doubtful, counters>>

RemoveBuildInfo ==
  /\ task.name = "compile" /\ task.step = "remove build info"
  /\ Remove(BuildInfo(task.buildInfo))
  /\ task' = [task EXCEPT !.step = "jobs"]
  /\ UNCHANGED <<sources, config, doubtful, counters>>

Cleaned == Compiled /\ ObsoleteArtifacts = {}
DebugFilesReadable == \A fc \in DebugFilesOnDisk : ~IsTorn(DebugFile(fc))
UnusedBuildInfos == BuildInfosOnDisk \ {disk[DebugFile(fc)] : fc \in DebugFilesOnDisk}

UnlinkBuildInfo(name) ==
  /\ Cleaned /\ DebugFilesReadable
  /\ name \in UnusedBuildInfos
  /\ Remove(BuildInfo(name))
  /\ UNCHANGED <<sources, config, task, doubtful, counters>>

ReadyToFinish == Cleaned /\ DebugFilesReadable /\ UnusedBuildInfos = {}

WriteCache ==
  /\ ReadyToFinish
  /\ Write(Cache, task.cache)
  /\ task' = Idle
  /\ doubtful' = (doubtful \ task.emitted) \cup (DOMAIN task.cache \ DOMAIN task.read)
  /\ UNCHANGED <<sources, config, counters>>

(* A compiler error, or a debug file that cannot be parsed.                 *)
FailCompile ==
  /\ \/ Building /\ \E job \in NextJobs : IsBroken(job)
     \/ task.name = "compile" /\ task.step = "remove debug file" /\ IsTorn(DebugFile(task.of))
     \/ Cleaned /\ ~DebugFilesReadable
  /\ task' = Idle
  /\ doubtful' = doubtful \cup task.emitted
  /\ UNCHANGED <<sources, config, disk, counters>>
------------------------------------------------------------------------------
(* The clean task                                                           *)
StartClean ==
  /\ task = Idle
  /\ Remove(Cache)
  /\ task' = [name |-> "clean"]
  /\ UNCHANGED <<sources, config, doubtful, counters>>

FinishClean ==
  /\ task.name = "clean"
  /\ disk' = Restrict(disk, {})
  /\ task' = Idle
  /\ doubtful' = {}
  /\ UNCHANGED <<sources, config, counters>>
------------------------------------------------------------------------------
(* What the task writes next.                                               *)
BeingWritten ==
  CASE task.name = "compile" /\ task.step = "jobs" /\ task.toEmit # {} -> {Artifact(fc) : fc \in task.toEmit}
    [] task.name = "compile" /\ task.step = "save debug file" -> {DebugFile(task.of)}
    [] Building /\ task.jobs # {} ->
         {BuildInfo(CompilerInput(job, task.read)) : job \in {j \in NextJobs : ~IsBroken(j)}}
    [] ReadyToFinish -> {Cache}
    [] OTHER -> {}

Crash ==
  /\ task # Idle
  /\ crashes < MaxCrashes /\ crashes' = crashes + 1
  /\ UNCHANGED disk \/ \E path \in BeingWritten : Write(path, Torn)
  /\ task' = Idle
  /\ doubtful' = doubtful \cup IF task.name = "compile" THEN task.emitted ELSE {}
  /\ UNCHANGED <<sources, config, changes>>

CompileInit ==
  /\ sources \in Trees
  /\ config \in ProjectConfigs
  /\ disk = <<>>
  /\ task = Idle
  /\ doubtful = {}
  /\ changes = 0 /\ crashes = 0

ServeTask ==
  \/ \E job \in IF Building THEN task.jobs ELSE {} : CompileJob(job)
  \/ \E fc \in Named : SaveArtifact(fc) \/ RemoveArtifact(fc)
  \/ SaveDebugFile \/ RemoveDebugFile \/ RemoveBuildInfo
  \/ \E name \in BuildInfosOnDisk : UnlinkBuildInfo(name)
  \/ WriteCache \/ FailCompile \/ FinishClean

UserStep ==
  \/ \E tree \in Trees : Edit(tree)
  \/ \E cfg \in ProjectConfigs : SetConfig(cfg)
  \/ \E fc \in Named : DeleteArtifact(fc)
  \/ \E force \in BOOLEAN : StartCompile(force)
  \/ StartClean

CompileNext == ServeTask \/ UserStep \/ Crash

CompileSpec == CompileInit /\ [][CompileNext]_compileVars

------------------------------------------------------------------------------
GraphOfTask == DOMAIN task.read

(* An artifact is what the compiler makes of the files that were read, with *)
(* the compiler that the configuration the task has read has for its file.  *)
IsFresh(fc) ==
  /\ ArtifactExists(fc)
  /\ disk[Artifact(fc)].sources = Restrict(task.read, {fc[1]} \cup task.deps[fc[1]])
  /\ disk[Artifact(fc)].solc \in CompilersFor(task.read, task.deps, task.config, fc[1])

(* When compile succeeds, the artifacts of every file it compiled, and of   *)
(* every file it found up to date and that no stopped task or unused import *)
(* left in doubt, are those of the sources and the configuration it read,   *)
(* whatever was edited, reconfigured or deleted since they were made.       *)
FreshUnlessDoubtful ==
  ReadyToFinish =>
    \A f \in GraphOfTask \ (doubtful \ task.emitted) :
      \A contract \in ContractsOf[task.read[f]] : IsFresh(<<f, contract>>)

(* When compile succeeds, after whatever crashes and failures, there is a   *)
(* whole artifact for each contract of the project and of what it imports,  *)
(* and no other, but of libraries that are there and no longer imported: the *)
(* cache still lists those.                                                 *)
CompleteAfterSuccess ==
  ReadyToFinish =>
    /\ \A fc \in ContractsIn(GraphOfTask, task.read) : ArtifactExists(fc)
    /\ \A fc \in ArtifactsOnDisk :
         \/ fc \in ContractsIn(GraphOfTask, task.read)
         \/ fc[1] \in (Library \cap task.existing) \ GraphOfTask

(* When compile succeeds, the debug file of such an artifact names the run  *)
(* of the compiler that made it.                                            *)
DebugFilesName ==
  ReadyToFinish =>
    \A f \in GraphOfTask \ (doubtful \ task.emitted) :
      \A fc \in {f} \X ContractsOf[task.read[f]] :
        /\ OnDisk(DebugFile(fc))
        /\ LET input == disk[DebugFile(fc)]
           IN  /\ input.solc = disk[Artifact(fc)].solc
               /\ Restrict(input.sources, DOMAIN disk[Artifact(fc)].sources) = disk[Artifact(fc)].sources

(* "Compiles the entire project, building all artifacts": when compile      *)
(* succeeds, all artifacts are those of the sources.                        *)
AllArtifactsBuilt ==
  ReadyToFinish =>
    \A fc \in ContractsIn(GraphOfTask, task.read) : IsFresh(fc)
==============================================================================
