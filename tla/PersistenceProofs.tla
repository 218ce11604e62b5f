-------------------------- MODULE PersistenceProofs --------------------------
(***************************************************************************)
(* The run directory, for any number of processes, configuration files,    *)
(* regimes and failures, and whoever is killed wherever.                   *)
(***************************************************************************)
EXTENDS Persistence, ConfigProofs

-----------------------------------------------------------------------------
(* The inductive invariant.                                                *)

Places ==
    {"load", "base", "dump", "dumped", "mkdir", "mkdirPid", "openConfig", "fillConfig",
     "mkstemp", "write", "replace", "report", "plot", "done"}
Types ==
    /\ dirs \subseteq RunDirs
    /\ second \in 0 .. MaxSecond /\ faults \in 0 .. MaxFaults
    /\ config \in [Procs -> Loads] /\ pc \in [Procs -> Places]
    /\ stamp \in [Procs -> 0 .. MaxSecond] /\ runDir \in [Procs -> RunDirs \cup {None}]
    /\ item \in [Procs -> Nat] /\ exit \in [Procs -> {0, 1, 3, 4, None}]
    /\ failed \in [Procs -> BOOLEAN] /\ keptTmp \in [Procs -> BOOLEAN]

Loaded(p) == config[p].raised = "none"

BeforeDir == {"load", "base", "dump", "dumped", "mkdir", "mkdirPid"}
Writing == {"openConfig", "fillConfig", "mkstemp", "write", "replace"}
Reporting == {"report", "plot"}

Has(path, p) == path \in DOMAIN files /\ files[path].full /\ files[path].by = p

(* The files belong to whoever wrote them: a temporary file by its name,   *)
(* any other by its directory, which no two processes share.               *)
FilesOwned ==
    \A f \in DOMAIN files :
        LET p == files[f].by
        IN  /\ p \in Procs
            /\ files[f].full \in BOOLEAN
            /\ IF f.tmp = None THEN f.dir \in dirs /\ runDir[p] = f.dir
               ELSE f.tmp = p /\ ~IsPlot(f)
DirsOwned ==
    \A p, q \in Procs : p # q /\ runDir[p] = runDir[q] => runDir[p] = None

(* A published file is complete.                                           *)
PublishedComplete == \A f \in DOMAIN files : Published(f) => files[f].full

(* Where a process is.                                                     *)
Place(p) ==
    /\ pc[p] \in BeforeDir => runDir[p] = None
    /\ pc[p] \in Writing \cup Reporting => runDir[p] # None
    /\ runDir[p] # None => runDir[p] \in dirs
    /\ pc[p] \notin {"load", "done"} \/ runDir[p] # None => Loaded(p)
    /\ runDir[p] = None => item[p] = 1
    /\ runDir[p] # None => item[p] \in 1 .. LastItem(Cfg(p))
    /\ pc[p] \in {"openConfig", "fillConfig"} => item[p] = 1
    /\ pc[p] \in Reporting => item[p] = LastItem(Cfg(p))

(* Its temporary files, as long as each unlink succeeded: the one it is    *)
(* about, and none at its end if it was not killed.                        *)
Tmp(p) ==
    CASE pc[p] = "dumped" -> {ConfigTmp(p)}
      [] pc[p] \in {"write", "replace"} -> {TmpPath(p)}
      [] OTHER -> {}
Temporaries(p) ==
    /\ (pc[p] # "done" \/ exit[p] # None) /\ ~keptTmp[p] =>
          \A f \in DOMAIN files : f.tmp = p => f \in Tmp(p)
    /\ pc[p] = "replace" => Has(TmpPath(p), p)
    /\ exit[p] # None => pc[p] = "done"

(* Its published files are the items before item[p], and the manifest at   *)
(* the end.                                                                *)
Ended(p) == item[p] = LastItem(Cfg(p)) /\ pc[p] \in Reporting \cup {"done"}
Progress(p) ==
    runDir[p] # None =>
        /\ \A k \in 1 .. item[p] - 1 : Has(Path(runDir[p], Item(Cfg(p), k), None), p)
        /\ pc[p] \in {"mkstemp", "write", "replace"} \/ item[p] > 1 => Has(ConfigPath(runDir[p]), p)
        /\ pc[p] \in Reporting => HasManifest(runDir[p])
        /\ HasManifest(runDir[p]) => Ended(p) /\ Has(ConfigPath(runDir[p]), p)
        /\ \A f \in DOMAIN files : Published(f) /\ f.dir = runDir[p] =>
              \E k \in 1 .. item[p] :
                  f = Path(runDir[p], Item(Cfg(p), k), None) /\ (k = item[p] => Ended(p))

(* The plots come last.                                                    *)
Plotted(p) == {f \in DOMAIN files : f.dir = runDir[p] /\ IsPlot(f)}
Plots(p) ==
    /\ runDir[p] # None /\ pc[p] # "done" => Plotted(p) = {}
    /\ exit[p] = 0 => runDir[p] # None /\ HasManifest(runDir[p])
    /\ exit[p] = 0 /\ Plotted(p) # {} =>
          \A it \in Range(PlotItems(Cfg(p))) : Complete(runDir[p], it, p)
    /\ exit[p] = 3 /\ runDir[p] # None => ~HasManifest(runDir[p])

ProcessInv(p) == Place(p) /\ Temporaries(p) /\ Progress(p) /\ Plots(p)

PersistenceInv ==
    /\ Types
    /\ FilesOwned /\ DirsOwned /\ PublishedComplete
    /\ \A p \in Procs : ProcessInv(p)

-----------------------------------------------------------------------------
(* Configurations and items.                                               *)

LEMMA LoadedRegimes ==
    ASSUME Types, NEW p \in Procs, Loaded(p)
    PROVE  /\ NRegimes(Cfg(p)) \in Nat /\ LastItem(Cfg(p)) \in Nat \ {0}
           /\ DOMAIN Cfg(p).regimes = 1 .. NRegimes(Cfg(p))
           /\ ShaPrefix[Dump(Cfg(p))] \in Range(ShaPrefix)
<1>1. PICK doc \in ConfigFiles : config[p] = LoadConfig(doc)
  BY DEF Types, Loads
<1>2. Cfg(p) = Configuration(doc)
  BY <1>1, LoadedIs DEF Loaded, Cfg
<1> DEFINE n == Length(doc, <<"mid_price", "regimes">>)
<1>3. Cfg(p).regimes = [k \in 1 .. n |-> Regime(doc, k)] /\ n \in Nat
  BY <1>2, LengthIsNat DEF Configuration
<1> HIDE DEF n
<1>4. Len(Cfg(p).regimes) = n /\ DOMAIN Cfg(p).regimes = 1 .. n
  <2> DEFINE V == {Regime(doc, k) : k \in 1 .. n}
  <2>1. Cfg(p).regimes \in [1 .. n -> V]
    BY <1>3
  <2>2. Cfg(p).regimes \in Seq(V)
    BY <1>3, <2>1, SeqDef
  <2> QED BY <1>3, <2>2, LenProperties
<1>5. Len(Strategies) = 3
  BY DEF Strategies
<1>6. Dump(Cfg(p)) \in DOMAIN ShaPrefix
  BY <1>1, PersistenceAssumption DEF Loaded, Cfg
<1>7. ShaPrefix[Dump(Cfg(p))] \in Range(ShaPrefix)
  BY <1>6 DEF Range
<1>8. LastItem(Cfg(p)) \in Nat \ {0}
  BY <1>3, <1>4, <1>5 DEF LastItem, NRegimes
<1> QED BY <1>3, <1>4, <1>7, <1>8 DEF NRegimes

LEMMA ItemKinds ==
    ASSUME NEW cfg, NEW k
    PROVE  /\ Item(cfg, k).kind \in {"paths", "fills", "manifest"} /\ ~IsPlot(Item(cfg, k))
           /\ k = LastItem(cfg) => Item(cfg, k) = Manifest
           /\ k # LastItem(cfg) => Item(cfg, k).kind \in {"paths", "fills"} /\ Item(cfg, k) = DataItem(cfg, k)
  BY DEF Item, DataItem, Manifest, IsPlot

LEMMA PathIs ==
    ASSUME NEW dir, NEW it, NEW tmp
    PROVE  /\ Path(dir, it, tmp).dir = dir /\ Path(dir, it, tmp).tmp = tmp
           /\ Path(dir, it, tmp).kind = it.kind /\ Path(dir, it, tmp).cell = it.cell
  BY DEF Path

(* What a write leaves.                                                    *)
LEMMA PutIs ==
    ASSUME NEW path, NEW full, NEW p, files' = Put(path, full, p)
    PROVE  /\ DOMAIN files' = DOMAIN files \cup {path}
           /\ files'[path].full = full /\ files'[path].by = p
           /\ \A f \in DOMAIN files : f # path => files'[f] = files[f]
  BY DEF Put

LEMMA WithoutIs ==
    ASSUME NEW path, files' = Without(path)
    PROVE  /\ DOMAIN files' = DOMAIN files \ {path}
           /\ \A f \in DOMAIN files : f # path => files'[f] = files[f]
  BY DEF Without, Restrict

-----------------------------------------------------------------------------
(* One step of a process.                                                  *)

Step(p) == Process(p) \/ Killed(p)

LEMMA GotoIs ==
    ASSUME Types, NEW p \in Procs, NEW from, NEW to \in Places, Goto(p, from, to)
    PROVE  /\ pc[p] = from /\ pc' = [pc EXCEPT ![p] = to]
           /\ pc' \in [Procs -> Places] /\ pc'[p] = to
           /\ \A q \in Procs : q # p => pc'[q] = pc[q]
  BY DEF Types, Goto

LEMMA ExitIs ==
    ASSUME Types, NEW p \in Procs, NEW from, NEW code \in {0, 1, 3, 4}, Exit(p, from, code)
    PROVE  /\ pc[p] = from /\ pc' \in [Procs -> Places] /\ pc'[p] = "done"
           /\ exit' \in [Procs -> {0, 1, 3, 4, None}] /\ exit'[p] = code
           /\ \A q \in Procs : q # p => pc'[q] = pc[q] /\ exit'[q] = exit[q]
<1>1. "done" \in Places
  BY DEF Places
<1>2. pc[p] = from /\ pc' \in [Procs -> Places] /\ pc'[p] = "done"
      /\ \A q \in Procs : q # p => pc'[q] = pc[q]
  BY <1>1, GotoIs DEF Exit
<1> QED BY <1>2 DEF Exit, Types

LEMMA FailsIs ==
    ASSUME Types, NEW p \in Procs, NEW from, NEW code \in {3, 4}, FailsInPersist(p, from, code)
    PROVE  /\ pc[p] = from /\ pc' \in [Procs -> Places] /\ pc'[p] = "done"
           /\ exit' \in [Procs -> {0, 1, 3, 4, None}] /\ exit'[p] = code
           /\ \A q \in Procs : q # p => pc'[q] = pc[q] /\ exit'[q] = exit[q]
           /\ failed' \in [Procs -> BOOLEAN] /\ faults' \in 0 .. MaxFaults
           /\ UNCHANGED <<second, config, stamp, runDir, item, dirs>>
<1>1. faults' \in 0 .. MaxFaults
  BY PersistenceAssumption DEF FailsInPersist, Fault, Types
<1>2. failed' \in [Procs -> BOOLEAN] /\ UNCHANGED <<second, config, stamp, runDir, item, dirs>>
  BY DEF FailsInPersist, Types, localVars
<1> QED BY <1>1, <1>2, ExitIs DEF FailsInPersist

LEMMA CleanupTypes ==
    ASSUME Types, NEW p \in Procs, NEW path, Cleanup(p, path)
    PROVE  keptTmp' \in [Procs -> BOOLEAN]
  BY DEF Types, Cleanup

LEMMA FailureTypes ==
    ASSUME Types, NEW p \in Procs, NEW from, NEW code \in {3, 4}, FailsInPersist(p, from, code),
           UNCHANGED keptTmp \/ \E path : Cleanup(p, path)
    PROVE  Types'
<1>1. keptTmp' \in [Procs -> BOOLEAN]
  BY CleanupTypes DEF Types
<1> QED BY <1>1, FailsIs DEF Types, Loads, RunDirs

LEMMA NoFailureTypes ==
    ASSUME Types, NEW p \in Procs, NEW from, NEW to \in Places, Goto(p, from, to), NoFailure,
           UNCHANGED <<second, config>>, dirs' \subseteq RunDirs,
           stamp' \in [Procs -> 0 .. MaxSecond], runDir' \in [Procs -> RunDirs \cup {None}],
           item' \in [Procs -> Nat]
    PROVE  Types'
  BY GotoIs DEF Types, NoFailure, historyVars, Loads, RunDirs

LEMMA NewDirIsRunDir ==
    ASSUME PersistenceInv, NEW p \in Procs, pc[p] \in {"mkdir", "mkdirPid"},
           NEW pid \in Procs \cup {None}
    PROVE  RunDirName(p, pid) \in RunDirs /\ RunDirName(p, pid) # None
<1>1. Loaded(p) /\ Types
  BY DEF PersistenceInv, ProcessInv, Place
<1>2. stamp[p] \in 0 .. MaxSecond
  BY <1>1 DEF Types
<1>3. RunDirName(p, pid) \in RunDirs
  BY <1>1, <1>2, LoadedRegimes DEF RunDirName, RunDirs
<1>4. RunDirName(p, pid) \in [stamp : Nat, sha : Range(ShaPrefix), pid : Procs \cup {None}]
  <2>1. stamp[p] \in Nat
    BY <1>2, PersistenceAssumption
  <2> QED BY <1>1, <2>1, LoadedRegimes DEF RunDirName
<1> QED BY <1>3, <1>4, PersistenceAssumption

(* What a step may do to the files: nothing, or write what is the          *)
(* process's own, or remove a temporary file of its own.                   *)
Own(p, f) ==
    IF f.tmp = None THEN f.dir = runDir[p] /\ runDir[p] \in dirs ELSE f.tmp = p /\ ~IsPlot(f)
Untouched(f) == f \in DOMAIN files /\ f \in DOMAIN files' /\ files'[f] = files[f]
Wrote(p, f) ==
    /\ f \in DOMAIN files' /\ Own(p, f)
    /\ files'[f].by = p /\ files'[f].full \in BOOLEAN /\ (Published(f) => files'[f].full)
FileStep(p) ==
    \A f \in DOMAIN files \cup DOMAIN files' :
        Untouched(f) \/ Wrote(p, f) \/ (f \notin DOMAIN files' /\ f.tmp = p)

(* It keeps its directory, or makes a new one.                             *)
DirStep(p) ==
    \/ dirs' = dirs /\ runDir' = runDir
    \/ \E dir \in RunDirs \ dirs :
          /\ pc[p] \in {"mkdir", "mkdirPid"} /\ pc'[p] = "openConfig" /\ dir # None
          /\ dirs' = dirs \cup {dir} /\ runDir' = [runDir EXCEPT ![p] = dir]
          /\ files' = files /\ UNCHANGED <<item, exit>>

OthersStep(p) ==
    \A q \in Procs : q # p =>
        /\ pc'[q] = pc[q] /\ item'[q] = item[q] /\ exit'[q] = exit[q]
        /\ keptTmp'[q] = keptTmp[q]

Shape(p) == Types' /\ config' = config /\ FileStep(p) /\ DirStep(p) /\ OthersStep(p)

LEMMA SameFiles ==
    ASSUME NEW p, files' = files
    PROVE  FileStep(p)
  BY DEF FileStep, Untouched

LEMMA PutFile ==
    ASSUME NEW p, NEW path, NEW full \in BOOLEAN, files' = Put(path, full, p),
           Own(p, path), Published(path) => full
    PROVE  FileStep(p)
<1>1. /\ DOMAIN files' = DOMAIN files \cup {path}
      /\ files'[path].full = full /\ files'[path].by = p
      /\ \A f \in DOMAIN files : f # path => files'[f] = files[f]
  BY PutIs
<1>2. ASSUME NEW f \in DOMAIN files \cup DOMAIN files' PROVE Untouched(f) \/ Wrote(p, f)
  <2>1. CASE f = path
    BY <1>1, <2>1 DEF Wrote
  <2>2. CASE f # path
    BY <1>1, <2>2 DEF Untouched
  <2> QED BY <2>1, <2>2
<1> QED BY <1>2 DEF FileStep

LEMMA RemoveFile ==
    ASSUME NEW p, NEW path, files' = Without(path), path.tmp = p
    PROVE  FileStep(p)
<1>1. /\ DOMAIN files' = DOMAIN files \ {path}
      /\ \A f \in DOMAIN files : f # path => files'[f] = files[f]
  BY WithoutIs
<1> QED BY <1>1 DEF FileStep, Untouched

LEMMA CleanupFile ==
    ASSUME NEW p, NEW path, Cleanup(p, path), path.tmp = p
    PROVE  FileStep(p)
  BY SameFiles, RemoveFile DEF Cleanup

(* What such a step leaves of the invariant.                               *)
LEMMA SharedKept ==
    ASSUME PersistenceInv, NEW p \in Procs, Shape(p)
    PROVE  (FilesOwned /\ DirsOwned /\ PublishedComplete)'
<1>0. p # None /\ Types /\ FilesOwned /\ DirsOwned /\ PublishedComplete
  BY PersistenceAssumption DEF PersistenceInv
<1>1. \A q \in Procs : runDir'[q] = runDir[q] \/ (q = p /\ runDir[q] = None /\ runDir'[q] \notin dirs)
  <2>1. CASE dirs' = dirs /\ runDir' = runDir
    BY <2>1
  <2>2. ASSUME NEW dir \in RunDirs \ dirs, pc[p] \in {"mkdir", "mkdirPid"},
               runDir' = [runDir EXCEPT ![p] = dir]
        PROVE  \A q \in Procs : runDir'[q] = runDir[q] \/ (q = p /\ runDir[q] = None /\ runDir'[q] \notin dirs)
    <3>1. runDir[p] = None
      BY <2>2 DEF PersistenceInv, ProcessInv, Place, BeforeDir
    <3> QED BY <1>0, <2>2, <3>1 DEF Types
  <2> QED BY <2>1, <2>2 DEF Shape, DirStep
<1>2. dirs \subseteq dirs' /\ None \notin dirs
  <2>1. None \notin dirs
    <3>1. RunDirs \subseteq [stamp : Nat, sha : Range(ShaPrefix), pid : Procs \cup {None}]
      BY PersistenceAssumption DEF RunDirs
    <3> QED BY <1>0, <3>1, PersistenceAssumption DEF Types
  <2> QED BY <2>1 DEF Shape, DirStep
<1>3. FilesOwned'
  <2>1. ASSUME NEW f \in DOMAIN files'
        PROVE  /\ files'[f].by \in Procs /\ files'[f].full \in BOOLEAN
               /\ IF f.tmp = None THEN f.dir \in dirs' /\ runDir'[files'[f].by] = f.dir
                  ELSE f.tmp = files'[f].by /\ ~IsPlot(f)
    <3>1. Untouched(f) \/ Wrote(p, f)
      BY <2>1 DEF Shape, FileStep
    <3>2. CASE Untouched(f)
      <4>1. /\ files[f].by \in Procs /\ files[f].full \in BOOLEAN
            /\ IF f.tmp = None THEN f.dir \in dirs /\ runDir[files[f].by] = f.dir
               ELSE f.tmp = files[f].by /\ ~IsPlot(f)
        BY <1>0, <3>2 DEF FilesOwned, Untouched
      <4>2. f.tmp = None => runDir'[files[f].by] = f.dir
        BY <1>1, <1>2, <4>1
      <4> QED BY <1>2, <3>2, <4>1, <4>2 DEF Untouched
    <3>3. CASE Wrote(p, f)
      <4>1. f.tmp = None => runDir'[p] = f.dir /\ f.dir \in dirs
        BY <1>1, <1>2, <3>3 DEF Wrote, Own
      <4> QED BY <1>2, <3>3, <4>1 DEF Wrote, Own
    <3> QED BY <3>1, <3>2, <3>3
  <2> QED BY <2>1 DEF FilesOwned, IsPlot
<1>4. DirsOwned'
  <2>1. ASSUME NEW q \in Procs, NEW r \in Procs, q # r, runDir'[q] = runDir'[r]
        PROVE  runDir'[q] = None
    <3>1. (runDir[q] # None => runDir[q] \in dirs) /\ (runDir[r] # None => runDir[r] \in dirs)
      BY DEF PersistenceInv, ProcessInv, Place
    <3>2. runDir[q] = runDir[r] => runDir[q] = None
      BY <1>0, <2>1 DEF DirsOwned
    <3>3. CASE runDir'[q] = runDir[q] /\ runDir'[r] = runDir[r]
      BY <2>1, <3>2, <3>3
    <3>4. CASE q = p /\ runDir'[q] \notin dirs /\ runDir'[r] = runDir[r] /\ runDir'[q] # None
      BY <2>1, <3>1, <3>4
    <3>5. CASE r = p /\ runDir'[r] \notin dirs /\ runDir'[q] = runDir[q] /\ runDir'[r] # None
      BY <2>1, <3>1, <3>5
    <3> QED BY <1>1, <2>1, <3>3, <3>4, <3>5
  <2> QED BY <2>1 DEF DirsOwned
<1>5. PublishedComplete'
  <2>1. ASSUME NEW f \in DOMAIN files', Published(f) PROVE files'[f].full
    BY <1>0, <2>1 DEF Shape, FileStep, Untouched, Wrote, PublishedComplete
  <2> QED BY <2>1 DEF PublishedComplete, Published
<1> QED BY <1>3, <1>4, <1>5

-----------------------------------------------------------------------------
(* A process keeps its part of the invariant while its files stay.         *)

Still(f) ==
    (f \in DOMAIN files' <=> f \in DOMAIN files) /\ (f \in DOMAIN files => files'[f] = files[f])
InDir(p, f) == f.tmp = None /\ f.dir = runDir[p]
Stays(p) == config' = config /\ runDir'[p] = runDir[p] /\ item'[p] = item[p]

LEMMA HasKept ==
    ASSUME NEW path, NEW p, Has(path, p), Still(path)
    PROVE  Has(path, p)'
  BY DEF Has, Still

LEMMA StaysIs ==
    ASSUME NEW p, Stays(p)
    PROVE  /\ Cfg(p)' = Cfg(p) /\ (Loaded(p)' <=> Loaded(p))
           /\ ConfigTmp(p)' = ConfigTmp(p) /\ TmpPath(p)' = TmpPath(p)
           /\ ConfigPath(runDir[p])' = ConfigPath(runDir[p])
  BY DEF Stays, Cfg, Loaded, ConfigTmp, TmpPath, CurrentItem, ConfigPath

LEMMA ProgressKept ==
    ASSUME NEW p, Progress(p), Stays(p),
           runDir[p] # None => \A f : InDir(p, f) /\ ~IsPlot(f) => Still(f),
           pc'[p] \in {"mkstemp", "write", "replace"} => pc[p] \in {"mkstemp", "write", "replace"},
           pc'[p] \in Reporting => pc[p] \in Reporting,
           pc[p] \in Reporting \cup {"done"} => pc'[p] \in Reporting \cup {"done"}
    PROVE  Progress(p)'
<1> SUFFICES ASSUME runDir'[p] # None PROVE Progress(p)'
  BY DEF Progress
<1>1. /\ runDir[p] # None /\ runDir'[p] = runDir[p] /\ item'[p] = item[p] /\ Cfg(p)' = Cfg(p)
      /\ ConfigPath(runDir[p])' = ConfigPath(runDir[p])
  BY StaysIs DEF Stays
<1>2. \A k : Still(Path(runDir[p], Item(Cfg(p), k), None))
  BY <1>1, ItemKinds, PathIs DEF InDir, IsPlot
<1>3. Still(Path(runDir[p], Manifest, None)) /\ Still(ConfigPath(runDir[p]))
  BY <1>1, PathIs DEF InDir, IsPlot, Manifest, ConfigItem, ConfigPath
<1>4. Ended(p) => Ended(p)'
  BY <1>1 DEF Ended
<1>5. HasManifest(runDir[p])' <=> HasManifest(runDir[p])
  BY <1>1, <1>3 DEF HasManifest, Still
<1>6. Has(ConfigPath(runDir[p]), p) => Has(ConfigPath(runDir[p]), p)'
  BY <1>1, <1>3, HasKept, StaysIs DEF Has, Still
<1>7. ASSUME NEW k \in 1 .. item[p] - 1
      PROVE  Has(Path(runDir[p], Item(Cfg(p), k), None), p)'
  <2>1. Has(Path(runDir[p], Item(Cfg(p), k), None), p)
    BY <1>1, <1>7 DEF Progress
  <2>2. Path(runDir[p], Item(Cfg(p), k), None)' = Path(runDir[p], Item(Cfg(p), k), None)
    BY <1>1
  <2> QED BY <1>2, <2>1, <2>2 DEF Has, Still
<1>8. ASSUME NEW f \in DOMAIN files', Published(f), f.dir = runDir[p]
      PROVE  \E k \in 1 .. item[p] :
                f = Path(runDir[p], Item(Cfg(p), k), None) /\ (k = item[p] => Ended(p)')
  <2>1. f \in DOMAIN files
    BY <1>1, <1>8 DEF Published, InDir, IsPlot, Still
  <2>2. \E k \in 1 .. item[p] :
            f = Path(runDir[p], Item(Cfg(p), k), None) /\ (k = item[p] => Ended(p))
    BY <1>1, <1>8, <2>1 DEF Progress
  <2> QED BY <1>4, <2>2
<1>9. (\A k \in 1 .. item[p] - 1 : Has(Path(runDir[p], Item(Cfg(p), k), None), p))'
  BY <1>1, <1>7
<1>10. (\A f \in DOMAIN files : Published(f) /\ f.dir = runDir[p] =>
          \E k \in 1 .. item[p] :
              f = Path(runDir[p], Item(Cfg(p), k), None) /\ (k = item[p] => Ended(p)))'
  BY <1>1, <1>8 DEF Published
<1>11. (pc[p] \in {"mkstemp", "write", "replace"} \/ item[p] > 1 => Has(ConfigPath(runDir[p]), p))'
  BY <1>1, <1>6 DEF Progress
<1>12. (pc[p] \in Reporting => HasManifest(runDir[p]))'
  BY <1>1, <1>5 DEF Progress, Reporting
<1>13. (HasManifest(runDir[p]) => Ended(p) /\ Has(ConfigPath(runDir[p]), p))'
  BY <1>1, <1>4, <1>5, <1>6 DEF Progress
<1> QED BY <1>1, <1>9, <1>10, <1>11, <1>12, <1>13 DEF Progress

LEMMA PlotsKept ==
    ASSUME NEW p, Plots(p), Progress(p), FilesOwned, FilesOwned', Stays(p),
           runDir[p] # None => \A f : InDir(p, f) => Still(f),
           pc'[p] # "done" => pc[p] # "done",
           \/ exit'[p] = exit[p]
           \/ exit'[p] \in {1, 4}
           \/ exit'[p] = 3 /\ pc[p] \notin Reporting \cup {"done"}
    PROVE  Plots(p)'
<1>1. /\ runDir'[p] = runDir[p] /\ item'[p] = item[p] /\ Cfg(p)' = Cfg(p)
  BY StaysIs DEF Stays
<1>2. ASSUME runDir[p] # None
      PROVE  HasManifest(runDir[p])' <=> HasManifest(runDir[p])
  BY <1>1, <1>2, PathIs DEF HasManifest, Still, InDir
<1>3. ASSUME runDir[p] # None
      PROVE  Plotted(p)' = Plotted(p)
  <2>1. \A f \in DOMAIN files \cup DOMAIN files' : IsPlot(f) => f.tmp = None
    BY DEF FilesOwned, IsPlot
  <2>2. \A f : IsPlot(f) /\ f.dir = runDir[p] => (f \in DOMAIN files' <=> f \in DOMAIN files)
    BY <1>3, <2>1 DEF InDir, Still
  <2> QED BY <1>1, <2>2 DEF Plotted, IsPlot
<1>4. ASSUME runDir[p] # None, NEW it
      PROVE  Complete(runDir[p], it, p) => Complete(runDir[p], it, p)'
  BY <1>1, <1>4, PathIs DEF Complete, Still, InDir
<1>5. HasManifest(runDir[p]) /\ runDir[p] # None => pc[p] \in Reporting \cup {"done"}
  BY DEF Progress, Ended
<1>6. (runDir[p] # None /\ pc[p] # "done" => Plotted(p) = {})'
  BY <1>1, <1>3 DEF Plots
<1>7. (exit[p] = 0 => runDir[p] # None /\ HasManifest(runDir[p]))'
  BY <1>1, <1>2 DEF Plots
<1>8. (exit[p] = 3 /\ runDir[p] # None => ~HasManifest(runDir[p]))'
  BY <1>1, <1>2, <1>5 DEF Plots
<1>9. (exit[p] = 0 /\ Plotted(p) # {} =>
          \A it \in Range(PlotItems(Cfg(p))) : Complete(runDir[p], it, p))'
  <2>1. SUFFICES ASSUME exit'[p] = 0, Plotted(p)' # {}
                 PROVE  \A it \in Range(PlotItems(Cfg(p))) : Complete(runDir[p], it, p)'
    BY <1>1
  <2>2. exit[p] = 0 /\ runDir[p] # None /\ Plotted(p) # {}
    BY <1>3, <2>1 DEF Plots
  <2> QED BY <1>4, <2>2 DEF Plots
<1> QED BY <1>6, <1>7, <1>8, <1>9 DEF Plots

(* A step of q leaves every other process where it is.                     *)
LEMMA OthersKept ==
    ASSUME PersistenceInv, NEW q \in Procs, Shape(q), FilesOwned', NEW p \in Procs, p # q
    PROVE  ProcessInv(p)'
<1>1. /\ Place(p) /\ Temporaries(p) /\ Progress(p) /\ Plots(p)
      /\ Types /\ FilesOwned /\ DirsOwned /\ p # None /\ q # None
  BY PersistenceAssumption DEF PersistenceInv, ProcessInv
<1>2. Stays(p) /\ dirs \subseteq dirs'
  <2>1. runDir'[p] = runDir[p] /\ dirs \subseteq dirs'
    BY <1>1 DEF Shape, DirStep, Types
  <2> QED BY <2>1 DEF Shape, OthersStep, Stays
<1>3. pc'[p] = pc[p] /\ exit'[p] = exit[p] /\ keptTmp'[p] = keptTmp[p]
  BY DEF Shape, OthersStep
<1>4. ASSUME NEW f, f.tmp = p PROVE Still(f)
  <2>1. f \in DOMAIN files \cup DOMAIN files' => Untouched(f)
    BY <1>1, <1>4 DEF Shape, FileStep, Wrote, Own
  <2> QED BY <2>1 DEF Still, Untouched
<1>5. ASSUME runDir[p] # None, NEW f, InDir(p, f) PROVE Still(f)
  <2>1. runDir[p] # runDir[q]
    BY <1>1, <1>5 DEF DirsOwned
  <2>2. f \in DOMAIN files \cup DOMAIN files' => Untouched(f)
    BY <1>1, <1>5, <2>1 DEF Shape, FileStep, Wrote, Own, InDir
  <2> QED BY <2>2 DEF Still, Untouched
<1>6. Place(p)'
  <2>1. /\ Cfg(p)' = Cfg(p) /\ (Loaded(p)' <=> Loaded(p)) /\ runDir'[p] = runDir[p]
        /\ item'[p] = item[p]
    BY <1>2, StaysIs DEF Stays
  <2>2. LastItem(Cfg(p))' = LastItem(Cfg(p))
    BY <2>1
  <2> QED BY <1>1, <1>2, <1>3, <2>1, <2>2 DEF Place
<1>7. Temporaries(p)'
  <2>1. Tmp(p)' = Tmp(p) /\ TmpPath(p)' = TmpPath(p)
    BY <1>2, <1>3, StaysIs DEF Tmp
  <2>2. TmpPath(p).tmp = p
    BY DEF TmpPath, Path
  <2>3. Has(TmpPath(p), p) => Has(TmpPath(p), p)'
    BY <1>4, <2>1, <2>2 DEF Has, Still
  <2>4. \A f : f.tmp = p => (f \in DOMAIN files' <=> f \in DOMAIN files)
    BY <1>4 DEF Still
  <2> QED BY <1>1, <1>3, <2>1, <2>3, <2>4 DEF Temporaries
<1>8. Progress(p)'
  BY <1>1, <1>2, <1>3, <1>5, ProgressKept
<1>9. Plots(p)'
  BY <1>1, <1>2, <1>3, <1>5, PlotsKept
<1> QED BY <1>6, <1>7, <1>8, <1>9 DEF ProcessInv

(* A step that touches no file of a directory, and keeps the process in    *)
(* its stretch of the program or ends it.                                  *)
Advance(p) ==
    \/ pc'[p] = "done"
    \/ pc'[p] \in BeforeDir /\ pc[p] \in BeforeDir /\ Loaded(p)
    \/ pc'[p] \in {"mkstemp", "write", "replace"} /\ pc[p] \in {"mkstemp", "write", "replace"}
    \/ pc'[p] \in Reporting /\ pc[p] \in Reporting

LEMMA Quiet ==
    ASSUME PersistenceInv, NEW p \in Procs, Types', UNCHANGED <<config, runDir, item, dirs>>,
           OthersStep(p), FileStep(p), \A f : f.tmp = None => Still(f),
           pc[p] # "done", Advance(p), Temporaries(p)',
           \/ exit'[p] = exit[p]
           \/ exit'[p] \in {1, 4}
           \/ exit'[p] = 3 /\ pc[p] \notin Reporting
    PROVE  Shape(p) /\ ProcessInv(p)'
<1>1. Place(p) /\ Progress(p) /\ Plots(p) /\ FilesOwned
  BY DEF PersistenceInv, ProcessInv
<1>2. Shape(p)
  BY DEF Shape, DirStep
<1>3. FilesOwned'
  BY <1>2, SharedKept
<1>4. Stays(p) /\ \A f : InDir(p, f) => Still(f)
  BY DEF Stays, InDir
<1>5. Place(p)'
  <2>1. /\ Cfg(p)' = Cfg(p) /\ (Loaded(p)' <=> Loaded(p)) /\ runDir'[p] = runDir[p]
        /\ item'[p] = item[p] /\ dirs' = dirs
    BY <1>4, StaysIs DEF Stays
  <2>2. LastItem(Cfg(p))' = LastItem(Cfg(p))
    BY <2>1
  <2> QED BY <1>1, <2>1, <2>2 DEF Place, Advance, BeforeDir, Writing, Reporting
<1>6. /\ pc'[p] \in {"mkstemp", "write", "replace"} => pc[p] \in {"mkstemp", "write", "replace"}
      /\ pc'[p] \in Reporting => pc[p] \in Reporting
      /\ pc[p] \in Reporting \cup {"done"} => pc'[p] \in Reporting \cup {"done"}
  BY DEF Advance, BeforeDir, Reporting
<1>7. Progress(p)'
  BY <1>1, <1>4, <1>6, ProgressKept
<1>8. Plots(p)'
  BY <1>1, <1>3, <1>4, PlotsKept
<1> QED BY <1>2, <1>5, <1>7, <1>8 DEF ProcessInv

(* A process without a temporary file, that makes none.                    *)
LEMMA NoTemporaries ==
    ASSUME NEW p, Temporaries(p), pc[p] \notin {"dumped", "write", "replace", "done"},
           \A f : f.tmp = p => (f \in DOMAIN files' => f \in DOMAIN files),
           pc'[p] # "replace", exit'[p] = exit[p] \/ pc'[p] = "done", keptTmp'[p] = keptTmp[p]
    PROVE  Temporaries(p)'
<1>1. ~keptTmp[p] => \A f \in DOMAIN files : f.tmp # p
  BY DEF Temporaries, Tmp
<1>2. ~keptTmp'[p] => \A f \in DOMAIN files' : f.tmp # p
  BY <1>1
<1>3. exit'[p] # None => pc'[p] = "done"
  BY DEF Temporaries
<1> QED BY <1>2, <1>3 DEF Temporaries

(* A call of persist that fails.                                           *)
LEMMA FailingKept ==
    ASSUME PersistenceInv, NEW p \in Procs, NEW code \in {3, 4},
           NEW from \in {"base", "dump", "mkdir", "mkdirPid", "openConfig", "fillConfig", "mkstemp"},
           FailsInPersist(p, from, code), UNCHANGED <<files, keptTmp>>
    PROVE  Shape(p) /\ ProcessInv(p)'
<1>1. Types /\ Temporaries(p)
  BY DEF PersistenceInv, ProcessInv
<1>2. Types'
  BY <1>1, FailureTypes
<1>3. /\ pc[p] = from /\ pc'[p] = "done" /\ exit'[p] = code
      /\ \A q \in Procs : q # p => pc'[q] = pc[q] /\ exit'[q] = exit[q]
      /\ UNCHANGED <<config, runDir, item, dirs>>
  BY <1>1, FailsIs
<1>4. OthersStep(p) /\ FileStep(p) /\ Advance(p)
  BY <1>3, SameFiles DEF OthersStep, Advance
<1>5. Temporaries(p)'
  BY <1>1, <1>3, NoTemporaries
<1> QED BY <1>2, <1>3, <1>4, <1>5, Quiet DEF Still, Reporting

LEMMA CleaningKept ==
    ASSUME PersistenceInv, NEW p \in Procs, NEW from \in {"dumped", "write", "replace"},
           NEW path, path.tmp = p, pc[p] = from => Tmp(p) = {path},
           FailsInPersist(p, from, 3), Cleanup(p, path)
    PROVE  Shape(p) /\ ProcessInv(p)'
<1>1. Types /\ Temporaries(p) /\ p # None
  BY PersistenceAssumption DEF PersistenceInv, ProcessInv
<1>2. Types'
  BY <1>1, FailureTypes
<1>3. /\ pc[p] = from /\ pc'[p] = "done" /\ exit'[p] = 3
      /\ \A q \in Procs : q # p => pc'[q] = pc[q] /\ exit'[q] = exit[q]
      /\ UNCHANGED <<config, runDir, item, dirs>>
  BY <1>1, FailsIs
<1>4. \A q \in Procs : q # p => keptTmp'[q] = keptTmp[q]
  BY <1>1 DEF Cleanup, Types
<1>5. OthersStep(p) /\ FileStep(p) /\ Advance(p)
  BY <1>3, <1>4, CleanupFile DEF OthersStep, Advance
<1>6. \A f : f.tmp = None => Still(f)
  BY <1>1, WithoutIs DEF Cleanup, Still
<1>7. Temporaries(p)'
  <2>1. ~keptTmp[p] => \A f \in DOMAIN files : f.tmp = p => f = path
    BY <1>1, <1>3 DEF Temporaries
  <2>2. keptTmp'[p] \/ (~keptTmp[p] /\ DOMAIN files' = DOMAIN files \ {path})
    BY <1>1, WithoutIs DEF Cleanup, Types
  <2>3. keptTmp'[p] \/ \A f \in DOMAIN files' : f.tmp # p
    BY <2>1, <2>2
  <2> QED BY <1>3, <2>3 DEF Temporaries
<1> QED BY <1>2, <1>3, <1>5, <1>6, <1>7, Quiet DEF Reporting

-----------------------------------------------------------------------------
(* The actions.                                                            *)

(* A step that moves pc and ends nothing.                                  *)
LEMMA Moves ==
    ASSUME PersistenceInv, NEW p \in Procs, NEW from \in Places \ {"done"}, NEW to \in Places,
           Goto(p, from, to), NoFailure, UNCHANGED <<second, config, runDir, item, dirs>>,
           stamp' \in [Procs -> 0 .. MaxSecond]
    PROVE  /\ Types' /\ OthersStep(p)
           /\ pc[p] = from /\ pc'[p] = to /\ exit'[p] = None /\ exit' = exit /\ keptTmp' = keptTmp
<1>1. Types /\ Temporaries(p)
  BY DEF PersistenceInv, ProcessInv
<1>2. /\ pc[p] = from /\ pc'[p] = to /\ \A q \in Procs : q # p => pc'[q] = pc[q]
      /\ exit' = exit /\ keptTmp' = keptTmp
  BY <1>1, GotoIs DEF NoFailure, historyVars
<1>3. exit[p] = None
  BY <1>1, <1>2 DEF Temporaries
<1>4. Types'
  BY <1>1, NoFailureTypes DEF Types
<1> QED BY <1>2, <1>3, <1>4 DEF OthersStep

LEMMA LoadAndRunKept ==
    ASSUME PersistenceInv, NEW p \in Procs, LoadAndRun(p)
    PROVE  Shape(p) /\ ProcessInv(p)'
<1>1. Types /\ Temporaries(p)
  BY DEF PersistenceInv, ProcessInv
<1>2. UNCHANGED <<files, second, config, runDir, item, dirs, stamp>>
  BY DEF LoadAndRun, fsVars, localVars
<1>3. FileStep(p) /\ \A f : f.tmp = None => Still(f)
  BY <1>2, SameFiles DEF Still
<1>4. CASE Goto(p, "load", "base") /\ Loaded(p) /\ NoFailure
  <2>1. "load" \in Places \ {"done"} /\ "base" \in Places /\ stamp' \in [Procs -> 0 .. MaxSecond]
    BY <1>1, <1>2 DEF Places, Types
  <2>2. /\ Types' /\ OthersStep(p)
        /\ pc[p] = "load" /\ pc'[p] = "base" /\ exit' = exit /\ keptTmp' = keptTmp
    BY <1>2, <1>4, <2>1, Moves
  <2>3. Temporaries(p)'
    BY <1>1, <1>2, <2>2, NoTemporaries
  <2> QED BY <1>2, <1>3, <1>4, <2>2, <2>3, Quiet DEF Advance, BeforeDir
<1>5. ASSUME NEW code \in {1, 4}, Exit(p, "load", code), UNCHANGED <<faults, historyVars>>
      PROVE  Shape(p) /\ ProcessInv(p)'
  <2>1. /\ pc[p] = "load" /\ pc' \in [Procs -> Places] /\ pc'[p] = "done"
        /\ exit' \in [Procs -> {0, 1, 3, 4, None}] /\ exit'[p] = code
        /\ \A q \in Procs : q # p => pc'[q] = pc[q] /\ exit'[q] = exit[q]
    BY <1>1, <1>5, ExitIs
  <2>2. Types' /\ OthersStep(p)
    BY <1>1, <1>2, <1>5, <2>1 DEF Types, OthersStep, historyVars
  <2>3. Temporaries(p)'
    BY <1>1, <1>2, <1>5, <2>1, NoTemporaries DEF historyVars
  <2> QED BY <1>2, <1>3, <2>1, <2>2, <2>3, Quiet DEF Advance
<1> QED BY <1>4, <1>5 DEF LoadAndRun, Loaded

LEMMA MakeBaseDirKept ==
    ASSUME PersistenceInv, NEW p \in Procs, MakeBaseDir(p)
    PROVE  Shape(p) /\ ProcessInv(p)'
<1>1. CASE Goto(p, "base", "dump") /\ UNCHANGED <<fsVars, second, localVars>> /\ NoFailure
  <2>1. /\ Types /\ Temporaries(p) /\ Place(p)
        /\ UNCHANGED <<files, second, config, runDir, item, dirs, stamp>>
    BY <1>1 DEF PersistenceInv, ProcessInv, fsVars, localVars
  <2>2. "base" \in Places \ {"done"} /\ "dump" \in Places /\ stamp' \in [Procs -> 0 .. MaxSecond]
    BY <2>1 DEF Places, Types
  <2>3. Types' /\ OthersStep(p) /\ pc[p] = "base" /\ pc'[p] = "dump" /\ exit' = exit
        /\ keptTmp' = keptTmp
    BY <1>1, <2>1, <2>2, Moves
  <2>4. Temporaries(p)'
    BY <2>1, <2>3, NoTemporaries
  <2>5. Advance(p)
    BY <2>1, <2>3 DEF Advance, BeforeDir, Place
  <2> QED BY <2>1, <2>3, <2>4, <2>5, SameFiles, Quiet DEF Still
<1>2. CASE FailsInPersist(p, "base", 4) /\ UNCHANGED <<files, keptTmp>>
  BY <1>2, FailingKept
<1> QED BY <1>1, <1>2 DEF MakeBaseDir

LEMMA TmpPut ==
    ASSUME NEW path, NEW full, NEW p, files' = Put(path, full, p), path.tmp # None
    PROVE  /\ DOMAIN files' = DOMAIN files \cup {path}
           /\ files'[path].full = full /\ files'[path].by = p
           /\ \A f : f.tmp = None => Still(f)
  BY PutIs DEF Still

LEMMA CreateConfigTmpKept ==
    ASSUME PersistenceInv, NEW p \in Procs, CreateConfigTmp(p)
    PROVE  Shape(p) /\ ProcessInv(p)'
<1>1. CASE /\ Goto(p, "dump", "dumped") /\ files' = Put(ConfigTmp(p), FALSE, p)
           /\ UNCHANGED <<dirs, second, localVars>> /\ NoFailure
  <2>1. /\ Types /\ Temporaries(p) /\ Place(p) /\ p # None
        /\ UNCHANGED <<second, config, runDir, item, dirs, stamp>>
    BY <1>1, PersistenceAssumption DEF PersistenceInv, ProcessInv, fsVars, localVars
  <2>2. "dump" \in Places \ {"done"} /\ "dumped" \in Places /\ stamp' \in [Procs -> 0 .. MaxSecond]
    BY <2>1 DEF Places, Types
  <2>3. /\ Types' /\ OthersStep(p) /\ pc[p] = "dump" /\ pc'[p] = "dumped"
        /\ exit' = exit /\ exit'[p] = None /\ keptTmp' = keptTmp
    BY <1>1, <2>1, <2>2, Moves
  <2>4. ConfigTmp(p).tmp = p /\ ConfigTmp(p).kind = "config"
    BY DEF ConfigTmp, Path, ConfigItem
  <2>5. FileStep(p)
    BY <1>1, <2>1, <2>4, PutFile DEF Own, Published, IsPlot
  <2>6. /\ DOMAIN files' = DOMAIN files \cup {ConfigTmp(p)}
        /\ files'[ConfigTmp(p)].full = FALSE /\ files'[ConfigTmp(p)].by = p
        /\ \A f : f.tmp = None => Still(f)
    BY <1>1, <2>1, <2>4, TmpPut
  <2>7. Temporaries(p)'
    <3>1. ~keptTmp'[p] => \A f \in DOMAIN files' : f.tmp = p => f = ConfigTmp(p)
      BY <1>1, <2>1, <2>3, <2>6 DEF Temporaries, Tmp
    <3>2. ConfigTmp(p)' = ConfigTmp(p) /\ pc'[p] = "dumped"
      BY <2>3 DEF ConfigTmp
    <3> QED BY <2>3, <3>1, <3>2 DEF Temporaries, Tmp
  <2>8. Advance(p)
    BY <2>1, <2>3 DEF Advance, BeforeDir, Place
  <2> QED BY <2>1, <2>3, <2>5, <2>6, <2>7, <2>8, Quiet
<1>2. CASE FailsInPersist(p, "dump", 3) /\ UNCHANGED <<files, keptTmp>>
  BY <1>2, FailingKept
<1> QED BY <1>1, <1>2 DEF CreateConfigTmp

LEMMA DumpConfigKept ==
    ASSUME PersistenceInv, NEW p \in Procs, DumpConfig(p)
    PROVE  Shape(p) /\ ProcessInv(p)'
<1>1. ConfigTmp(p).tmp = p
  BY DEF ConfigTmp, Path
<1>2. CASE /\ Goto(p, "dumped", "mkdir") /\ Cleanup(p, ConfigTmp(p))
           /\ IF keptTmp' = keptTmp THEN UNCHANGED faults ELSE Fault
           /\ stamp' = [stamp EXCEPT ![p] = second]
           /\ UNCHANGED <<dirs, second, config, runDir, item, exit, failed>>
  <2>1. Types /\ Temporaries(p) /\ Place(p) /\ p # None
    BY PersistenceAssumption DEF PersistenceInv, ProcessInv
  <2>2. "mkdir" \in Places /\ stamp' \in [Procs -> 0 .. MaxSecond]
    BY <1>2, <2>1 DEF Places, Types
  <2>3. /\ pc' \in [Procs -> Places] /\ pc[p] = "dumped" /\ pc'[p] = "mkdir" /\ exit'[p] = None
        /\ \A q \in Procs : q # p => pc'[q] = pc[q] /\ keptTmp'[q] = keptTmp[q]
    <3>1. \A q \in Procs : q # p => keptTmp'[q] = keptTmp[q]
      BY <1>2, <2>1 DEF Cleanup, Types
    <3> QED BY <1>2, <2>1, <2>2, <3>1, GotoIs DEF Temporaries
  <2>4. faults' \in 0 .. MaxFaults
    BY <1>2, <2>1, PersistenceAssumption DEF Fault, Types
  <2>5. keptTmp' \in [Procs -> BOOLEAN]
    BY <1>2, <2>1, CleanupTypes
  <2>6. Types' /\ OthersStep(p)
    BY <1>2, <2>1, <2>2, <2>3, <2>4, <2>5 DEF Types, Loads, RunDirs, OthersStep
  <2>7. FileStep(p)
    BY <1>1, <1>2, CleanupFile
  <2>8. \A f : f.tmp = None => Still(f)
    BY <1>1, <1>2, <2>1, WithoutIs DEF Cleanup, Still
  <2>9. Temporaries(p)'
    <3>1. ~keptTmp[p] => \A f \in DOMAIN files : f.tmp = p => f = ConfigTmp(p)
      BY <2>1, <2>3 DEF Temporaries, Tmp
    <3>2. keptTmp'[p] \/ (~keptTmp[p] /\ DOMAIN files' = DOMAIN files \ {ConfigTmp(p)})
      BY <1>2, <2>1, WithoutIs DEF Cleanup, Types
    <3>3. keptTmp'[p] \/ \A f \in DOMAIN files' : f.tmp # p
      BY <3>1, <3>2
    <3> QED BY <2>3, <3>3 DEF Temporaries
  <2>10. Advance(p)
    BY <2>1, <2>3 DEF Advance, BeforeDir, Place
  <2> QED BY <1>2, <2>3, <2>6, <2>7, <2>8, <2>9, <2>10, Quiet
<1>3. CASE FailsInPersist(p, "dumped", 3) /\ Cleanup(p, ConfigTmp(p))
  BY <1>1, <1>3, CleaningKept DEF Tmp
<1> QED BY <1>2, <1>3 DEF DumpConfig

LEMMA MakeTmpKept ==
    ASSUME PersistenceInv, NEW p \in Procs, MakeTmp(p)
    PROVE  Shape(p) /\ ProcessInv(p)'
<1>1. CASE /\ Goto(p, "mkstemp", "write") /\ files' = Put(TmpPath(p), FALSE, p)
           /\ UNCHANGED <<dirs, second, localVars>> /\ NoFailure
  <2>1. /\ Types /\ Temporaries(p) /\ Place(p) /\ p # None
        /\ UNCHANGED <<second, config, runDir, item, dirs, stamp>>
    BY <1>1, PersistenceAssumption DEF PersistenceInv, ProcessInv, localVars
  <2>2. "mkstemp" \in Places \ {"done"} /\ "write" \in Places /\ stamp' \in [Procs -> 0 .. MaxSecond]
    BY <2>1 DEF Places, Types
  <2>3. /\ Types' /\ OthersStep(p) /\ pc[p] = "mkstemp" /\ pc'[p] = "write"
        /\ exit' = exit /\ exit'[p] = None /\ keptTmp' = keptTmp
    BY <1>1, <2>1, <2>2, Moves
  <2>4. TmpPath(p).tmp = p /\ ~IsPlot(TmpPath(p))
    BY ItemKinds, PathIs DEF TmpPath, CurrentItem, IsPlot
  <2>5. FileStep(p)
    BY <1>1, <2>1, <2>4, PutFile DEF Own, Published
  <2>6. /\ DOMAIN files' = DOMAIN files \cup {TmpPath(p)}
        /\ files'[TmpPath(p)].full = FALSE /\ files'[TmpPath(p)].by = p
        /\ \A f : f.tmp = None => Still(f)
    BY <1>1, <2>1, <2>4, TmpPut
  <2>7. Temporaries(p)'
    <3>1. ~keptTmp'[p] => \A f \in DOMAIN files' : f.tmp = p => f = TmpPath(p)
      BY <1>1, <2>1, <2>3, <2>6 DEF Temporaries, Tmp
    <3>2. TmpPath(p)' = TmpPath(p) /\ pc'[p] = "write"
      BY <2>1, <2>3, StaysIs DEF Stays
    <3> QED BY <2>3, <3>1, <3>2 DEF Temporaries, Tmp
  <2>8. Advance(p)
    BY <2>1, <2>3 DEF Advance
  <2> QED BY <2>1, <2>3, <2>5, <2>6, <2>7, <2>8, Quiet
<1>2. CASE /\ FailsInPersist(p, "mkstemp", IF item[p] = LastItem(Cfg(p)) THEN 3 ELSE 4)
           /\ UNCHANGED <<files, keptTmp>>
  BY <1>2, FailingKept
<1> QED BY <1>1, <1>2 DEF MakeTmp

LEMMA WriteTmpKept ==
    ASSUME PersistenceInv, NEW p \in Procs, WriteTmp(p)
    PROVE  Shape(p) /\ ProcessInv(p)'
<1>1. TmpPath(p).tmp = p /\ ~IsPlot(TmpPath(p))
  BY ItemKinds, PathIs DEF TmpPath, CurrentItem, IsPlot
<1>2. CASE /\ Goto(p, "write", "replace") /\ files' = Put(TmpPath(p), TRUE, p)
           /\ UNCHANGED <<dirs, second, localVars>> /\ NoFailure
  <2>1. /\ Types /\ Temporaries(p) /\ Place(p) /\ p # None
        /\ UNCHANGED <<second, config, runDir, item, dirs, stamp>>
    BY <1>2, PersistenceAssumption DEF PersistenceInv, ProcessInv, localVars
  <2>2. "write" \in Places \ {"done"} /\ "replace" \in Places /\ stamp' \in [Procs -> 0 .. MaxSecond]
    BY <2>1 DEF Places, Types
  <2>3. /\ Types' /\ OthersStep(p) /\ pc[p] = "write" /\ pc'[p] = "replace"
        /\ exit' = exit /\ exit'[p] = None /\ keptTmp' = keptTmp
    BY <1>2, <2>1, <2>2, Moves
  <2>4. FileStep(p)
    BY <1>1, <1>2, <2>1, PutFile DEF Own, Published
  <2>5. /\ DOMAIN files' = DOMAIN files \cup {TmpPath(p)}
        /\ files'[TmpPath(p)].full = TRUE /\ files'[TmpPath(p)].by = p
        /\ \A f : f.tmp = None => Still(f)
    BY <1>1, <1>2, <2>1, TmpPut
  <2>6. Temporaries(p)'
    <3>1. ~keptTmp'[p] => \A f \in DOMAIN files' : f.tmp = p => f = TmpPath(p)
      BY <1>2, <2>1, <2>3, <2>5 DEF Temporaries, Tmp
    <3>2. TmpPath(p)' = TmpPath(p) /\ pc'[p] = "replace"
      BY <2>1, <2>3, StaysIs DEF Stays
    <3>3. Has(TmpPath(p), p)'
      BY <1>2, <3>2, <2>5 DEF Has
    <3> QED BY <2>3, <3>1, <3>2, <3>3 DEF Temporaries, Tmp
  <2>7. Advance(p)
    BY <2>1, <2>3 DEF Advance
  <2> QED BY <2>1, <2>3, <2>4, <2>5, <2>6, <2>7, Quiet
<1>3. CASE FailsInPersist(p, "write", 3) /\ Cleanup(p, TmpPath(p))
  BY <1>1, <1>3, CleaningKept DEF Tmp
<1> QED BY <1>2, <1>3 DEF WriteTmp

LEMMA AnalyseKept ==
    ASSUME PersistenceInv, NEW p \in Procs, Analyse(p)
    PROVE  Shape(p) /\ ProcessInv(p)'
<1>1. /\ Types /\ Temporaries(p) /\ Place(p)
      /\ UNCHANGED <<files, second, config, runDir, item, dirs, stamp, faults, historyVars>>
  BY DEF PersistenceInv, ProcessInv, Analyse, fsVars, localVars
<1>2. FileStep(p) /\ \A f : f.tmp = None => Still(f)
  BY <1>1, SameFiles DEF Still
<1>3. CASE Goto(p, "report", "plot") /\ UNCHANGED exit
  <2>1. "report" \in Places \ {"done"} /\ "plot" \in Places /\ stamp' \in [Procs -> 0 .. MaxSecond]
    BY <1>1 DEF Places, Types
  <2>2. Types' /\ OthersStep(p) /\ pc[p] = "report" /\ pc'[p] = "plot" /\ exit' = exit
        /\ keptTmp' = keptTmp
    BY <1>1, <1>3, <2>1, Moves DEF NoFailure
  <2>3. Temporaries(p)'
    BY <1>1, <2>2, NoTemporaries
  <2> QED BY <1>1, <1>2, <2>2, <2>3, Quiet DEF Advance, Reporting
<1>4. CASE Exit(p, "report", 4)
  <2>1. /\ pc[p] = "report" /\ pc' \in [Procs -> Places] /\ pc'[p] = "done"
        /\ exit' \in [Procs -> {0, 1, 3, 4, None}] /\ exit'[p] = 4
        /\ \A q \in Procs : q # p => pc'[q] = pc[q] /\ exit'[q] = exit[q]
    BY <1>1, <1>4, ExitIs
  <2>2. Types' /\ OthersStep(p)
    BY <1>1, <2>1 DEF Types, OthersStep, historyVars
  <2>3. Temporaries(p)'
    BY <1>1, <2>1, NoTemporaries DEF historyVars
  <2> QED BY <1>1, <1>2, <2>1, <2>2, <2>3, Quiet DEF Advance
<1> QED BY <1>3, <1>4 DEF Analyse

LEMMA KilledKept ==
    ASSUME PersistenceInv, NEW p \in Procs, Killed(p)
    PROVE  Shape(p) /\ ProcessInv(p)'
<1>1. /\ Types /\ Temporaries(p)
      /\ UNCHANGED <<files, second, config, runDir, item, dirs, stamp>>
  BY DEF PersistenceInv, ProcessInv, Killed, fsVars, localVars
<1>2. FileStep(p) /\ \A f : f.tmp = None => Still(f)
  BY <1>1, SameFiles DEF Still
<1>3. pc[p] \in Places \ {"done"} /\ "done" \in Places /\ Goto(p, pc[p], "done") /\ NoFailure
      /\ stamp' \in [Procs -> 0 .. MaxSecond]
  BY <1>1 DEF Killed, Goto, Types, Places
<1>4. Types' /\ OthersStep(p) /\ pc'[p] = "done" /\ exit' = exit /\ exit'[p] = None
  BY <1>1, <1>3, Moves
<1>5. Temporaries(p)'
  BY <1>4 DEF Temporaries
<1> QED BY <1>1, <1>2, <1>3, <1>4, <1>5, Quiet DEF Advance

(* Before the first file is published.                                     *)
LEMMA NothingYet ==
    ASSUME NEW p, item'[p] = 1, pc'[p] \notin Reporting, ~HasManifest(runDir[p])',
           \A f \in DOMAIN files' : Published(f) => f.dir # runDir'[p],
           pc'[p] \in {"mkstemp", "write", "replace"} => Has(ConfigPath(runDir[p]), p)'
    PROVE  Progress(p)'
<1>1. (\A k \in 1 .. item[p] - 1 : Has(Path(runDir[p], Item(Cfg(p), k), None), p))'
  OBVIOUS
<1>2. (pc[p] \in {"mkstemp", "write", "replace"} \/ item[p] > 1 => Has(ConfigPath(runDir[p]), p))'
  OBVIOUS
<1>3. (pc[p] \in Reporting => HasManifest(runDir[p]))'
  BY DEF Reporting
<1>4. (HasManifest(runDir[p]) => Ended(p) /\ Has(ConfigPath(runDir[p]), p))'
  OBVIOUS
<1>5. (\A f \in DOMAIN files : Published(f) /\ f.dir = runDir[p] =>
          \E k \in 1 .. item[p] :
              f = Path(runDir[p], Item(Cfg(p), k), None) /\ (k = item[p] => Ended(p)))'
  BY DEF Published
<1> QED BY <1>1, <1>2, <1>3, <1>4, <1>5 DEF Progress

LEMMA MadeKept ==
    ASSUME PersistenceInv, NEW p \in Procs, NEW pid \in Procs \cup {None},
           NEW from \in {"mkdir", "mkdirPid"}, NEW dir, dir = RunDirName(p, pid),
           Goto(p, from, "openConfig"), dir \notin dirs, Made(p, dir)
    PROVE  Shape(p) /\ ProcessInv(p)'
<1>1. /\ Types /\ FilesOwned /\ Temporaries(p) /\ Place(p)
      /\ UNCHANGED <<files, second, config, stamp, item>> /\ NoFailure
      /\ dirs' = dirs \cup {dir} /\ runDir' = [runDir EXCEPT ![p] = dir]
  BY DEF PersistenceInv, ProcessInv, Made
<1>2. "openConfig" \in Places /\ pc[p] = from
  BY DEF Places, Goto
<1>3. dir \in RunDirs /\ dir # None
  BY <1>2, NewDirIsRunDir
<1>4. /\ pc'[p] = "openConfig" /\ \A q \in Procs : q # p => pc'[q] = pc[q]
      /\ exit' = exit /\ keptTmp' = keptTmp
  BY <1>1, <1>2, GotoIs DEF NoFailure, historyVars
<1>5. Types'
  <2>1. dirs' \subseteq RunDirs /\ runDir' \in [Procs -> RunDirs \cup {None}]
    BY <1>1, <1>3 DEF Types
  <2>2. stamp' \in [Procs -> 0 .. MaxSecond] /\ item' \in [Procs -> Nat]
    BY <1>1 DEF Types
  <2> QED BY <1>1, <1>2, <2>1, <2>2, NoFailureTypes
<1>6. OthersStep(p) /\ FileStep(p) /\ DirStep(p)
  <2>1. DirStep(p)
    BY <1>1, <1>2, <1>3, <1>4 DEF DirStep
  <2>2. FileStep(p)
    BY <1>1, SameFiles
  <2> QED BY <1>1, <1>4, <2>1, <2>2 DEF OthersStep
<1>7. Shape(p)
  BY <1>1, <1>5, <1>6 DEF Shape
<1>8. runDir'[p] = dir /\ item'[p] = 1 /\ Loaded(p)' /\ Cfg(p)' = Cfg(p)
  <2>1. runDir'[p] = dir
    BY <1>1 DEF Types
  <2> QED BY <1>1, <1>2, <2>1 DEF Place, BeforeDir, Loaded, Cfg
<1>9. exit'[p] = None
  BY <1>1, <1>2, <1>4 DEF Temporaries
<1>10. Place(p)'
  <2>1. LastItem(Cfg(p)) \in Nat \ {0} /\ LastItem(Cfg(p))' = LastItem(Cfg(p))
    BY <1>1, <1>2, <1>8, LoadedRegimes DEF Place
  <2>2. item'[p] \in 1 .. LastItem(Cfg(p))
    BY <1>8, <2>1
  <2> QED BY <1>1, <1>3, <1>4, <1>8, <2>1, <2>2 DEF Place, BeforeDir, Reporting
<1>11. Temporaries(p)'
  BY <1>1, <1>2, <1>4, NoTemporaries
<1>12. \A f \in DOMAIN files' : Published(f) \/ IsPlot(f) => f.dir # dir
  BY <1>1 DEF FilesOwned, Published
<1>13. ~HasManifest(runDir[p])'
  BY <1>8, <1>12, PathIs DEF HasManifest, Published, Manifest
<1>14. Progress(p)'
  <2>1. \A f \in DOMAIN files' : Published(f) => f.dir # runDir'[p]
    BY <1>8, <1>12
  <2>2. pc'[p] \notin Reporting \cup {"mkstemp", "write", "replace"}
    BY <1>4 DEF Reporting
  <2> QED BY <1>8, <1>13, <2>1, <2>2, NothingYet
<1>15. Plots(p)'
  BY <1>4, <1>8, <1>9, <1>12, PersistenceAssumption DEF Plots, Plotted, IsPlot
<1> QED BY <1>7, <1>10, <1>11, <1>14, <1>15 DEF ProcessInv

LEMMA MakeRunDirKept ==
    ASSUME PersistenceInv, NEW p \in Procs, MakeRunDir(p)
    PROVE  Shape(p) /\ ProcessInv(p)'
<1> DEFINE dir == RunDirName(p, None)
<1>1. CASE Goto(p, "mkdir", "openConfig") /\ dir \notin dirs /\ Made(p, dir)
  BY <1>1, MadeKept
<1>2. CASE /\ Goto(p, "mkdir", "mkdirPid") /\ dir \in dirs
           /\ UNCHANGED <<fsVars, second, localVars>> /\ NoFailure
  <2>1. /\ Types /\ Temporaries(p) /\ Place(p)
        /\ UNCHANGED <<files, second, config, runDir, item, dirs, stamp>>
    BY <1>2 DEF PersistenceInv, ProcessInv, fsVars, localVars
  <2>2. "mkdir" \in Places \ {"done"} /\ "mkdirPid" \in Places /\ stamp' \in [Procs -> 0 .. MaxSecond]
    BY <2>1 DEF Places, Types
  <2>3. Types' /\ OthersStep(p) /\ pc[p] = "mkdir" /\ pc'[p] = "mkdirPid" /\ exit' = exit
        /\ keptTmp' = keptTmp
    BY <1>2, <2>1, <2>2, Moves
  <2>4. Temporaries(p)'
    BY <2>1, <2>3, NoTemporaries
  <2>5. Advance(p)
    BY <2>1, <2>3 DEF Advance, BeforeDir, Place
  <2> QED BY <2>1, <2>3, <2>4, <2>5, SameFiles, Quiet DEF Still
<1>3. CASE FailsInPersist(p, "mkdir", 3) /\ UNCHANGED <<files, keptTmp>>
  BY <1>3, FailingKept
<1> QED BY <1>1, <1>2, <1>3 DEF MakeRunDir

LEMMA MakeRunDirWithPidKept ==
    ASSUME PersistenceInv, NEW p \in Procs, MakeRunDirWithPid(p)
    PROVE  Shape(p) /\ ProcessInv(p)'
<1> DEFINE dir == RunDirName(p, p)
<1>1. CASE Goto(p, "mkdirPid", "openConfig") /\ dir \notin dirs /\ Made(p, dir)
  BY <1>1, MadeKept
<1>2. CASE FailsInPersist(p, "mkdirPid", 3) /\ UNCHANGED <<files, keptTmp>>
  BY <1>2, FailingKept
<1> QED BY <1>1, <1>2 DEF MakeRunDirWithPid

(* config.resolved.yaml, opened or filled.                                 *)
LEMMA ConfigWritten ==
    ASSUME PersistenceInv, NEW p \in Procs, NEW full \in BOOLEAN, NEW from, NEW to,
           \/ from = "openConfig" /\ to = "fillConfig"
           \/ from = "fillConfig" /\ to = "mkstemp" /\ full,
           Goto(p, from, to), files' = Put(ConfigPath(runDir[p]), full, p),
           UNCHANGED <<dirs, second, localVars>>, NoFailure
    PROVE  Shape(p) /\ ProcessInv(p)'
<1> DEFINE path == ConfigPath(runDir[p])
<1>1. /\ Types /\ FilesOwned /\ Temporaries(p) /\ Place(p) /\ Progress(p) /\ Plots(p) /\ p # None
      /\ UNCHANGED <<second, config, runDir, item, dirs, stamp>>
  BY PersistenceAssumption DEF PersistenceInv, ProcessInv, localVars
<1>2. from \in Places \ {"done"} /\ to \in Places /\ stamp' \in [Procs -> 0 .. MaxSecond]
  BY <1>1 DEF Places, Types
<1>3. /\ Types' /\ OthersStep(p) /\ pc[p] = from /\ pc'[p] = to
      /\ exit' = exit /\ exit'[p] = None /\ keptTmp' = keptTmp
  BY <1>1, <1>2, Moves
<1>4. runDir[p] # None /\ runDir[p] \in dirs /\ item[p] = 1
  BY <1>1, <1>3 DEF Place, Writing
<1>5. path.tmp = None /\ path.dir = runDir[p] /\ ~Published(path) /\ ~IsPlot(path)
  BY DEF ConfigPath, ConfigItem, Path, Published, IsPlot
<1>6. /\ DOMAIN files' = DOMAIN files \cup {path}
      /\ files'[path].full = full /\ files'[path].by = p
  BY SMTT(30), PutIs
<1>7. FileStep(p)
  BY <1>4, <1>5, PutFile DEF Own
<1>8. Shape(p)
  BY <1>1, <1>3, <1>7 DEF Shape, DirStep
<1>9. /\ Cfg(p)' = Cfg(p) /\ (Loaded(p)' <=> Loaded(p)) /\ runDir'[p] = runDir[p]
      /\ item'[p] = item[p] /\ ConfigPath(runDir[p])' = path
  BY <1>1, StaysIs DEF Stays
<1>10. Place(p)'
  <2>1. LastItem(Cfg(p))' = LastItem(Cfg(p))
    BY <1>9
  <2> QED BY <1>1, <1>3, <1>4, <1>9, <2>1 DEF Place, BeforeDir, Reporting
<1>11. Temporaries(p)'
  BY <1>1, <1>3, <1>5, <1>6, NoTemporaries
<1>12. ~Ended(p)
  BY <1>3 DEF Ended, Reporting
<1>13. \A f \in DOMAIN files' : Published(f) \/ IsPlot(f) => f.dir # runDir[p]
  <2>1. \A f \in DOMAIN files : Published(f) => f.dir # runDir[p]
    BY <1>1, <1>4, <1>12 DEF Progress
  <2>2. \A f \in DOMAIN files : IsPlot(f) => f.dir # runDir[p]
    BY <1>1, <1>3, <1>4 DEF Plots, Plotted
  <2> QED BY <1>5, <1>6, <2>1, <2>2
<1>14. ~HasManifest(runDir[p])'
  BY <1>9, <1>13, PathIs DEF HasManifest, Published, Manifest
<1>15. to = "mkstemp" => Has(ConfigPath(runDir[p]), p)'
  BY <1>6, <1>9 DEF Has
<1>16. Progress(p)'
  <2>1. pc'[p] \in {"mkstemp", "write", "replace"} => Has(ConfigPath(runDir[p]), p)'
    BY <1>3, <1>15
  <2>2. \A f \in DOMAIN files' : Published(f) => f.dir # runDir'[p]
    BY <1>9, <1>13
  <2>3. pc'[p] \notin Reporting /\ item'[p] = 1
    BY <1>3, <1>4, <1>9 DEF Reporting
  <2> QED BY <1>14, <2>1, <2>2, <2>3, NothingYet
<1>17. Plots(p)'
  BY <1>3, <1>9, <1>13, PersistenceAssumption DEF Plots, Plotted, IsPlot
<1> QED BY <1>8, <1>10, <1>11, <1>16, <1>17 DEF ProcessInv

LEMMA OpenConfigKept ==
    ASSUME PersistenceInv, NEW p \in Procs, OpenConfig(p)
    PROVE  Shape(p) /\ ProcessInv(p)'
<1>1. CASE /\ Goto(p, "openConfig", "fillConfig") /\ files' = Put(ConfigPath(runDir[p]), FALSE, p)
           /\ UNCHANGED <<dirs, second, localVars>> /\ NoFailure
  BY <1>1, ConfigWritten
<1>2. CASE FailsInPersist(p, "openConfig", 3) /\ UNCHANGED <<files, keptTmp>>
  BY <1>2, FailingKept
<1> QED BY <1>1, <1>2 DEF OpenConfig

LEMMA FillConfigKept ==
    ASSUME PersistenceInv, NEW p \in Procs, FillConfig(p)
    PROVE  Shape(p) /\ ProcessInv(p)'
<1>1. CASE /\ Goto(p, "fillConfig", "mkstemp") /\ files' = Put(ConfigPath(runDir[p]), TRUE, p)
           /\ UNCHANGED <<dirs, second, localVars>> /\ NoFailure
  BY <1>1, ConfigWritten
<1>2. CASE FailsInPersist(p, "fillConfig", 3) /\ UNCHANGED <<files, keptTmp>>
  BY <1>2, FailingKept
<1> QED BY <1>1, <1>2 DEF FillConfig

(* os.replace: the item is published.                                      *)
LEMMA ReplacedKept ==
    ASSUME PersistenceInv, NEW p \in Procs,
           Goto(p, "replace", IF IsLast(p) THEN "report" ELSE "mkstemp"),
           files' = [f \in (DOMAIN files \ {TmpPath(p)}) \cup {FinalPath(p)} |->
                        IF f = FinalPath(p) THEN files[TmpPath(p)] ELSE files[f]],
           item' = IF IsLast(p) THEN item ELSE [item EXCEPT ![p] = @ + 1],
           UNCHANGED <<dirs, second, config, stamp, runDir>>, NoFailure
    PROVE  Shape(p) /\ ProcessInv(p)'
<1>1. PICK final, tmp, dir, cfg, i, last :
          /\ final = FinalPath(p) /\ tmp = TmpPath(p) /\ dir = runDir[p] /\ cfg = Cfg(p)
          /\ i = item[p] /\ last = LastItem(cfg)
  OBVIOUS
<1>2. /\ Types /\ FilesOwned /\ Temporaries(p) /\ Place(p) /\ Progress(p) /\ Plots(p) /\ p # None
      /\ exit' = exit /\ keptTmp' = keptTmp
  BY PersistenceAssumption DEF PersistenceInv, ProcessInv, NoFailure, historyVars
<1>3. pc[p] = "replace" /\ \A q \in Procs : q # p => pc'[q] = pc[q]
  BY <1>2 DEF Goto, Types
<1>4. pc'[p] = IF i = last THEN "report" ELSE "mkstemp"
  BY <1>1, <1>2 DEF Goto, Types, IsLast
<1>5. dir # None /\ dir \in dirs /\ Loaded(p) /\ i \in 1 .. last /\ last \in Nat \ {0}
  BY <1>1, <1>2, <1>3, LoadedRegimes DEF Place, Writing
<1>6. /\ final.tmp = None /\ final.dir = dir /\ tmp.tmp = p /\ final # tmp /\ ~IsPlot(final)
      /\ final.kind \in {"paths", "fills", "manifest"}
      /\ final = Path(dir, Item(cfg, i), None)
      /\ (final.kind = "manifest" <=> i = last) /\ (i = last => Item(cfg, i) = Manifest)
  <2>1. /\ Item(cfg, i).kind \in {"paths", "fills", "manifest"}
        /\ (Item(cfg, i).kind = "manifest" <=> i = last) /\ (i = last => Item(cfg, i) = Manifest)
    BY <1>1, ItemKinds DEF Manifest
  <2>2. /\ final = Path(dir, Item(cfg, i), None) /\ tmp = Path(dir, Item(cfg, i), p)
    BY <1>1 DEF FinalPath, TmpPath, CurrentItem
  <2>3. final.tmp = None /\ final.dir = dir /\ final.kind = Item(cfg, i).kind /\ tmp.tmp = p
    BY <2>2, PathIs
  <2> QED BY <1>2, <2>1, <2>2, <2>3 DEF IsPlot
<1>7. /\ DOMAIN files' = (DOMAIN files \ {tmp}) \cup {final}
      /\ Has(final, p)'
      /\ \A f \in DOMAIN files : f # tmp /\ f # final => f \in DOMAIN files' /\ files'[f] = files[f]
  <2>1. Has(tmp, p)
    BY <1>1, <1>2, <1>3 DEF Temporaries
  <2>2. /\ DOMAIN files' = (DOMAIN files \ {tmp}) \cup {final} /\ files'[final] = files[tmp]
        /\ \A f \in DOMAIN files : f # tmp /\ f # final => f \in DOMAIN files' /\ files'[f] = files[f]
    BY <1>1
  <2> QED BY <2>1, <2>2 DEF Has
<1>8. Types' /\ OthersStep(p) /\ exit'[p] = None
  <2>1. item' \in [Procs -> Nat] /\ \A q \in Procs : q # p => item'[q] = item[q]
    BY <1>2 DEF Types
  <2>2. stamp' \in [Procs -> 0 .. MaxSecond] /\ runDir' \in [Procs -> RunDirs \cup {None}]
        /\ dirs' \subseteq RunDirs
    BY <1>2 DEF Types
  <2>3. (IF IsLast(p) THEN "report" ELSE "mkstemp") \in Places
    BY DEF Places
  <2>4. Types'
    BY <1>2, <2>1, <2>2, <2>3, NoFailureTypes
  <2>5. exit[p] = None
    BY <1>2, <1>3 DEF Temporaries
  <2> QED BY <1>2, <1>3, <2>1, <2>4, <2>5 DEF OthersStep
<1>9. item'[p] = (IF i = last THEN i ELSE i + 1) /\ item'[p] \in 1 .. last
      /\ Cfg(p)' = cfg /\ runDir'[p] = dir /\ Loaded(p)' /\ dirs' = dirs
      /\ ConfigPath(runDir[p])' = ConfigPath(dir)
  <2>1. item'[p] = IF i = last THEN i ELSE i + 1
    BY <1>1, <1>2 DEF Types, IsLast
  <2> QED BY <1>1, <1>5, <2>1 DEF Cfg, Loaded, ConfigPath
<1>10. FileStep(p)
  <2>1. ASSUME NEW f \in DOMAIN files \cup DOMAIN files'
        PROVE  Untouched(f) \/ Wrote(p, f) \/ (f \notin DOMAIN files' /\ f.tmp = p)
    <3>1. CASE f = final
      <4>1. Own(p, f)
        BY <1>1, <1>5, <1>6, <3>1 DEF Own
      <4> QED BY <1>7, <3>1, <4>1 DEF Wrote, Has
    <3>2. CASE f = tmp
      BY <1>6, <1>7, <3>2
    <3>3. CASE f # final /\ f # tmp
      BY <1>7, <3>3 DEF Untouched
    <3> QED BY <3>1, <3>2, <3>3
  <2> QED BY <2>1 DEF FileStep
<1>11. Shape(p)
  BY <1>8, <1>10 DEF Shape, DirStep
<1>12. Place(p)'
  <2>1. LastItem(Cfg(p))' = last
    BY <1>1, <1>9
  <2> QED BY <1>4, <1>5, <1>9, <2>1 DEF Place, BeforeDir, Reporting
<1>13. Temporaries(p)'
  <2>1. ~keptTmp[p] => \A f \in DOMAIN files : f.tmp = p => f = tmp
    BY <1>1, <1>2, <1>3 DEF Temporaries, Tmp
  <2>2. ~keptTmp'[p] => \A f \in DOMAIN files' : f.tmp # p
    BY <1>2, <1>6, <1>7, <2>1
  <2> QED BY <1>4, <1>8, <2>2 DEF Temporaries
<1>14. ~Ended(p) /\ ~HasManifest(dir)
  BY <1>1, <1>2, <1>3, <1>5 DEF Ended, Reporting, Progress
<1>15. \A path : path.tmp = None => (Has(path, p) => Has(path, p)')
  <2>1. ASSUME NEW path, path.tmp = None, Has(path, p) PROVE Has(path, p)'
    BY <1>2, <1>6, <1>7, <2>1 DEF Has
  <2> QED BY <2>1
<1>16. HasManifest(dir)' <=> i = last
  <2>1. Path(dir, Manifest, None).tmp = None /\ Path(dir, Manifest, None).kind = "manifest"
    BY DEF Path, Manifest
  <2>2. Path(dir, Manifest, None) \in DOMAIN files' <=> Path(dir, Manifest, None) = final
    BY <1>2, <1>6, <1>7, <1>14, <2>1 DEF HasManifest
  <2>3. Path(dir, Manifest, None) = final <=> i = last
    BY <1>6, <2>1
  <2> QED BY <2>2, <2>3 DEF HasManifest
<1>17. HasManifest(runDir[p])' <=> i = last
  BY <1>9, <1>16 DEF HasManifest
<1>18. Has(ConfigPath(runDir[p]), p)'
  <2>1. Has(ConfigPath(dir), p) /\ ConfigPath(dir).tmp = None
    BY <1>1, <1>2, <1>3, <1>5, PathIs DEF Progress, ConfigPath
  <2>2. Has(ConfigPath(dir), p)'
    BY <1>15, <2>1
  <2> QED BY <1>9, <2>2 DEF Has
<1>19. Progress(p)'
  <2>1. ASSUME NEW k \in 1 .. item'[p] - 1
        PROVE  Has(Path(dir, Item(cfg, k), None), p)'
    <3>1. CASE k = i
      BY <1>6, <1>7, <3>1
    <3>2. CASE k # i
      <4>1. k \in 1 .. i - 1
        BY <1>5, <1>9, <2>1, <3>2
      <4>2. Has(Path(dir, Item(cfg, k), None), p)
        BY <1>1, <1>2, <1>5, <4>1 DEF Progress
      <4> QED BY <1>15, <4>2, PathIs
    <3> QED BY <3>1, <3>2
  <2>2. (\A k \in 1 .. item[p] - 1 : Has(Path(runDir[p], Item(Cfg(p), k), None), p))'
    BY <1>9, <2>1
  <2>3. i = last <=> Ended(p)'
    <3>1. LastItem(Cfg(p))' = last
      BY <1>1, <1>9
    <3> QED BY <1>4, <1>5, <1>9, <3>1 DEF Ended, Reporting
  <2>4. (pc[p] \in Reporting => HasManifest(runDir[p]))'
    BY <1>4, <1>17 DEF Reporting
  <2>5. (HasManifest(runDir[p]) => Ended(p) /\ Has(ConfigPath(runDir[p]), p))'
    BY <1>17, <1>18, <2>3
  <2>6. ASSUME NEW f \in DOMAIN files', Published(f), f.dir = dir
        PROVE  \E k \in 1 .. item'[p] :
                  f = Path(dir, Item(cfg, k), None) /\ (k = item'[p] => Ended(p)')
    <3>1. CASE f = final
      <4>1. i \in 1 .. item'[p] /\ (i = item'[p] => i = last)
        BY <1>5, <1>9
      <4> QED BY <1>6, <2>3, <3>1, <4>1
    <3>2. CASE f # final
      <4>1. f \in DOMAIN files
        BY <1>7, <2>6, <3>2
      <4>2. \E k \in 1 .. i : f = Path(dir, Item(cfg, k), None) /\ k # i
        BY <1>1, <1>2, <1>5, <1>14, <2>6, <4>1 DEF Progress
      <4>3. PICK k \in 1 .. i : f = Path(dir, Item(cfg, k), None) /\ k # i
        BY <4>2
      <4>4. k \in 1 .. item'[p] /\ k # item'[p]
        BY <1>5, <1>9, <4>3
      <4> QED BY <4>3, <4>4
    <3> QED BY <3>1, <3>2
  <2>7. (\A f \in DOMAIN files : Published(f) /\ f.dir = runDir[p] =>
            \E k \in 1 .. item[p] :
                f = Path(runDir[p], Item(Cfg(p), k), None) /\ (k = item[p] => Ended(p)))'
    BY <1>9, <2>6 DEF Published
  <2> QED BY <1>18, <2>2, <2>4, <2>5, <2>7 DEF Progress
<1>20. Plots(p)'
  <2>1. \A f \in DOMAIN files' : IsPlot(f) => f.dir # dir
    BY <1>1, <1>2, <1>3, <1>5, <1>6, <1>7 DEF Plots, Plotted
  <2> QED BY <1>8, <1>9, <2>1, PersistenceAssumption DEF Plots, Plotted, IsPlot
<1> QED BY <1>11, <1>12, <1>13, <1>19, <1>20 DEF ProcessInv

LEMMA ReplaceKept ==
    ASSUME PersistenceInv, NEW p \in Procs, Replace(p)
    PROVE  Shape(p) /\ ProcessInv(p)'
<1>1. TmpPath(p).tmp = p
  BY PathIs DEF TmpPath
<1>2. CASE FailsInPersist(p, "replace", 3) /\ Cleanup(p, TmpPath(p))
  BY <1>1, <1>2, CleaningKept DEF Tmp
<1> QED BY <1>2, ReplacedKept DEF Replace

(* The cell numbered c is that of a strategy and a regime.                 *)
LEMMA CellOfNumber ==
    ASSUME NEW n \in Nat \ {0}, NEW c \in 1 .. 3 * n
    PROVE  (c - 1) \div n + 1 \in 1 .. 3 /\ ((c - 1) % n) + 1 \in 1 .. n
<1> DEFINE q == (c - 1) \div n
           r == (c - 1) % n
<1>1. q \in Int /\ r \in 0 .. n - 1 /\ c - 1 = n * q + r
  <2>1. c - 1 \in Int
    OBVIOUS
  <2> QED BY <2>1, DivMod
<1>2. c - 1 \in 0 .. 3 * n - 1
  OBVIOUS
<1> HIDE DEF q, r
<1>3. ~(q >= 3)
  <2>1. ASSUME q >= 3 PROVE n * (q - 2) >= n
    BY <1>1, <2>1, MultipleIsFar
  <2> QED BY <1>1, <1>2, <2>1
<1>4. ~(q <= -1)
  <2>1. ASSUME q <= -1 PROVE n * (-q) >= n
    <3>1. -q >= 1 /\ -q \in Int
      BY <1>1, <2>1
    <3> QED BY <3>1, MultipleIsFar
  <2> QED BY <1>1, <1>2, <2>1
<1> QED BY <1>1, <1>3, <1>4 DEF q, r

(* The plots.                                                              *)
LEMMA PlotItemsArePlots ==
    ASSUME NEW cfg, NRegimes(cfg) \in Nat
    PROVE  /\ Len(PlotItems(cfg)) \in Nat /\ DOMAIN PlotItems(cfg) = 1 .. Len(PlotItems(cfg))
           /\ \A j \in 1 .. Len(PlotItems(cfg)) :
                 /\ IsPlot(PlotItems(cfg)[j])
                 /\ \/ PlotItems(cfg)[j].cell = None
                    \/ \E s \in Range(Strategies) \cup {None}, r \in 1 .. NRegimes(cfg) :
                          PlotItems(cfg)[j].cell = <<s, cfg.regimes[r].name>>
<1> DEFINE R == NRegimes(cfg)
           A == [r \in 1 .. R |-> [kind |-> "terminal_pnl", cell |-> <<None, cfg.regimes[r].name>>]]
           B == [c \in 1 .. R * Len(PlotOrder) |->
                    [kind |-> "sample_path",
                     cell |-> <<PlotOrder[(c - 1) \div R + 1], cfg.regimes[((c - 1) % R) + 1].name>>]]
           C == <<[kind |-> "summary_table", cell |-> None]>>
           S == {A[r] : r \in 1 .. R} \cup {B[c] : c \in 1 .. R * Len(PlotOrder)} \cup {C[1]}
<1>1. R * Len(PlotOrder) \in Nat
  <2>1. Len(PlotOrder) = 3
    BY DEF PlotOrder
  <2> QED BY <2>1
<1>2. \A x \in S :
         /\ IsPlot(x)
         /\ \/ x.cell = None
            \/ \E s \in Range(Strategies) \cup {None}, r \in 1 .. R : x.cell = <<s, cfg.regimes[r].name>>
  <2>1. \A x \in S : IsPlot(x)
    BY DEF IsPlot
  <2>2. ASSUME NEW r \in 1 .. R
        PROVE  \E s \in Range(Strategies) \cup {None}, t \in 1 .. R : A[r].cell = <<s, cfg.regimes[t].name>>
    OBVIOUS
  <2>3. ASSUME NEW c \in 1 .. R * Len(PlotOrder)
        PROVE  \E s \in Range(Strategies) \cup {None}, t \in 1 .. R : B[c].cell = <<s, cfg.regimes[t].name>>
    <3>1. Len(PlotOrder) = 3
      BY DEF PlotOrder
    <3>2. PICK n : n = R
      OBVIOUS
    <3>3. n \in Nat \ {0} /\ c \in 1 .. 3 * n
      BY <3>1, <3>2
    <3>4. PICK j, t : j = (c - 1) \div n + 1 /\ t = ((c - 1) % n) + 1
      OBVIOUS
    <3>5. j \in 1 .. 3 /\ t \in 1 .. R
      BY <3>2, <3>3, <3>4, CellOfNumber
    <3>6. B[c].cell = <<PlotOrder[j], cfg.regimes[t].name>>
      BY <3>2, <3>4
    <3>7. PlotOrder[j] \in Range(Strategies)
      <4>1. /\ Strategies[1] = PlotOrder[1] /\ Strategies[3] = PlotOrder[2]
            /\ Strategies[2] = PlotOrder[3] /\ DOMAIN Strategies = 1 .. 3
        BY DEF Strategies, PlotOrder
      <4> QED BY <3>5, <4>1 DEF Range
    <3> QED BY <3>5, <3>6, <3>7
  <2>4. C[1].cell = None
    OBVIOUS
  <2>5. ASSUME NEW x \in S
        PROVE  \/ x.cell = None
               \/ \E s \in Range(Strategies) \cup {None}, r \in 1 .. R : x.cell = <<s, cfg.regimes[r].name>>
    <3>1. \/ \E r \in 1 .. R : x = A[r]
          \/ \E c \in 1 .. R * Len(PlotOrder) : x = B[c]
          \/ x = C[1]
      OBVIOUS
    <3>2. ASSUME NEW r \in 1 .. R, x = A[r]
          PROVE  \E s \in Range(Strategies) \cup {None}, t \in 1 .. R : x.cell = <<s, cfg.regimes[t].name>>
      <4> HIDE DEF A
      <4> QED BY <2>2, <3>2
    <3>3. ASSUME NEW c \in 1 .. R * Len(PlotOrder), x = B[c]
          PROVE  \E s \in Range(Strategies) \cup {None}, t \in 1 .. R : x.cell = <<s, cfg.regimes[t].name>>
      <4> HIDE DEF B
      <4> QED BY <2>3, <3>3
    <3>4. CASE x = C[1]
      <4> HIDE DEF C
      <4> QED BY <2>4, <3>4
    <3> HIDE DEF A, B, C
    <3> QED BY <3>1, <3>2, <3>3, <3>4
  <2> HIDE DEF S
  <2> QED BY <2>1, <2>5
<1>3. A \in Seq(S)
  <2>1. A \in [1 .. R -> S]
    OBVIOUS
  <2> QED BY SMTT(30), <2>1, SeqDef
<1>4. B \in Seq(S)
  <2> DEFINE m == R * Len(PlotOrder)
  <2>1. B \in [1 .. m -> S]
    OBVIOUS
  <2>2. m \in Nat
    BY <1>1
  <2> HIDE DEF m, S, B
  <2> QED BY <2>1, <2>2, SeqDef
<1>5. C \in Seq(S)
  OBVIOUS
<1>6. PlotItems(cfg) = A \o B \o C
  BY DEF PlotItems
<1> HIDE DEF A, B, C, S
<1>7. PlotItems(cfg) \in Seq(S)
  BY <1>3, <1>4, <1>5, <1>6, ConcatProperties
<1> QED BY <1>2, <1>7, LenProperties, ElementOfSeq

LEMMA SavePlotsIs ==
    ASSUME PersistenceInv, NEW p \in Procs, pc[p] = "plot", NEW k \in Nat, SavePlots(p, k)
    PROVE  /\ FileStep(p)
           /\ \A f : ~IsPlot(f) => Still(f)
           /\ k = Len(PlotItems(Cfg(p))) =>
                 \A it \in Range(PlotItems(Cfg(p))) :
                    LET path == Path(runDir[p], it, None)
                    IN  path \in DOMAIN files' /\ files'[path].full /\ files'[path].by = p
<1>1. runDir[p] # None /\ runDir[p] \in dirs /\ Loaded(p) /\ Types
  BY DEF PersistenceInv, ProcessInv, Place, Reporting
<1>2. PICK plots, dir, n : plots = PlotItems(Cfg(p)) /\ dir = runDir[p] /\ n = Len(plots)
  OBVIOUS
<1>3. n \in Nat /\ DOMAIN plots = 1 .. n /\ \A j \in 1 .. n : IsPlot(plots[j])
  BY <1>1, <1>2, LoadedRegimes, PlotItemsArePlots
<1>4. PICK m : m = Min({k + 1, n})
  OBVIOUS
<1>5. m \in Int /\ m <= n /\ (k = n => m = n)
  <2>1. m = IF k + 1 <= n THEN k + 1 ELSE n
    BY <1>3, <1>4 DEF Min
  <2> QED BY <1>3, <2>1
<1> DEFINE written == {Path(dir, plots[j], None) : j \in 1 .. m}
<1>6. files' = [f \in DOMAIN files \cup written |->
                    IF f \in written
                      THEN [full |-> \E j \in 1 .. k : f = Path(dir, plots[j], None),
                            by |-> p, data |-> None]
                      ELSE files[f]]
  BY <1>2, <1>4 DEF SavePlots
<1>7. ASSUME NEW f \in written
      PROVE  f.tmp = None /\ f.dir = dir /\ IsPlot(f) /\ ~Published(f)
  <2>1. PICK j \in 1 .. m : f = Path(dir, plots[j], None)
    OBVIOUS
  <2>2. IsPlot(plots[j])
    BY <1>3, <1>5
  <2> QED BY <2>1, <2>2, PathIs DEF IsPlot, Published
<1>8. \A path \in written : path.tmp = None /\ path.dir = dir /\ IsPlot(path) /\ ~Published(path)
  BY <1>7
<1>9. k = n => \A it \in Range(plots) :
                  Path(dir, it, None) \in written /\ \E j \in 1 .. k : Path(dir, it, None) = Path(dir, plots[j], None)
  <2>1. ASSUME k = n, NEW it \in Range(plots)
        PROVE  Path(dir, it, None) \in written /\ \E j \in 1 .. k : Path(dir, it, None) = Path(dir, plots[j], None)
    <3>1. PICK j \in 1 .. n : it = plots[j]
      BY <1>3, <2>1 DEF Range
    <3> QED BY <1>5, <2>1, <3>1
  <2> QED BY <2>1
<1>10. /\ DOMAIN files' = DOMAIN files \cup written
       /\ \A f \in written :
             /\ files'[f].full = (\E j \in 1 .. k : f = Path(dir, plots[j], None))
             /\ files'[f].by = p
       /\ \A f \in DOMAIN files : f \notin written => files'[f] = files[f]
  BY <1>6
<1> HIDE DEF written
<1>11. FileStep(p)
  <2>1. ASSUME NEW f \in DOMAIN files \cup DOMAIN files' PROVE Untouched(f) \/ Wrote(p, f)
    <3>1. CASE f \in written
      <4>1. Own(p, f)
        BY <1>1, <1>2, <1>8, <3>1 DEF Own
      <4>2. (\E j \in 1 .. k : f = Path(dir, plots[j], None)) \in BOOLEAN
        OBVIOUS
      <4> QED BY <1>8, <1>10, <3>1, <4>1, <4>2 DEF Wrote
    <3>2. CASE f \notin written
      BY <1>10, <2>1, <3>2 DEF Untouched
    <3> QED BY <3>1, <3>2
  <2> QED BY <2>1 DEF FileStep
<1>12. \A f : ~IsPlot(f) => Still(f)
  <2>1. ASSUME NEW f, ~IsPlot(f) PROVE Still(f)
    BY <1>8, <1>10, <2>1 DEF Still
  <2> QED BY <2>1
<1>13. ASSUME k = n, NEW it \in Range(plots)
       PROVE  LET path == Path(dir, it, None)
              IN  path \in DOMAIN files' /\ files'[path].full /\ files'[path].by = p
  <2>1. PICK path : path = Path(dir, it, None)
    OBVIOUS
  <2>2. path \in written /\ \E j \in 1 .. k : path = Path(dir, plots[j], None)
    BY <1>9, <1>13, <2>1
  <2>3. path \in DOMAIN files' /\ files'[path].by = p
    BY <1>10, <2>2
  <2>4. files'[path].full = \E j \in 1 .. k : path = Path(dir, plots[j], None)
    BY <1>10, <2>2
  <2>5. files'[path].full
    BY <2>2, <2>4
  <2> QED BY <2>1, <2>3, <2>5
<1> QED BY <1>2, <1>11, <1>12, <1>13

LEMMA ReportKept ==
    ASSUME PersistenceInv, NEW p \in Procs, Report(p)
    PROVE  Shape(p) /\ ProcessInv(p)'
<1>1. /\ Types /\ FilesOwned /\ Temporaries(p) /\ Place(p) /\ Progress(p) /\ Plots(p) /\ p # None
      /\ UNCHANGED <<second, config, runDir, item, dirs, stamp, faults, historyVars>>
  BY PersistenceAssumption DEF PersistenceInv, ProcessInv, Report, localVars
<1>2. pc[p] = "plot"
  BY DEF Report, Exit, Goto
<1>3. /\ pc' \in [Procs -> Places] /\ pc'[p] = "done"
      /\ exit' \in [Procs -> {0, 1, 3, 4, None}] /\ exit'[p] \in {0, 4, None}
      /\ \A q \in Procs : q # p => pc'[q] = pc[q] /\ exit'[q] = exit[q]
  <2>1. CASE Exit(p, "plot", 0)
    BY <1>1, <2>1, ExitIs
  <2>2. CASE Exit(p, "plot", 4)
    BY <1>1, <2>2, ExitIs
  <2>3. CASE Goto(p, "plot", "done") /\ UNCHANGED exit
    <3>1. "done" \in Places /\ exit[p] = None
      BY <1>1, <1>2 DEF Places, Temporaries
    <3>2. pc' \in [Procs -> Places] /\ pc'[p] = "done" /\ \A q \in Procs : q # p => pc'[q] = pc[q]
      BY <1>1, <2>3, <3>1, GotoIs
    <3> QED BY <1>1, <2>3, <3>1, <3>2 DEF Types
  <2> QED BY <2>1, <2>2, <2>3 DEF Report
<1>4. Types' /\ OthersStep(p)
  BY <1>1, <1>3 DEF Types, OthersStep, historyVars
<1>5. PICK dir, plots : dir = runDir[p] /\ plots = Range(PlotItems(Cfg(p)))
  OBVIOUS
<1>6. dir # None /\ HasManifest(dir) /\ Plotted(p) = {}
  BY <1>1, <1>2, <1>5 DEF Place, Progress, Plots, Reporting
<1>7. /\ FileStep(p) /\ \A f : ~IsPlot(f) => Still(f)
      /\ exit'[p] = 0 =>
            \/ files' = files
            \/ \A it \in plots :
                  LET path == Path(dir, it, None)
                  IN  path \in DOMAIN files' /\ files'[path].full /\ files'[path].by = p
  <2>1. CASE files' = files
    BY <2>1, SameFiles DEF Still
  <2>2. CASE SavePlots(p, Len(PlotItems(Cfg(p))))
    <3>1. Len(PlotItems(Cfg(p))) \in Nat
      BY <1>1, <1>2, LoadedRegimes, PlotItemsArePlots DEF Place
    <3> QED BY <1>2, <1>5, <2>2, <3>1, SavePlotsIs
  <2>3. ASSUME NEW k \in PlotStops, SavePlots(p, k), exit'[p] # 0
        PROVE  FileStep(p) /\ \A f : ~IsPlot(f) => Still(f)
    BY <1>2, <2>3, PersistenceAssumption, SavePlotsIs
  <2>4. Exit(p, "plot", 4) \/ UNCHANGED exit => exit'[p] # 0
    BY <1>1, <1>2, PersistenceAssumption DEF Exit, Temporaries, Types
  <2> QED BY <1>3, <2>1, <2>2, <2>3, <2>4 DEF Report
<1>8. Shape(p) /\ FilesOwned'
  <2>1. Shape(p)
    BY <1>1, <1>4, <1>7 DEF Shape, DirStep
  <2> QED BY <2>1, SharedKept
<1>9. Stays(p)
  BY <1>1 DEF Stays
<1>10. Place(p)'
  <2>1. /\ Cfg(p)' = Cfg(p) /\ (Loaded(p)' <=> Loaded(p)) /\ runDir'[p] = runDir[p]
        /\ item'[p] = item[p] /\ dirs' = dirs
    BY <1>1, <1>9, StaysIs
  <2>2. LastItem(Cfg(p))' = LastItem(Cfg(p))
    BY <2>1
  <2> QED BY <1>1, <1>3, <2>1, <2>2 DEF Place, BeforeDir, Writing, Reporting
<1>11. Temporaries(p)'
  <2>1. ~keptTmp[p] => \A f \in DOMAIN files : f.tmp # p
    BY <1>1, <1>2 DEF Temporaries, Tmp
  <2>2. ~keptTmp'[p] => \A f \in DOMAIN files' : f.tmp # p
    <3>1. ASSUME ~keptTmp'[p], NEW f \in DOMAIN files', f.tmp = p PROVE FALSE
      <4>1. ~IsPlot(f)
        BY <1>1, <1>8, <3>1 DEF FilesOwned, IsPlot
      <4> QED BY <1>1, <1>7, <2>1, <3>1, <4>1 DEF Still, historyVars
    <3> QED BY <3>1
  <2> QED BY <1>3, <2>2 DEF Temporaries
<1>12. Progress(p)'
  <2>1. runDir[p] # None => \A f : InDir(p, f) /\ ~IsPlot(f) => Still(f)
    BY <1>7
  <2> QED BY <1>1, <1>2, <1>3, <1>9, <2>1, ProgressKept DEF Reporting
<1>13. Plots(p)'
  <2>1. runDir'[p] = dir /\ Cfg(p)' = Cfg(p)
    BY <1>1, <1>5 DEF Cfg
  <2>2. HasManifest(runDir[p])'
    <3>1. Still(Path(dir, Manifest, None))
      BY <1>7, PathIs DEF IsPlot, Manifest
    <3> QED BY <1>6, <2>1, <3>1 DEF HasManifest, Still
  <2>3. (runDir[p] # None /\ pc[p] # "done" => Plotted(p) = {})'
    BY <1>3
  <2>4. (exit[p] = 0 => runDir[p] # None /\ HasManifest(runDir[p]))'
    BY <1>6, <2>1, <2>2
  <2>5. (exit[p] = 3 /\ runDir[p] # None => ~HasManifest(runDir[p]))'
    BY <1>3, PersistenceAssumption
  <2>6. (exit[p] = 0 /\ Plotted(p) # {} =>
            \A it \in Range(PlotItems(Cfg(p))) : Complete(runDir[p], it, p))'
    <3>1. SUFFICES ASSUME exit'[p] = 0, Plotted(p)' # {}, NEW it \in plots
                   PROVE  Complete(dir, it, p)'
      BY <1>5, <2>1
    <3>2. files' # files
      BY <1>5, <1>6, <2>1, <3>1 DEF Plotted, IsPlot
    <3>3. PICK path : path = Path(dir, it, None)
      OBVIOUS
    <3>4. path \in DOMAIN files' /\ files'[path].full /\ files'[path].by = p
      BY <1>7, <3>1, <3>2, <3>3
    <3> QED BY <3>3, <3>4 DEF Complete
  <2> QED BY <2>3, <2>4, <2>5, <2>6 DEF Plots
<1> QED BY <1>8, <1>10, <1>11, <1>12, <1>13 DEF ProcessInv

-----------------------------------------------------------------------------
(* The invariant.                                                          *)

LEMMA ProcessKept ==
    ASSUME PersistenceInv, NEW p \in Procs, Step(p)
    PROVE  Shape(p) /\ ProcessInv(p)'
  BY LoadAndRunKept, MakeBaseDirKept, CreateConfigTmpKept, DumpConfigKept, MakeRunDirKept,
     MakeRunDirWithPidKept, OpenConfigKept, FillConfigKept, MakeTmpKept, WriteTmpKept,
     ReplaceKept, AnalyseKept, ReportKept, KilledKept DEF Step, Process

(* A tick of the clock changes nothing the processes rely on.              *)
LEMMA TickKept ==
    ASSUME PersistenceInv, second' \in 0 .. MaxSecond,
           UNCHANGED <<fsVars, faults, localVars, pc, exit, historyVars>>
    PROVE  PersistenceInv'
<1>1. UNCHANGED <<files, dirs, faults, config, stamp, runDir, item, pc, exit, failed, keptTmp>>
  BY DEF fsVars, localVars, historyVars
<1>2. Types'
  BY <1>1 DEF PersistenceInv, Types, RunDirs, Loads
<1>3. (FilesOwned /\ DirsOwned /\ PublishedComplete)'
  BY <1>1 DEF PersistenceInv, FilesOwned, DirsOwned, PublishedComplete, IsPlot, Published
<1>4. ASSUME NEW p \in Procs PROVE ProcessInv(p)'
  <2>1. Place(p) /\ Temporaries(p) /\ Progress(p) /\ Plots(p) /\ FilesOwned
    BY DEF PersistenceInv, ProcessInv
  <2>2. Stays(p) /\ \A f : Still(f)
    BY <1>1 DEF Stays, Still
  <2>3. Place(p)'
    <3>1. /\ Cfg(p)' = Cfg(p) /\ (Loaded(p)' <=> Loaded(p)) /\ runDir'[p] = runDir[p]
          /\ item'[p] = item[p] /\ dirs' = dirs /\ pc'[p] = pc[p]
      BY <1>1, <2>2, StaysIs
    <3>2. LastItem(Cfg(p))' = LastItem(Cfg(p))
      BY <3>1
    <3> QED BY <2>1, <3>1, <3>2 DEF Place
  <2>4. Temporaries(p)'
    <3>1. TmpPath(p)' = TmpPath(p) /\ Tmp(p)' = Tmp(p)
      BY <1>1, <2>2, StaysIs DEF Tmp
    <3>2. Has(TmpPath(p), p)' <=> Has(TmpPath(p), p)
      BY <1>1, <3>1 DEF Has
    <3> QED BY <1>1, <2>1, <3>1, <3>2 DEF Temporaries
  <2>5. Progress(p)'
    BY <1>1, <2>1, <2>2, ProgressKept
  <2>6. Plots(p)'
    BY <1>1, <1>3, <2>1, <2>2, PlotsKept
  <2> QED BY <2>3, <2>4, <2>5, <2>6 DEF ProcessInv
<1> QED BY <1>2, <1>3, <1>4 DEF PersistenceInv

LEMMA PersistenceInit ==
    ASSUME Init
    PROVE  PersistenceInv
<1>1. Types
  <2>1. PICK given \in [Procs -> ConfigFiles] : config = [p \in Procs |-> LoadConfig(given[p])]
    BY DEF Init
  <2>2. config \in [Procs -> Loads]
    BY <2>1 DEF Loads
  <2>3. "load" \in Places
    BY DEF Places
  <2>4. dirs \subseteq RunDirs /\ second \in 0 .. MaxSecond /\ faults \in 0 .. MaxFaults
    BY PersistenceAssumption DEF Init
  <2> QED BY <2>2, <2>3, <2>4, PersistenceAssumption DEF Init, Types
<1>2. DOMAIN files = {}
  BY DEF Init
<1>3. FilesOwned /\ DirsOwned /\ PublishedComplete
  BY <1>2 DEF Init, FilesOwned, DirsOwned, PublishedComplete
<1>4. ASSUME NEW p \in Procs PROVE ProcessInv(p)
  <2>1. pc[p] = "load" /\ runDir[p] = None /\ item[p] = 1 /\ exit[p] = None
    BY DEF Init
  <2>2. Place(p)
    BY <2>1 DEF Place, Writing, Reporting
  <2>3. Temporaries(p)
    BY <1>2, <2>1 DEF Temporaries
  <2>4. Progress(p) /\ Plots(p)
    BY <2>1, PersistenceAssumption DEF Progress, Plots
  <2> QED BY <2>2, <2>3, <2>4 DEF ProcessInv
<1> QED BY <1>1, <1>3, <1>4 DEF PersistenceInv

LEMMA PersistenceNext ==
    ASSUME PersistenceInv, [Next]_vars
    PROVE  PersistenceInv'
<1>1. ASSUME NEW p \in Procs, Step(p) PROVE PersistenceInv'
  <2>1. Shape(p) /\ ProcessInv(p)'
    BY <1>1, ProcessKept
  <2>2. (FilesOwned /\ DirsOwned /\ PublishedComplete)'
    BY <2>1, SharedKept
  <2>3. ASSUME NEW q \in Procs PROVE ProcessInv(q)'
    <3>1. CASE q = p
      BY <2>1, <3>1
    <3>2. CASE q # p
      BY <2>1, <2>2, <3>2, OthersKept
    <3> QED BY <3>1, <3>2
  <2> QED BY <2>1, <2>2, <2>3 DEF PersistenceInv, Shape
<1>2. CASE Tick
  <2>1. second' \in 0 .. MaxSecond
    BY <1>2, PersistenceAssumption DEF Tick, PersistenceInv, Types
  <2> QED BY <1>2, <2>1, TickKept DEF Tick, NoFailure
<1>3. CASE UNCHANGED vars
  <2>1. second' \in 0 .. MaxSecond
    BY <1>3 DEF vars, PersistenceInv, Types
  <2> QED BY <1>3, <2>1, TickKept DEF vars
<1> QED BY <1>1, <1>2, <1>3 DEF Next, Step

LEMMA PersistenceInvariant == Spec => []PersistenceInv
<1>1. Init => PersistenceInv
  BY PersistenceInit
<1>2. PersistenceInv /\ [Next]_vars => PersistenceInv'
  BY PersistenceNext
<1> QED BY <1>1, <1>2, PTL DEF Spec

-----------------------------------------------------------------------------
(* What a reader of the directory may rely on.                             *)

(* Cell c is that of strategy j in regime r, of n regimes.                 *)
IsNumberOfCell(n, j, r, c) ==
    c \in 1 .. 3 * n /\ (c - 1) \div n + 1 = j /\ ((c - 1) % n) + 1 = r

(* Each strategy and regime has a cell.                                    *)
LEMMA NumberOfCell ==
    ASSUME NEW n \in Nat \ {0}, NEW j \in 1 .. 3, NEW r \in 1 .. n
    PROVE  \E c : IsNumberOfCell(n, j, r, c)
<1> DEFINE c == n * (j - 1) + r
<1>1. c \in 1 .. 3 * n
  <2>1. CASE j = 1
    BY <2>1
  <2>2. CASE j = 2
    BY <2>2
  <2>3. CASE j = 3
    BY <2>3
  <2> QED BY <2>1, <2>2, <2>3
<1>2. c - 1 = n * (j - 1) + (r - 1) /\ c - 1 \in Int /\ j - 1 \in Int /\ r - 1 \in 0 .. n - 1
  BY <1>1
<1>3. /\ (c - 1) \div n \in Int /\ (c - 1) % n \in 0 .. n - 1
      /\ c - 1 = n * ((c - 1) \div n) + ((c - 1) % n)
  BY <1>2, DivMod
<1> HIDE DEF c
<1>4. (c - 1) \div n = j - 1 /\ (c - 1) % n = r - 1
  <2>1. PICK a, b, d, e : a = j - 1 /\ b = r - 1 /\ d = (c - 1) \div n /\ e = (c - 1) % n
    OBVIOUS
  <2>2. /\ a \in Int /\ d \in Int /\ b \in 0 .. n - 1 /\ e \in 0 .. n - 1
        /\ n * d + e = n * a + b
    BY <1>2, <1>3, <2>1
  <2>3. d = a /\ e = b
    BY <2>2, DivModUnique
  <2> QED BY <2>1, <2>3
<1>5. (c - 1) \div n + 1 = j /\ ((c - 1) % n) + 1 = r
  <2>1. PICK d, e : d = (c - 1) \div n /\ e = (c - 1) % n
    OBVIOUS
  <2>2. d = j - 1 /\ e = r - 1
    BY <1>4, <2>1
  <2>3. d + 1 = j /\ e + 1 = r
    BY <2>2
  <2> QED BY <2>1, <2>3
<1>6. IsNumberOfCell(n, j, r, c)
  BY <1>1, <1>5 DEF IsNumberOfCell
<1> QED BY <1>6

LEMMA ItemOfCell ==
    ASSUME NEW cfg, NEW c \in Nat \ {0}, LastItem(cfg) \in Nat, 2 * c < LastItem(cfg)
    PROVE  /\ Item(cfg, 2 * c - 1) = [kind |-> "paths", cell |-> Cell(cfg, c)]
           /\ Item(cfg, 2 * c) = [kind |-> "fills", cell |-> Cell(cfg, c)]
<1>1. (2 * c - 1) % 2 = 1 /\ (2 * c) % 2 = 0 /\ ((2 * c - 1) + 1) \div 2 = c /\ (2 * c) \div 2 = c
  OBVIOUS
<1>2. 2 * c - 1 # LastItem(cfg) /\ 2 * c # LastItem(cfg)
  OBVIOUS
<1> QED BY <1>1, <1>2 DEF Item, DataItem

LEMMA StrategiesAre == Len(Strategies) = 3 /\ DOMAIN Strategies = 1 .. 3
  BY DEF Strategies

(* Every data file of a configuration is an item before the manifest.      *)
LEMMA DataItemsAreItems ==
    ASSUME Types, NEW p \in Procs, Loaded(p), NEW it \in DataItems(Cfg(p))
    PROVE  \E k \in 1 .. LastItem(Cfg(p)) - 1 : it = Item(Cfg(p), k)
<1>1. PICK cfg, n : cfg = Cfg(p) /\ n = NRegimes(cfg)
  OBVIOUS
<1>2. n \in Nat /\ DOMAIN cfg.regimes = 1 .. n /\ LastItem(cfg) = 6 * n + 1
  BY <1>1, LoadedRegimes, StrategiesAre DEF LastItem
<1>3. PICK kind \in {"paths", "fills"}, s \in Range(Strategies), r \in DOMAIN cfg.regimes :
         it = [kind |-> kind, cell |-> <<s, cfg.regimes[r].name>>]
  BY <1>1 DEF DataItems
<1>4. PICK j \in 1 .. 3 : s = Strategies[j]
  BY StrategiesAre DEF Range
<1>5. r \in 1 .. n /\ n \in Nat \ {0}
  BY <1>2
<1>6. PICK c : IsNumberOfCell(n, j, r, c)
  <2>1. n \in Nat \ {0} /\ j \in 1 .. 3 /\ r \in 1 .. n
    BY <1>4, <1>5
  <2> QED BY <2>1, NumberOfCell
<1>7. c \in 1 .. 3 * n
  BY <1>6 DEF IsNumberOfCell
<1>8. (c - 1) \div n + 1 = j /\ ((c - 1) % n) + 1 = r
  BY <1>6 DEF IsNumberOfCell
<1>9. Cell(cfg, c) = <<s, cfg.regimes[r].name>>
  BY <1>1, <1>4, <1>8 DEF Cell
<1>10. /\ c \in Nat \ {0} /\ 2 * c < LastItem(cfg) /\ LastItem(cfg) \in Nat
      /\ 2 * c - 1 \in 1 .. LastItem(cfg) - 1 /\ 2 * c \in 1 .. LastItem(cfg) - 1
  BY <1>2, <1>5, <1>7
<1>11. /\ Item(cfg, 2 * c - 1) = [kind |-> "paths", cell |-> Cell(cfg, c)]
      /\ Item(cfg, 2 * c) = [kind |-> "fills", cell |-> Cell(cfg, c)]
  BY <1>10, ItemOfCell
<1> QED BY <1>1, <1>3, <1>9, <1>10, <1>11

(* A published file is complete, and where a manifest stands every data    *)
(* file and the resolved configuration stand beside it, complete and of    *)
(* the same run (persistence.py).                                          *)
LEMMA ManifestVouches ==
    ASSUME PersistenceInv
    PROVE  ManifestMeansComplete
<1>1. \A f \in DOMAIN files : Published(f) => files[f].full
  BY DEF PersistenceInv, PublishedComplete
<1>2. ASSUME NEW dir \in dirs, HasManifest(dir), NEW p, p = files[Path(dir, Manifest, None)].by,
             NEW it \in DataItems(Cfg(p)) \cup {ConfigItem}
      PROVE  Complete(dir, it, p)
  <2>1. p \in Procs /\ runDir[p] = dir /\ Types
    BY <1>2, PathIs DEF PersistenceInv, FilesOwned, HasManifest
  <2>2. ProcessInv(p) /\ dir # None
    <3>1. None \notin RunDirs
      <4>1. RunDirs \subseteq [stamp : Nat, sha : Range(ShaPrefix), pid : Procs \cup {None}]
        BY PersistenceAssumption DEF RunDirs
      <4> QED BY <4>1, PersistenceAssumption
    <3> QED BY <2>1, <3>1 DEF PersistenceInv, Types
  <2>3. /\ Ended(p) /\ Has(ConfigPath(dir), p) /\ Loaded(p)
        /\ \A k \in 1 .. item[p] - 1 : Has(Path(dir, Item(Cfg(p), k), None), p)
    BY <1>2, <2>1, <2>2 DEF ProcessInv, Progress, Place
  <2>4. CASE it = ConfigItem
    BY <2>3, <2>4 DEF Has, Complete, ConfigPath
  <2>5. CASE it \in DataItems(Cfg(p))
    <3>1. PICK k \in 1 .. LastItem(Cfg(p)) - 1 : it = Item(Cfg(p), k)
      BY <2>1, <2>3, <2>5, DataItemsAreItems
    <3>2. Has(Path(dir, it, None), p)
      BY <2>3, <3>1 DEF Ended
    <3> QED BY <3>2 DEF Has, Complete
  <2> QED BY <1>2, <2>4, <2>5
<1>3. ASSUME NEW dir \in dirs, HasManifest(dir)
      PROVE  LET p == files[Path(dir, Manifest, None)].by
             IN  \A it \in DataItems(Cfg(p)) \cup {ConfigItem} : Complete(dir, it, p)
  <2>1. PICK p : p = files[Path(dir, Manifest, None)].by
    OBVIOUS
  <2>2. \A it \in DataItems(Cfg(p)) \cup {ConfigItem} : Complete(dir, it, p)
    BY <1>2, <1>3, <2>1
  <2> QED BY <2>1, <2>2
<1> QED BY <1>1, <1>3 DEF ManifestMeansComplete

THEOREM ManifestVouchesForItsDirectory == Spec => []ManifestMeansComplete
  BY PersistenceInvariant, ManifestVouches, PTL

(* A run that ends by itself, and was refused no unlink, leaves no         *)
(* temporary file.                                                         *)
THEOREM NothingIsLeftBehind == Spec => []NoDebris
<1>1. ASSUME PersistenceInv PROVE NoDebris
  <2>1. ASSUME NEW p \in Procs, exit[p] # None, ~keptTmp[p], NEW f \in DOMAIN files
        PROVE  f.tmp # p
    BY <1>1, <2>1 DEF PersistenceInv, ProcessInv, Temporaries, Tmp
  <2> QED BY <2>1 DEF NoDebris
<1> QED BY <1>1, PersistenceInvariant, PTL

(* Exit code 0 means that the manifest is there, and every plot if there   *)
(* is any; exit code 3 that there is no manifest.                          *)
THEOREM ExitCodeTellsTheDirectory == Spec => []ManifestTellsSuccess
<1>1. ASSUME PersistenceInv PROVE ManifestTellsSuccess
  <2>1. ASSUME NEW p \in Procs
        PROVE  Plots(p)
    BY <1>1 DEF PersistenceInv, ProcessInv
  <2> QED BY <2>1 DEF ManifestTellsSuccess, Plots, Plotted
<1> QED BY <1>1, PersistenceInvariant, PTL

-----------------------------------------------------------------------------
(* The names of the files.                                                 *)

ItemKindNames == {"config", "paths", "fills", "manifest", "terminal_pnl", "sample_path", "summary_table"}
Cells == ((Range(Strategies) \cup {None}) \X Names) \cup {None}
FilesNamed == DOMAIN files \subseteq Paths

LEMMA PathNamed ==
    ASSUME NEW dir \in RunDirs \cup {BaseDir}, NEW it, it.kind \in ItemKindNames, it.cell \in Cells,
           NEW tmp \in Procs \cup {None}
    PROVE  Path(dir, it, tmp) \in Paths
  BY DEF Path, Paths, ItemKindNames, Cells

LEMMA RegimeNamed ==
    ASSUME Types, NEW p \in Procs, Loaded(p), NEW r \in 1 .. NRegimes(Cfg(p))
    PROVE  Cfg(p).regimes[r].name \in Names
<1>1. config[p] \in {l \in Loads : l.raised = "none"}
  BY DEF Types, Loaded
<1>2. r \in DOMAIN config[p].config.regimes
  BY LoadedRegimes DEF Cfg
<1> QED BY <1>1, <1>2 DEF Names, Cfg

LEMMA ItemNamed ==
    ASSUME Types, NEW p \in Procs, Loaded(p), NEW k \in 1 .. LastItem(Cfg(p))
    PROVE  Item(Cfg(p), k).kind \in ItemKindNames /\ Item(Cfg(p), k).cell \in Cells
<1>1. PICK cfg, n : cfg = Cfg(p) /\ n = NRegimes(cfg)
  OBVIOUS
<1>2. n \in Nat /\ DOMAIN cfg.regimes = 1 .. n /\ LastItem(cfg) = 6 * n + 1
  BY <1>1, LoadedRegimes, StrategiesAre DEF LastItem
<1>3. ASSUME NEW c \in 1 .. 3 * n PROVE Cell(cfg, c) \in Cells
  <2>1. n \in Nat \ {0}
    BY <1>2
  <2>2. PICK j, r : j = (c - 1) \div n + 1 /\ r = ((c - 1) % n) + 1
    OBVIOUS
  <2>3. j \in 1 .. 3 /\ r \in 1 .. n
    BY <2>1, <2>2, CellOfNumber
  <2>4. Cell(cfg, c) = <<Strategies[j], cfg.regimes[r].name>>
    BY <1>1, <2>2 DEF Cell
  <2>5. Strategies[j] \in Range(Strategies) /\ cfg.regimes[r].name \in Names
    BY <1>1, <2>3, RegimeNamed, StrategiesAre DEF Range
  <2> QED BY <2>4, <2>5 DEF Cells
<1>4. CASE k = LastItem(cfg)
  BY <1>1, <1>4, ItemKinds DEF Manifest, ItemKindNames, Cells
<1>5. CASE k # LastItem(cfg)
  <2>1. k \in 1 .. 6 * n /\ Item(cfg, k) = DataItem(cfg, k)
    BY <1>1, <1>2, <1>5, ItemKinds
  <2>2. CASE k % 2 = 1
    <3>1. PICK c : c = (k + 1) \div 2
      OBVIOUS
    <3>2. c \in 1 .. 3 * n
      BY <1>2, <2>1, <2>2, <3>1
    <3> QED BY <1>1, <1>3, <2>1, <2>2, <3>1, <3>2 DEF DataItem, ItemKindNames
  <2>3. CASE k % 2 # 1
    <3>1. PICK c : c = k \div 2
      OBVIOUS
    <3>2. c \in 1 .. 3 * n
      BY <1>2, <2>1, <2>3, <3>1
    <3> QED BY <1>1, <1>3, <2>1, <2>3, <3>1, <3>2 DEF DataItem, ItemKindNames
  <2> QED BY <2>2, <2>3
<1> QED BY <1>1, <1>4, <1>5

(* The paths a process writes are names of its own.                        *)
LEMMA StepNames ==
    ASSUME PersistenceInv, FilesNamed, NEW p \in Procs, Step(p)
    PROVE  FilesNamed'
<1>1. Types /\ Place(p)
  BY DEF PersistenceInv, ProcessInv
<1>2. \A path : Cleanup(p, path) => DOMAIN files' \subseteq DOMAIN files
  BY WithoutIs DEF Cleanup
<1>3. /\ ConfigTmp(p) \in Paths
      /\ runDir[p] # None => ConfigPath(runDir[p]) \in Paths
  <2>1. ConfigItem.kind \in ItemKindNames /\ ConfigItem.cell \in Cells
    BY DEF ConfigItem, ItemKindNames, Cells
  <2>2. ConfigTmp(p) \in Paths
    BY <2>1, PathNamed DEF ConfigTmp
  <2>3. runDir[p] # None => ConfigPath(runDir[p]) \in Paths
    BY <1>1, <2>1, PathNamed DEF ConfigPath, Types
  <2> QED BY <2>2, <2>3
<1>4. ASSUME runDir[p] # None PROVE TmpPath(p) \in Paths /\ FinalPath(p) \in Paths
  <2>1. Loaded(p) /\ item[p] \in 1 .. LastItem(Cfg(p)) /\ runDir[p] \in RunDirs
    BY <1>1, <1>4 DEF Place, Types
  <2>2. CurrentItem(p).kind \in ItemKindNames /\ CurrentItem(p).cell \in Cells
    BY <1>1, <2>1, ItemNamed DEF CurrentItem
  <2> QED BY <2>1, <2>2, PathNamed DEF TmpPath, FinalPath
<1>5. ASSUME NEW path \in Paths, NEW full, files' = Put(path, full, p) PROVE FilesNamed'
  <2>1. DOMAIN files' = DOMAIN files \cup {path}
    BY <1>5, PutIs
  <2>2. DOMAIN files' \subseteq Paths
    BY <2>1 DEF FilesNamed
  <2> QED BY <2>2 DEF FilesNamed
<1>6. ASSUME NEW path, files' = Without(path) PROVE FilesNamed'
  BY <1>6, WithoutIs DEF FilesNamed
<1>7. ASSUME files' = files \/ \E path : Cleanup(p, path) PROVE FilesNamed'
  BY <1>2, <1>7 DEF FilesNamed
<1>8. CASE Replace(p)
  <2>1. CASE FailsInPersist(p, "replace", 3) /\ Cleanup(p, TmpPath(p))
    BY <1>7, <2>1
  <2>2. CASE /\ Goto(p, "replace", IF IsLast(p) THEN "report" ELSE "mkstemp")
             /\ files' = [f \in (DOMAIN files \ {TmpPath(p)}) \cup {FinalPath(p)} |->
                             IF f = FinalPath(p) THEN files[TmpPath(p)] ELSE files[f]]
    <3>1. runDir[p] # None
      BY <1>1, <2>2 DEF Goto, Place, Writing
    <3>2. DOMAIN files' \subseteq DOMAIN files \cup {FinalPath(p)}
      BY <2>2
    <3> QED BY <1>4, <3>1, <3>2 DEF FilesNamed
  <2> QED BY <1>8, <2>1, <2>2 DEF Replace
<1>9. CASE Report(p)
  <2>1. pc[p] = "plot"
    BY <1>9 DEF Report, Exit, Goto
  <2>2. runDir[p] \in RunDirs /\ Loaded(p)
    BY <1>1, <2>1 DEF Place, Types, Reporting
  <2>3. PICK plots, n : plots = PlotItems(Cfg(p)) /\ n = Len(plots)
    OBVIOUS
  <2>4. n \in Nat /\ \A j \in 1 .. n : plots[j].kind \in ItemKindNames /\ plots[j].cell \in Cells
    <3>1. NRegimes(Cfg(p)) \in Nat
      BY <1>1, <2>2, LoadedRegimes
    <3>2. n \in Nat
      BY <2>3, <3>1, PlotItemsArePlots
    <3>3. ASSUME NEW j \in 1 .. n PROVE plots[j].kind \in ItemKindNames /\ plots[j].cell \in Cells
      <4>1. /\ IsPlot(plots[j])
            /\ \/ plots[j].cell = None
               \/ \E s \in Range(Strategies) \cup {None}, r \in 1 .. NRegimes(Cfg(p)) :
                     plots[j].cell = <<s, Cfg(p).regimes[r].name>>
        BY <2>3, <3>1, <3>3, PlotItemsArePlots
      <4>2. plots[j].cell \in Cells
        BY SMTT(30), <1>1, <2>2, <4>1, RegimeNamed DEF Cells
      <4> QED BY <4>1, <4>2 DEF IsPlot, ItemKindNames
    <3> QED BY <3>2, <3>3
  <2>5. ASSUME NEW k \in Nat, SavePlots(p, k) PROVE FilesNamed'
    <3>1. PICK m : m = Min({k + 1, n})
      OBVIOUS
    <3>2. m \in Int /\ m <= n
      <4>1. m = IF k + 1 <= n THEN k + 1 ELSE n
        BY <2>4, <3>1 DEF Min
      <4> QED BY <2>4, <4>1
    <3>3. DOMAIN files' = DOMAIN files \cup {Path(runDir[p], plots[j], None) : j \in 1 .. m}
      BY <2>3, <2>5, <3>1 DEF SavePlots
    <3>4. ASSUME NEW j \in 1 .. m PROVE Path(runDir[p], plots[j], None) \in Paths
      <4>1. j \in 1 .. n
        BY <2>4, <3>2
      <4> QED BY <2>2, <2>4, <4>1, PathNamed
    <3> QED BY <3>3, <3>4 DEF FilesNamed
  <2>6. CASE UNCHANGED files
    BY <1>7, <2>6
  <2> QED BY <1>9, <2>3, <2>4, <2>5, <2>6, PersistenceAssumption DEF Report
<1>10. CASE LoadAndRun(p) \/ MakeBaseDir(p) \/ MakeRunDir(p) \/ MakeRunDirWithPid(p) \/ Analyse(p) \/ Killed(p)
  <2>1. files' = files
    BY <1>10 DEF LoadAndRun, MakeBaseDir, MakeRunDir, MakeRunDirWithPid, Made, Analyse, Killed, fsVars
  <2> QED BY <1>7, <2>1
<1>11. CASE CreateConfigTmp(p)
  BY <1>3, <1>5, <1>7, <1>11 DEF CreateConfigTmp
<1>12. CASE DumpConfig(p)
  BY <1>6, <1>7, <1>12 DEF DumpConfig, Cleanup
<1>13. CASE OpenConfig(p) \/ FillConfig(p)
  <2>1. runDir[p] # None
    BY <1>1, <1>13 DEF OpenConfig, FillConfig, FailsInPersist, Exit, Goto, Place, Writing
  <2> QED BY <1>3, <1>5, <1>7, <1>13, <2>1 DEF OpenConfig, FillConfig
<1>14. CASE MakeTmp(p) \/ WriteTmp(p)
  <2>1. runDir[p] # None
    BY <1>1, <1>14 DEF MakeTmp, WriteTmp, FailsInPersist, Exit, Goto, Place, Writing
  <2> QED BY <1>4, <1>5, <1>7, <1>14, <2>1 DEF MakeTmp, WriteTmp
<1> QED BY <1>8, <1>9, <1>10, <1>11, <1>12, <1>13, <1>14 DEF Step, Process

(* Every variable keeps its type, and every file has a name that the       *)
(* program gives to files.                                                 *)
THEOREM PersistenceTypeCorrect == Spec => []TypeOK
<1>1. Init => FilesNamed
  BY DEF Init, FilesNamed
<1>2. PersistenceInv /\ FilesNamed /\ [Next]_vars => FilesNamed'
  <2>1. ASSUME PersistenceInv, FilesNamed, UNCHANGED files PROVE FilesNamed'
    BY <2>1 DEF FilesNamed
  <2> QED BY <2>1, StepNames DEF Next, Tick, vars, fsVars, Step
<1>3. ASSUME PersistenceInv, FilesNamed PROVE TypeOK
  <2>1. Types /\ FilesOwned
    BY <1>3 DEF PersistenceInv
  <2>2. \A f \in DOMAIN files : files[f].full \in BOOLEAN /\ files[f].by \in Procs
    BY <2>1 DEF FilesOwned
  <2>3. ASSUME NEW p \in Procs
        PROVE  item[p] \in 1 .. IF config[p].raised = "none" THEN LastItem(Cfg(p)) ELSE 1
    <3>1. Place(p)
      BY <1>3 DEF PersistenceInv, ProcessInv
    <3>2. CASE Loaded(p)
      <4>1. LastItem(Cfg(p)) \in Nat \ {0}
        BY <2>1, <3>2, LoadedRegimes
      <4>2. item[p] \in 1 .. LastItem(Cfg(p))
        BY <3>1, <4>1 DEF Place
      <4> QED BY <3>2, <4>2 DEF Loaded
    <3>3. CASE ~Loaded(p)
      BY <3>1, <3>3 DEF Place, Loaded
    <3> QED BY <3>2, <3>3
  <2> QED BY <1>3, <2>1, <2>2, <2>3 DEF TypeOK, Types, FilesNamed, Places
<1>4. Spec => []FilesNamed
  BY <1>1, <1>2, PersistenceInvariant, PTL DEF Spec
<1> QED BY <1>3, <1>4, PersistenceInvariant, PTL

-----------------------------------------------------------------------------
(* No file is published twice.                                             *)

LEMMA CellsDiffer ==
    ASSUME NEW cfg, NEW n \in Nat, NRegimes(cfg) = n, DOMAIN cfg.regimes = 1 .. n,
           \A j, k \in DOMAIN cfg.regimes : j # k => cfg.regimes[j].name # cfg.regimes[k].name,
           NEW c \in 1 .. 3 * n, NEW d \in 1 .. 3 * n, c # d
    PROVE  Cell(cfg, c) # Cell(cfg, d)
<1> SUFFICES ASSUME Cell(cfg, c) = Cell(cfg, d) PROVE FALSE
  OBVIOUS
<1>1. n \in Nat \ {0}
  OBVIOUS
<1>2. PICK q, r, s, t : q = (c - 1) \div n /\ r = (c - 1) % n /\ s = (d - 1) \div n /\ t = (d - 1) % n
  OBVIOUS
<1>3. q + 1 \in 1 .. 3 /\ r + 1 \in 1 .. n /\ s + 1 \in 1 .. 3 /\ t + 1 \in 1 .. n
  BY <1>1, <1>2, CellOfNumber
<1>4. Strategies[q + 1] = Strategies[s + 1] /\ cfg.regimes[r + 1].name = cfg.regimes[t + 1].name
  BY <1>2 DEF Cell
<1>5. q + 1 = s + 1
  BY <1>3, <1>4 DEF Strategies
<1>6. r + 1 = t + 1
  BY <1>3, <1>4
<1>7. c - 1 \in Int /\ d - 1 \in Int
  OBVIOUS
<1>8. /\ q \in Int /\ r \in Int /\ s \in Int /\ t \in Int
      /\ c - 1 = n * q + r /\ d - 1 = n * s + t
  <2>1. q \in Int /\ r \in 0 .. n - 1 /\ c - 1 = n * q + r
    BY <1>1, <1>2, <1>7, DivMod
  <2>2. s \in Int /\ t \in 0 .. n - 1 /\ d - 1 = n * s + t
    BY <1>1, <1>2, <1>7, DivMod
  <2> QED BY <2>1, <2>2
<1>9. q = s /\ r = t
  BY <1>5, <1>6, <1>8
<1> QED BY <1>8, <1>9

LEMMA ItemsDiffer ==
    ASSUME Types, NEW p \in Procs, Loaded(p),
           NEW j \in 1 .. LastItem(Cfg(p)), NEW k \in 1 .. LastItem(Cfg(p)), j < k
    PROVE  Item(Cfg(p), j) # Item(Cfg(p), k)
<1>1. PICK cfg, n : cfg = Cfg(p) /\ n = NRegimes(cfg)
  OBVIOUS
<1>2. n \in Nat /\ DOMAIN cfg.regimes = 1 .. n /\ LastItem(cfg) = 6 * n + 1
  BY <1>1, LoadedRegimes, StrategiesAre DEF LastItem
<1>3. \A i, l \in DOMAIN cfg.regimes : i # l => cfg.regimes[i].name # cfg.regimes[l].name
  <2>1. PICK doc \in ConfigFiles : config[p] = LoadConfig(doc)
    BY DEF Types, Loads
  <2> QED BY <1>1, <2>1, LoadedIsValid DEF Loaded, Cfg
<1>4. j \in 1 .. 6 * n /\ k \in 1 .. 6 * n + 1
  BY <1>1, <1>2
<1>5. Item(cfg, j) = DataItem(cfg, j) /\ Item(cfg, j).kind \in {"paths", "fills"}
  BY <1>2, <1>4, ItemKinds
<1>6. CASE k = 6 * n + 1
  BY <1>1, <1>2, <1>5, <1>6, ItemKinds DEF Manifest
<1>7. CASE k # 6 * n + 1
  <2>1. k \in 1 .. 6 * n /\ Item(cfg, k) = DataItem(cfg, k)
    BY <1>2, <1>4, <1>7, ItemKinds
  <2>2. CASE j % 2 = 1 /\ k % 2 = 1
    <3>1. PICK c, d : c = (j + 1) \div 2 /\ d = (k + 1) \div 2
      OBVIOUS
    <3>2. c \in 1 .. 3 * n /\ d \in 1 .. 3 * n /\ c # d
      <4>1. j + 1 = 2 * c /\ k + 1 = 2 * d /\ c \in Int /\ d \in Int
        BY <1>2, <1>4, <2>1, <2>2, <3>1
      <4> QED BY <1>2, <1>4, <2>1, <4>1
    <3>3. Cell(cfg, c) # Cell(cfg, d)
      BY <1>1, <1>2, <1>3, <3>2, CellsDiffer
    <3> QED BY <1>1, <1>5, <2>1, <2>2, <3>1, <3>3 DEF DataItem
  <2>3. CASE j % 2 # 1 /\ k % 2 # 1
    <3>1. PICK c, d : c = j \div 2 /\ d = k \div 2
      OBVIOUS
    <3>2. c \in 1 .. 3 * n /\ d \in 1 .. 3 * n /\ c # d
      BY <1>2, <1>4, <2>1, <2>3, <3>1
    <3>3. Cell(cfg, c) # Cell(cfg, d)
      BY <1>1, <1>2, <1>3, <3>2, CellsDiffer
    <3> QED BY <1>1, <1>5, <2>1, <2>3, <3>1, <3>3 DEF DataItem
  <2>4. CASE (j % 2 = 1) # (k % 2 = 1)
    BY <1>1, <1>5, <2>1, <2>4 DEF DataItem
  <2> QED BY <2>2, <2>3, <2>4
<1> QED BY <1>6, <1>7

(* The file a process is about to publish is not there yet.                *)
LEMMA FinalPathIsFree ==
    ASSUME PersistenceInv, NEW p \in Procs, pc[p] = "replace"
    PROVE  FinalPath(p) \notin DOMAIN files
<1>1. Types /\ Place(p) /\ Progress(p)
  BY DEF PersistenceInv, ProcessInv
<1>2. /\ runDir[p] # None /\ Loaded(p) /\ item[p] \in 1 .. LastItem(Cfg(p))
      /\ LastItem(Cfg(p)) \in Nat \ {0}
  BY <1>1, LoadedRegimes DEF Place, Writing
<1>3. ~Ended(p)
  BY DEF Ended, Reporting
<1>4. FinalPath(p) = Path(runDir[p], Item(Cfg(p), item[p]), None)
  BY DEF FinalPath, CurrentItem
<1>5. Published(FinalPath(p)) /\ FinalPath(p).dir = runDir[p]
  BY <1>4, ItemKinds, PathIs DEF Published
<1> SUFFICES ASSUME FinalPath(p) \in DOMAIN files PROVE FALSE
  OBVIOUS
<1>6. PICK k \in 1 .. item[p] :
         FinalPath(p) = Path(runDir[p], Item(Cfg(p), k), None) /\ k # item[p]
  BY <1>1, <1>2, <1>3, <1>5 DEF Progress
<1>7. Item(Cfg(p), k) # Item(Cfg(p), item[p])
  <2>1. k < item[p] /\ k \in 1 .. LastItem(Cfg(p))
    BY <1>2, <1>6
  <2> QED BY <1>1, <1>2, <2>1, ItemsDiffer
<1>8. /\ Item(Cfg(p), k).kind = Item(Cfg(p), item[p]).kind
      /\ Item(Cfg(p), k).cell = Item(Cfg(p), item[p]).cell
  <2>1. PICK a, b : a = Item(Cfg(p), k) /\ b = Item(Cfg(p), item[p])
    OBVIOUS
  <2>2. Path(runDir[p], a, None) = Path(runDir[p], b, None)
    BY <1>4, <1>6, <2>1
  <2>3. a.kind = b.kind /\ a.cell = b.cell
    BY <2>2 DEF Path
  <2> QED BY <2>1, <2>3
<1>9. \A i : Item(Cfg(p), i) = [kind |-> Item(Cfg(p), i).kind, cell |-> Item(Cfg(p), i).cell]
  BY DEF Item, DataItem, Manifest
<1> QED BY <1>7, <1>8, <1>9

LEMMA PublishedStays ==
    ASSUME PersistenceInv, NEW p \in Procs, Step(p), NEW f \in DOMAIN files, Published(f)
    PROVE  f \in DOMAIN files' /\ files'[f] = files[f]
<1>1. f.tmp = None /\ ~IsPlot(f) /\ f.kind # "config" /\ p # None
  BY PersistenceAssumption DEF Published, IsPlot
<1>2. ConfigTmp(p).tmp = p /\ TmpPath(p).tmp = p /\ ConfigPath(runDir[p]).kind = "config"
  BY DEF ConfigTmp, TmpPath, ConfigPath, Path, ConfigItem
<1>3. ASSUME NEW path, NEW full, files' = Put(path, full, p), path # f
      PROVE  f \in DOMAIN files' /\ files'[f] = files[f]
  BY <1>3, PutIs
<1>4. ASSUME NEW path, files' = Without(path), path.tmp = p
      PROVE  f \in DOMAIN files' /\ files'[f] = files[f]
  BY <1>1, <1>4, WithoutIs
<1>5. ASSUME NEW path, Cleanup(p, path), path.tmp = p
      PROVE  f \in DOMAIN files' /\ files'[f] = files[f]
  BY <1>4, <1>5 DEF Cleanup
<1>6. CASE Replace(p)
  <2>1. CASE FailsInPersist(p, "replace", 3) /\ Cleanup(p, TmpPath(p))
    BY <1>2, <1>5, <2>1
  <2>2. CASE /\ Goto(p, "replace", IF IsLast(p) THEN "report" ELSE "mkstemp")
             /\ files' = [g \in (DOMAIN files \ {TmpPath(p)}) \cup {FinalPath(p)} |->
                             IF g = FinalPath(p) THEN files[TmpPath(p)] ELSE files[g]]
    <3>1. f # FinalPath(p)
      BY <2>2, FinalPathIsFree DEF Goto
    <3> QED BY <1>1, <1>2, <2>2, <3>1
  <2> QED BY <1>6, <2>1, <2>2 DEF Replace
<1>7. CASE Report(p)
  <2>1. pc[p] = "plot" /\ Loaded(p) /\ Types
    BY <1>7 DEF Report, Exit, Goto, PersistenceInv, ProcessInv, Place
  <2>2. Len(PlotItems(Cfg(p))) \in Nat
    BY <2>1, LoadedRegimes, PlotItemsArePlots
  <2>3. ASSUME NEW k \in Nat, SavePlots(p, k)
        PROVE  f \in DOMAIN files' /\ files'[f] = files[f]
    BY <1>1, <2>1, <2>3, SavePlotsIs DEF Still
  <2> QED BY <1>7, <2>2, <2>3, PersistenceAssumption DEF Report
<1>8. CASE LoadAndRun(p) \/ MakeBaseDir(p) \/ MakeRunDir(p) \/ MakeRunDirWithPid(p) \/ Analyse(p) \/ Killed(p)
  BY <1>8 DEF LoadAndRun, MakeBaseDir, MakeRunDir, MakeRunDirWithPid, Made, Analyse, Killed, fsVars
<1>9. CASE CreateConfigTmp(p) \/ DumpConfig(p)
  BY <1>1, <1>2, <1>3, <1>4, <1>5, <1>9 DEF CreateConfigTmp, DumpConfig
<1>10. CASE OpenConfig(p) \/ FillConfig(p)
  BY <1>1, <1>2, <1>3, <1>10 DEF OpenConfig, FillConfig
<1>11. CASE MakeTmp(p) \/ WriteTmp(p)
  BY <1>1, <1>2, <1>3, <1>5, <1>11 DEF MakeTmp, WriteTmp
<1> QED BY <1>6, <1>7, <1>8, <1>9, <1>10, <1>11 DEF Step, Process

(* No step of any process changes or removes a published file.             *)
THEOREM PublishedFilesAreFinal == Spec => PublishedIsFinal
<1> DEFINE Kept == \A f \in DOMAIN files : Published(f) => f \in DOMAIN files' /\ files'[f] = files[f]
<1>1. PersistenceInv /\ [Next]_vars => [Kept]_vars
  <2>1. ASSUME UNCHANGED files PROVE Kept
    BY <2>1
  <2>2. ASSUME PersistenceInv, NEW p \in Procs, Step(p) PROVE Kept
    BY <2>2, PublishedStays
  <2> HIDE DEF Kept
  <2> QED BY <2>1, <2>2 DEF Next, Tick, fsVars, Step
<1>2. Spec => [][Kept]_vars
  <2> HIDE DEF Kept
  <2> QED BY <1>1, PersistenceInvariant, PTL DEF Spec
<1> QED BY <1>2 DEF PublishedIsFinal

-----------------------------------------------------------------------------
(* What is in the files.                                                   *)

DataKinds == {"config", "paths", "fills"}
DataOf(p, kind, cell) ==
    IF kind = "config" THEN Dump(Cfg(p)) ELSE [table |-> kind, cell |-> RunBacktest(Cfg(p))[cell]]
DataSound ==
    \A f \in DOMAIN files : f.kind \in DataKinds =>
        files[f].data = DataOf(files[f].by, f.kind, f.cell)

LEMMA DataIs ==
    ASSUME NEW p, NEW it, it.kind \in DataKinds
    PROVE  Data(p, it) = DataOf(p, it.kind, it.cell)
  BY DEF Data, DataOf, DataKinds, IsPlot

(* What the call of a process may do to the files.                         *)
Puts == \E q, path, full : files' = Put(path, full, q)
Removes == \E path : files' = Without(path)
LEMMA FileCalls ==
    ASSUME PersistenceInv, NEW p \in Procs, Step(p)
    PROVE  /\ config' = config
           /\ \/ files' = files \/ Puts \/ Removes
              \/ files' = [f \in (DOMAIN files \ {TmpPath(p)}) \cup {FinalPath(p)} |->
                             IF f = FinalPath(p) THEN files[TmpPath(p)] ELSE files[f]]
                 /\ pc[p] = "replace"
              \/ (\E k \in Nat : SavePlots(p, k)) /\ pc[p] = "plot"
<1> USE DEF fsVars, localVars, FailsInPersist, Goto, Exit
<1>1. CASE LoadAndRun(p)
  BY <1>1 DEF LoadAndRun
<1>2. CASE MakeBaseDir(p)
  BY <1>2 DEF MakeBaseDir
<1>3. CASE CreateConfigTmp(p)
  BY <1>3 DEF CreateConfigTmp, Puts
<1>4. CASE DumpConfig(p)
  BY <1>4 DEF DumpConfig, Cleanup, Removes
<1>5. CASE MakeRunDir(p)
  BY <1>5 DEF MakeRunDir, Made
<1>6. CASE MakeRunDirWithPid(p)
  BY <1>6 DEF MakeRunDirWithPid, Made
<1>7. CASE OpenConfig(p)
  BY <1>7 DEF OpenConfig, Puts
<1>8. CASE FillConfig(p)
  BY <1>8 DEF FillConfig, Puts
<1>9. CASE MakeTmp(p)
  BY <1>9 DEF MakeTmp, Puts
<1>10. CASE WriteTmp(p)
  BY <1>10 DEF WriteTmp, Cleanup, Puts, Removes
<1>11. CASE Replace(p)
  BY <1>11 DEF Replace, Cleanup, Removes
<1>12. CASE Analyse(p)
  BY <1>12 DEF Analyse
<1>13. CASE Report(p)
  <2>1. pc[p] = "plot" /\ Loaded(p) /\ Types
    BY <1>13 DEF Report, PersistenceInv, ProcessInv, Place
  <2>2. Len(PlotItems(Cfg(p))) \in Nat
    BY <2>1, LoadedRegimes, PlotItemsArePlots
  <2> QED BY <1>13, <2>2, PersistenceAssumption DEF Report
<1>14. CASE Killed(p)
  BY <1>14 DEF Killed
<1> QED BY <1>1, <1>2, <1>3, <1>4, <1>5, <1>6, <1>7, <1>8, <1>9, <1>10, <1>11, <1>12, <1>13,
           <1>14 DEF Step, Process

LEMMA PutSound ==
    ASSUME DataSound, NEW q, NEW path, NEW full, files' = Put(path, full, q)
    PROVE  \A f \in DOMAIN files' : f.kind \in DataKinds =>
               files'[f].data = DataOf(files'[f].by, f.kind, f.cell)
<1> SUFFICES ASSUME NEW f \in DOMAIN files', f.kind \in DataKinds
             PROVE  files'[f].data = DataOf(files'[f].by, f.kind, f.cell)
  OBVIOUS
<1>1. CASE f = path
  <2>1. files'[f] = [full |-> full, by |-> q, data |-> Data(q, [kind |-> f.kind, cell |-> f.cell])]
    BY <1>1 DEF Put
  <2>2. Data(q, [kind |-> f.kind, cell |-> f.cell]) = DataOf(q, f.kind, f.cell)
    BY DataIs
  <2> QED BY <2>1, <2>2
<1>2. CASE f # path
  <2>1. f \in DOMAIN files /\ files'[f] = files[f]
    BY <1>2 DEF Put
  <2> QED BY <2>1 DEF DataSound
<1> QED BY <1>1, <1>2

LEMMA ReplacedSound ==
    ASSUME PersistenceInv, DataSound, NEW p \in Procs, pc[p] = "replace",
           files' = [f \in (DOMAIN files \ {TmpPath(p)}) \cup {FinalPath(p)} |->
                         IF f = FinalPath(p) THEN files[TmpPath(p)] ELSE files[f]]
    PROVE  \A f \in DOMAIN files' : f.kind \in DataKinds =>
               files'[f].data = DataOf(files'[f].by, f.kind, f.cell)
<1>1. TmpPath(p) \in DOMAIN files
  BY DEF PersistenceInv, ProcessInv, Temporaries, Has
<1>2. TmpPath(p).kind = FinalPath(p).kind /\ TmpPath(p).cell = FinalPath(p).cell
  BY DEF TmpPath, FinalPath, Path
<1> SUFFICES ASSUME NEW f \in DOMAIN files', f.kind \in DataKinds
             PROVE  files'[f].data = DataOf(files'[f].by, f.kind, f.cell)
  OBVIOUS
<1>3. CASE f = FinalPath(p)
  <2>1. files'[f] = files[TmpPath(p)]
    BY <1>3
  <2> QED BY <1>1, <1>2, <1>3, <2>1 DEF DataSound
<1>4. CASE f # FinalPath(p)
  <2>1. f \in DOMAIN files /\ files'[f] = files[f]
    BY <1>4
  <2> QED BY <2>1 DEF DataSound
<1> QED BY <1>3, <1>4

LEMMA PlotsSound ==
    ASSUME PersistenceInv, DataSound, NEW p \in Procs, pc[p] = "plot", NEW k \in Nat,
           SavePlots(p, k)
    PROVE  \A f \in DOMAIN files' : f.kind \in DataKinds =>
               files'[f].data = DataOf(files'[f].by, f.kind, f.cell)
<1> SUFFICES ASSUME NEW f \in DOMAIN files', f.kind \in DataKinds
             PROVE  files'[f].data = DataOf(files'[f].by, f.kind, f.cell)
  OBVIOUS
<1>1. ~IsPlot(f)
  BY DEF IsPlot, DataKinds
<1>2. f \in DOMAIN files /\ files'[f] = files[f]
  BY <1>1, SavePlotsIs DEF Still
<1> QED BY <1>2 DEF DataSound

LEMMA DataSoundStep ==
    ASSUME PersistenceInv, DataSound, NEW p \in Procs, Step(p)
    PROVE  DataSound'
<1>1. config' = config
  BY FileCalls
<1>2. \A f \in DOMAIN files' : f.kind \in DataKinds =>
          files'[f].data = DataOf(files'[f].by, f.kind, f.cell)
  <2>1. CASE files' = files
    BY <2>1 DEF DataSound
  <2>2. CASE Puts
    BY <2>2, PutSound DEF Puts
  <2>3. CASE Removes
    <3>1. PICK path : files' = Without(path)
      BY <2>3 DEF Removes
    <3>2. \A f \in DOMAIN files' : f \in DOMAIN files /\ files'[f] = files[f]
      BY <3>1 DEF Without, Restrict
    <3> QED BY <3>2 DEF DataSound
  <2>4. CASE /\ files' = [f \in (DOMAIN files \ {TmpPath(p)}) \cup {FinalPath(p)} |->
                             IF f = FinalPath(p) THEN files[TmpPath(p)] ELSE files[f]]
             /\ pc[p] = "replace"
    BY <2>4, ReplacedSound
  <2>5. CASE (\E k \in Nat : SavePlots(p, k)) /\ pc[p] = "plot"
    BY <2>5, PlotsSound
  <2> QED BY <2>1, <2>2, <2>3, <2>4, <2>5, FileCalls
<1> QED BY <1>1, <1>2 DEF DataSound, DataOf, Cfg

LEMMA DataInvariant == Spec => []DataSound
<1>1. Init => DataSound
  <2>1. DOMAIN <<>> = {}
    OBVIOUS
  <2> QED BY <2>1 DEF Init, DataSound
<1>2. PersistenceInv /\ DataSound /\ [Next]_vars => DataSound'
  <2>1. ASSUME DataSound, UNCHANGED <<files, config>> PROVE DataSound'
    BY <2>1 DEF DataSound, DataOf, Cfg
  <2>2. ASSUME PersistenceInv, DataSound, NEW p \in Procs, Step(p) PROVE DataSound'
    BY <2>2, DataSoundStep
  <2> QED BY <2>1, <2>2 DEF Next, Tick, fsVars, localVars, vars, Step
<1> QED BY <1>1, <1>2, PersistenceInvariant, PTL DEF Spec

-----------------------------------------------------------------------------
(* The streams of a run: a sequence of numbers below the master seed, four *)
(* long for a path and five long for a bootstrap.                          *)

Streams(cfg) == Seq(Int \cup {cfg.master_seed})
PathStream(cfg, r, k, use) ==
    Append(Append(Append(<<cfg.master_seed>>, r - 1), k - 1), use)
BootStream(cfg, n, r, b, m) ==
    Append(Append(Append(Append(<<cfg.master_seed>>, n), r - 1), b - 1), m - 1)

LEMMA AppendNumber ==
    ASSUME NEW cfg, NEW s \in Streams(cfg), NEW e \in Int
    PROVE  Append(s, e) \in Streams(cfg) /\ Len(Append(s, e)) = Len(s) + 1
  BY AppendProperties DEF Streams

LEMMA AppendDiffers ==
    ASSUME NEW cfg, NEW s \in Streams(cfg), NEW t \in Streams(cfg), NEW e \in Int, NEW f \in Int,
           Append(s, e) = Append(t, f)
    PROVE  s = t /\ e = f
  BY AppendInjective DEF Streams

LEMMA RootIsStream ==
    ASSUME NEW cfg
    PROVE  <<cfg.master_seed>> \in Streams(cfg) /\ Len(<<cfg.master_seed>>) = 1
<1> DEFINE S == Int \cup {cfg.master_seed}
<1>1. <<cfg.master_seed>> \in Seq(S) /\ Len(<<cfg.master_seed>>) = 1
  OBVIOUS
<1> QED BY <1>1 DEF Streams

LEMMA PathStreamsDiffer ==
    ASSUME NEW cfg, NEW r \in Int, NEW k \in Int, NEW u \in Int,
           NEW q \in Int, NEW l \in Int, NEW v \in Int,
           PathStream(cfg, r, k, u) = PathStream(cfg, q, l, v)
    PROVE  r = q /\ k = l /\ u = v
<1>1. PICK root : root = <<cfg.master_seed>>
  OBVIOUS
<1>2. PICK rs, rt : rs = Append(root, r - 1) /\ rt = Append(root, q - 1)
  OBVIOUS
<1>3. PICK ks, kt : ks = Append(rs, k - 1) /\ kt = Append(rt, l - 1)
  OBVIOUS
<1>4. root \in Streams(cfg)
  BY <1>1, RootIsStream
<1>5. r - 1 \in Int /\ q - 1 \in Int /\ k - 1 \in Int /\ l - 1 \in Int
  OBVIOUS
<1>6. rs \in Streams(cfg) /\ rt \in Streams(cfg)
  BY <1>2, <1>4, <1>5, AppendNumber
<1>7. ks \in Streams(cfg) /\ kt \in Streams(cfg)
  BY <1>3, <1>5, <1>6, AppendNumber
<1>8. Append(ks, u) = Append(kt, v)
  BY <1>1, <1>2, <1>3 DEF PathStream
<1>9. ks = kt /\ u = v
  BY <1>7, <1>8, AppendDiffers
<1>10. rs = rt /\ k - 1 = l - 1
  BY <1>3, <1>5, <1>6, <1>9, AppendDiffers
<1>11. r - 1 = q - 1
  BY <1>2, <1>4, <1>5, <1>10, AppendDiffers
<1> QED BY <1>9, <1>10, <1>11

LEMMA BootStreamsDiffer ==
    ASSUME NEW cfg, NEW n \in Int, NEW r \in Int, NEW b \in Int, NEW m \in Int,
           NEW q \in Int, NEW c \in Int, NEW l \in Int,
           BootStream(cfg, n, r, b, m) = BootStream(cfg, n, q, c, l)
    PROVE  r = q /\ b = c /\ m = l
<1>1. PICK root : root = Append(<<cfg.master_seed>>, n)
  OBVIOUS
<1>2. PICK rs, rt : rs = Append(root, r - 1) /\ rt = Append(root, q - 1)
  OBVIOUS
<1>3. PICK bs, bt : bs = Append(rs, b - 1) /\ bt = Append(rt, c - 1)
  OBVIOUS
<1>4. root \in Streams(cfg)
  BY <1>1, RootIsStream, AppendNumber
<1>5. r - 1 \in Int /\ q - 1 \in Int /\ b - 1 \in Int /\ c - 1 \in Int /\ m - 1 \in Int /\ l - 1 \in Int
  OBVIOUS
<1>6. rs \in Streams(cfg) /\ rt \in Streams(cfg)
  BY <1>2, <1>4, <1>5, AppendNumber
<1>7. bs \in Streams(cfg) /\ bt \in Streams(cfg)
  BY <1>3, <1>5, <1>6, AppendNumber
<1>8. Append(bs, m - 1) = Append(bt, l - 1)
  BY <1>1, <1>2, <1>3 DEF BootStream
<1>9. bs = bt /\ m - 1 = l - 1
  BY <1>5, <1>7, <1>8, AppendDiffers
<1>10. rs = rt /\ b - 1 = c - 1
  BY <1>3, <1>5, <1>6, <1>9, AppendDiffers
<1>11. r - 1 = q - 1
  BY <1>2, <1>4, <1>5, <1>10, AppendDiffers
<1> QED BY <1>9, <1>10, <1>11

LEMMA BootIsNoPath ==
    ASSUME NEW cfg, NEW n \in Int, NEW r \in Int, NEW b \in Int, NEW m \in Int,
           NEW q \in Int, NEW k \in Int, NEW u \in Int
    PROVE  BootStream(cfg, n, r, b, m) # PathStream(cfg, q, k, u)
<1>1. PICK root, rs : root = <<cfg.master_seed>> /\ rs = Append(root, q - 1)
  OBVIOUS
<1>2. PICK ks : ks = Append(rs, k - 1)
  OBVIOUS
<1>3. PICK ns, bs, ms : ns = Append(root, n) /\ bs = Append(ns, r - 1) /\ ms = Append(bs, b - 1)
  OBVIOUS
<1>4. root \in Streams(cfg)
  BY <1>1, RootIsStream
<1>5. r - 1 \in Int /\ q - 1 \in Int /\ b - 1 \in Int /\ k - 1 \in Int /\ m - 1 \in Int
  OBVIOUS
<1>6. rs \in Streams(cfg) /\ ns \in Streams(cfg)
  BY <1>1, <1>3, <1>4, <1>5, AppendNumber
<1>7. ks \in Streams(cfg) /\ bs \in Streams(cfg)
  BY <1>2, <1>3, <1>5, <1>6, AppendNumber
<1>8. ms \in Streams(cfg)
  BY <1>3, <1>5, <1>7, AppendNumber
<1>9. SUFFICES ASSUME Append(ms, m - 1) = Append(ks, u) PROVE FALSE
  BY <1>1, <1>2, <1>3 DEF BootStream, PathStream
<1>10. ms = ks
  BY <1>5, <1>7, <1>8, <1>9, AppendDiffers
<1>11. bs = rs
  <2>1. Append(bs, b - 1) = Append(rs, k - 1)
    BY <1>2, <1>3, <1>10
  <2> QED BY <1>5, <1>6, <1>7, <2>1, AppendDiffers
<1>12. ns = root
  <2>1. Append(ns, r - 1) = Append(root, q - 1)
    BY <1>1, <1>3, <1>11
  <2> QED BY <1>4, <1>5, <1>6, <2>1, AppendDiffers
<1>13. Len(ns) = Len(root) + 1
  BY <1>3, <1>4, AppendNumber
<1>14. Len(root) = 1
  BY <1>1, RootIsStream
<1> QED BY <1>12, <1>13, <1>14

(* A configuration that runs: its regimes are n and differ by name, its    *)
(* paths are m, of w steps.                                                *)
Runs(cfg, n, m, w) ==
    /\ n \in Nat /\ m \in Nat /\ w \in Nat
    /\ NRegimes(cfg) = n /\ DOMAIN cfg.regimes = 1 .. n /\ cfg.n_paths = m /\ Steps(cfg) = w
    /\ \A j, k \in 1 .. n : j # k => cfg.regimes[j].name # cfg.regimes[k].name

LEMMA SeedsAre ==
    ASSUME NEW cfg, NEW n, NEW m, NEW w, Runs(cfg, n, m, w), NEW r \in 1 .. n, NEW k \in 1 .. m
    PROVE  /\ PathSeeds(cfg, r, k).mid = PathStream(cfg, r, k, 0)
           /\ PathSeeds(cfg, r, k).fill = PathStream(cfg, r, k, 1)
<1>1. RootChildren(cfg)[r] = Append(<<cfg.master_seed>>, r - 1)
  BY DEF Runs, RootChildren, Spawn
<1>2. Spawn(RootChildren(cfg)[r], cfg.n_paths)[k] = Append(RootChildren(cfg)[r], k - 1)
  BY DEF Runs, Spawn
<1>3. \A ss : Spawn(ss, 2)[1] = Append(ss, 0) /\ Spawn(ss, 2)[2] = Append(ss, 1)
  BY DEF Spawn
<1> QED BY <1>1, <1>2, <1>3 DEF PathSeeds, PathStream

LEMMA BootSeedsAre ==
    ASSUME NEW cfg, NEW n, NEW m, NEW w, Runs(cfg, n, m, w),
           NEW r \in 1 .. n, NEW b \in 1 .. 2, NEW l \in 1 .. 2
    PROVE  BootstrapSeed(cfg, r, b, l) = BootStream(cfg, n, r, b, l)
<1>1. AnalyticsSeed(cfg) = Append(<<cfg.master_seed>>, n)
  BY DEF Runs, AnalyticsSeed, RootChildren, Spawn
<1>2. \A ss : Spawn(ss, n)[r] = Append(ss, r - 1)
  BY DEF Spawn
<1>3. \A ss : Spawn(ss, 2)[b] = Append(ss, b - 1) /\ Spawn(ss, 2)[l] = Append(ss, l - 1)
  BY DEF Spawn
<1> QED BY ZenonT(60), <1>1, <1>2, <1>3 DEF BootstrapSeed, BootStream, Runs

(* The draws of a run.                                                     *)
MidDraw(cfg, r, k) ==
    [use |-> <<"mid", cfg.regimes[r].name, k>>, draw |-> Draw(PathStream(cfg, r, k, 0), 0, Steps(cfg))]
BidDraw(cfg, r, k) ==
    [use |-> <<"bid", cfg.regimes[r].name, k>>, draw |-> Draw(PathStream(cfg, r, k, 1), 0, Steps(cfg))]
AskDraw(cfg, r, k) ==
    [use |-> <<"ask", cfg.regimes[r].name, k>>,
     draw |-> Draw(PathStream(cfg, r, k, 1), Steps(cfg), Steps(cfg))]
BootDraw(cfg, n, r, b, l) ==
    [use |-> <<"bootstrap", r, b, l>>, draw |-> Draw(BootStream(cfg, n, r, b, l), 0, 1)]

IsBootDraw(cfg, n, d) == \E r \in 1 .. n, b \in 1 .. 2, l \in 1 .. 2 : d = BootDraw(cfg, n, r, b, l)
IsPathDraw(cfg, n, m, d) ==
    \E r \in 1 .. n, k \in 1 .. m :
        d = MidDraw(cfg, r, k) \/ d = BidDraw(cfg, r, k) \/ d = AskDraw(cfg, r, k)

LEMMA CellIs ==
    ASSUME NEW cfg, NEW n, NEW m, NEW w, Runs(cfg, n, m, w),
           NEW s \in Range(Strategies), NEW r \in 1 .. n
    PROVE  /\ <<s, cfg.regimes[r].name>> \in DOMAIN RunBacktest(cfg)
           /\ RunBacktest(cfg)[<<s, cfg.regimes[r].name>>] = [k \in 1 .. m |-> RunPath(cfg, r, s, k)]
<1>1. PICK cell, regimes, names :
        /\ cell = <<s, cfg.regimes[r].name>> /\ regimes = DOMAIN cfg.regimes
        /\ names = {cfg.regimes[q].name : q \in regimes}
  OBVIOUS
<1> DEFINE Of(c) == CHOOSE k \in regimes :
                      /\ cfg.regimes[k].name = c[2]
                      /\ \A j \in regimes : cfg.regimes[j].name = c[2] => j <= k
<1>2. cell \in Range(Strategies) \X names /\ cell[1] = s /\ cell[2] = cfg.regimes[r].name
  BY <1>1 DEF Runs
<1>3. Of(cell) = r
  <2>1. r \in regimes /\ r \in Int
    BY <1>1 DEF Runs
  <2>2. \A j \in regimes : cfg.regimes[j].name = cell[2] => j = r
    BY <1>1, <1>2 DEF Runs
  <2>3. \A j \in regimes : cfg.regimes[j].name = cell[2] => j <= r
    BY <2>1, <2>2
  <2> QED BY <1>2, <2>1, <2>2, <2>3
<1>4. RunBacktest(cfg) =
        [c \in Range(Strategies) \X names |-> [k \in 1 .. cfg.n_paths |-> RunPath(cfg, Of(c), c[1], k)]]
  BY <1>1 DEF RunBacktest
<1> HIDE DEF Of
<1>5. RunBacktest(cfg)[cell] = [k \in 1 .. cfg.n_paths |-> RunPath(cfg, Of(cell), cell[1], k)]
  BY <1>2, <1>4
<1> QED BY <1>1, <1>2, <1>3, <1>4, <1>5 DEF Runs

LEMMA PathDrawsAre ==
    ASSUME NEW cfg, NEW n, NEW m, NEW w, Runs(cfg, n, m, w),
           NEW s, NEW r \in 1 .. n, NEW k \in 1 .. m
    PROVE  PathDraws(<<s, cfg.regimes[r].name>>, RunPath(cfg, r, s, k)) =
               {MidDraw(cfg, r, k), BidDraw(cfg, r, k), AskDraw(cfg, r, k)}
<1>1. PICK path : path = RunPath(cfg, r, s, k)
  OBVIOUS
<1>2. path.path = k /\ path.mid.draws = Draw(PathStream(cfg, r, k, 0), 0, Steps(cfg))
  BY <1>1, SeedsAre DEF RunPath, MidPath
<1>3. /\ path.uniforms.bid = Draw(PathStream(cfg, r, k, 1), 0, Steps(cfg))
      /\ path.uniforms.ask = Draw(PathStream(cfg, r, k, 1), Steps(cfg), Steps(cfg))
  BY <1>1, SeedsAre DEF RunPath, Uniforms, FillSeed
<1> QED BY <1>1, <1>2, <1>3 DEF PathDraws, MidDraw, BidDraw, AskDraw

LEMMA RunDrawsAre ==
    ASSUME NEW cfg, NEW n, NEW m, NEW w, Runs(cfg, n, m, w), NEW d \in RunDraws(cfg)
    PROVE  IsBootDraw(cfg, n, d) \/ IsPathDraw(cfg, n, m, d)
<1>1. CASE d \in BootstrapDraws(cfg)
  <2>1. PICK r \in 1 .. n, b \in 1 .. 2, l \in 1 .. 2 :
          d = [use |-> <<"bootstrap", r, b, l>>, draw |-> Draw(BootstrapSeed(cfg, r, b, l), 0, 1)]
    BY <1>1 DEF BootstrapDraws, Runs
  <2>2. d = BootDraw(cfg, n, r, b, l)
    BY <2>1, BootSeedsAre DEF BootDraw
  <2> QED BY <2>2 DEF IsBootDraw
<1>2. CASE d \notin BootstrapDraws(cfg)
  <2>1. PICK cell \in DOMAIN RunBacktest(cfg), k \in 1 .. m : d \in PathDraws(cell, RunBacktest(cfg)[cell][k])
    BY <1>2 DEF RunDraws, Runs
  <2>2. cell \in Range(Strategies) \X {cfg.regimes[r].name : r \in DOMAIN cfg.regimes}
    BY <2>1 DEF RunBacktest
  <2>3. PICK s \in Range(Strategies), r \in 1 .. n : cell = <<s, cfg.regimes[r].name>>
    BY <2>2 DEF Runs
  <2>4. RunBacktest(cfg)[cell][k] = RunPath(cfg, r, s, k)
    <3>1. RunBacktest(cfg)[cell] = [h \in 1 .. m |-> RunPath(cfg, r, s, h)]
      BY <2>3, CellIs
    <3> QED BY <2>1, <3>1
  <2>5. d \in {MidDraw(cfg, r, k), BidDraw(cfg, r, k), AskDraw(cfg, r, k)}
    BY <2>1, <2>3, <2>4, PathDrawsAre
  <2> QED BY <2>5 DEF IsPathDraw
<1> QED BY <1>1, <1>2

(* No number is drawn for two uses.                                        *)
LEMMA DrawnOnce ==
    ASSUME NEW cfg, NEW n, NEW m, NEW w, Runs(cfg, n, m, w),
           NEW d \in RunDraws(cfg), NEW e \in RunDraws(cfg), Overlap(d.draw, e.draw)
    PROVE  d.use = e.use
<1>1. d.draw.stream = e.draw.stream
  BY DEF Overlap
<1>2. CASE IsBootDraw(cfg, n, d) /\ IsBootDraw(cfg, n, e)
  <2>1. PICK r \in 1 .. n, b \in 1 .. 2, l \in 1 .. 2 : d = BootDraw(cfg, n, r, b, l)
    BY <1>2 DEF IsBootDraw
  <2>2. PICK q \in 1 .. n, c \in 1 .. 2, h \in 1 .. 2 : e = BootDraw(cfg, n, q, c, h)
    BY <1>2 DEF IsBootDraw
  <2>3. BootStream(cfg, n, r, b, l) = BootStream(cfg, n, q, c, h)
    BY <1>1, <2>1, <2>2 DEF BootDraw, Draw
  <2>4. n \in Int
    BY DEF Runs
  <2>5. r = q /\ b = c /\ l = h
    BY <2>3, <2>4, BootStreamsDiffer
  <2> QED BY <2>1, <2>2, <2>5
<1>3. ASSUME NEW x, NEW y, IsBootDraw(cfg, n, x), IsPathDraw(cfg, n, m, y)
      PROVE  x.draw.stream # y.draw.stream
  <2>1. PICK r \in 1 .. n, b \in 1 .. 2, l \in 1 .. 2 : x = BootDraw(cfg, n, r, b, l)
    BY <1>3 DEF IsBootDraw
  <2>2. PICK q \in 1 .. n, k \in 1 .. m :
          y = MidDraw(cfg, q, k) \/ y = BidDraw(cfg, q, k) \/ y = AskDraw(cfg, q, k)
    BY <1>3 DEF IsPathDraw
  <2>3. x.draw.stream = BootStream(cfg, n, r, b, l)
    BY <2>1 DEF BootDraw, Draw
  <2>4. \E u \in {0, 1} : y.draw.stream = PathStream(cfg, q, k, u)
    BY <2>2 DEF MidDraw, BidDraw, AskDraw, Draw
  <2>5. n \in Int
    BY DEF Runs
  <2> QED BY <2>3, <2>4, <2>5, BootIsNoPath
<1>4. CASE IsPathDraw(cfg, n, m, d) /\ IsPathDraw(cfg, n, m, e)
  <2>1. PICK r \in 1 .. n, k \in 1 .. m :
          d = MidDraw(cfg, r, k) \/ d = BidDraw(cfg, r, k) \/ d = AskDraw(cfg, r, k)
    BY <1>4 DEF IsPathDraw
  <2>2. PICK q \in 1 .. n, l \in 1 .. m :
          e = MidDraw(cfg, q, l) \/ e = BidDraw(cfg, q, l) \/ e = AskDraw(cfg, q, l)
    BY <1>4 DEF IsPathDraw
  <2>3. \A x, y : MidDraw(cfg, x, y).draw.stream = PathStream(cfg, x, y, 0)
    BY DEF MidDraw, Draw
  <2>4. \A x, y : /\ BidDraw(cfg, x, y).draw.stream = PathStream(cfg, x, y, 1)
                  /\ AskDraw(cfg, x, y).draw.stream = PathStream(cfg, x, y, 1)
    BY DEF BidDraw, AskDraw, Draw
  <2>5. \A u, v \in {0, 1} : PathStream(cfg, r, k, u) = PathStream(cfg, q, l, v) => r = q /\ k = l /\ u = v
    BY PathStreamsDiffer
  <2>6. r = q /\ k = l
    BY <1>1, <2>1, <2>2, <2>3, <2>4, <2>5
  <2>7. CASE d = MidDraw(cfg, r, k)
    BY <1>1, <2>2, <2>3, <2>4, <2>5, <2>6, <2>7
  <2>8. CASE e = MidDraw(cfg, r, k)
    BY <1>1, <2>1, <2>3, <2>4, <2>5, <2>6, <2>8
  <2>9. ~Overlap(BidDraw(cfg, r, k).draw, AskDraw(cfg, r, k).draw)
    BY DEF Overlap, BidDraw, AskDraw, Draw, Runs
  <2>10. ~Overlap(AskDraw(cfg, r, k).draw, BidDraw(cfg, r, k).draw)
    BY DEF Overlap, BidDraw, AskDraw, Draw, Runs
  <2> QED BY <2>1, <2>2, <2>6, <2>7, <2>8, <2>9, <2>10
<1> QED BY <1>1, <1>2, <1>3, <1>4, RunDrawsAre

LEMMA MidsDiffer ==
    ASSUME NEW cfg, NEW n, NEW m, NEW w, Runs(cfg, n, m, w),
           NEW r \in 1 .. n, NEW k \in 1 .. m, NEW q \in 1 .. n, NEW l \in 1 .. m,
           MidPath(cfg, r, k) = MidPath(cfg, q, l)
    PROVE  r = q /\ k = l
<1>1. MidPath(cfg, r, k).draws.stream = PathStream(cfg, r, k, 0)
  BY SeedsAre DEF MidPath, Draw
<1>2. MidPath(cfg, q, l).draws.stream = PathStream(cfg, q, l, 0)
  BY SeedsAre DEF MidPath, Draw
<1>3. PathStream(cfg, r, k, 0) = PathStream(cfg, q, l, 0)
  BY <1>1, <1>2
<1>4. m \in Int /\ n \in Int
  BY DEF Runs
<1> QED BY <1>3, <1>4, PathStreamsDiffer

-----------------------------------------------------------------------------
(* A manifest tells whose run lies in its directory.                       *)

LEMMA ManifestRun ==
    ASSUME PersistenceInv, NEW dir \in dirs, HasManifest(dir),
           NEW p, p = files[Path(dir, Manifest, None)].by
    PROVE  /\ p \in Procs /\ Loaded(p)
           /\ \A it \in DataItems(Cfg(p)) :
                 Path(dir, it, None) \in DOMAIN files /\ files[Path(dir, it, None)].by = p
<1>1. Path(dir, Manifest, None) \in DOMAIN files
  BY DEF HasManifest
<1>2. Path(dir, Manifest, None).tmp = None /\ Path(dir, Manifest, None).dir = dir
  BY PathIs
<1>3. p \in Procs /\ runDir[p] = dir
  BY <1>1, <1>2 DEF PersistenceInv, FilesOwned
<1>4. runDir[p] # None
  BY <1>3, NewDirIsRunDir, PersistenceAssumption DEF PersistenceInv, Types, RunDirs
<1>5. Loaded(p)
  BY <1>3, <1>4 DEF PersistenceInv, ProcessInv, Place
<1>6. \A it \in DataItems(Cfg(p)) : Complete(dir, it, p)
  BY ManifestVouches DEF ManifestMeansComplete
<1> QED BY <1>3, <1>5, <1>6 DEF Complete

LEMMA ConfigRuns ==
    ASSUME Types, NEW p \in Procs, Loaded(p)
    PROVE  Runs(Cfg(p), NRegimes(Cfg(p)), Cfg(p).n_paths, Steps(Cfg(p)))
<1>1. PICK doc \in ConfigFiles : config[p] = LoadConfig(doc)
  BY DEF Types, Loads
<1>2. PICK cfg : cfg = Cfg(p) /\ cfg = LoadConfig(doc).config
  BY <1>1 DEF Cfg
<1>3. Steps(cfg) \in Nat /\ cfg.n_paths \in Nat
  BY <1>1, <1>2, PersistenceAssumption DEF Loaded
<1>4. \A j, k \in DOMAIN cfg.regimes : j # k => cfg.regimes[j].name # cfg.regimes[k].name
  BY <1>1, <1>2, LoadedIsValid DEF Loaded
<1>5. NRegimes(cfg) \in Nat /\ DOMAIN cfg.regimes = 1 .. NRegimes(cfg)
  BY <1>2, LoadedRegimes
<1> QED BY <1>2, <1>3, <1>4, <1>5 DEF Runs

(* The paths file of a cell holds the paths of the run.                    *)
OnDisk(dir, cfg, s, r) == DataIn(dir, [kind |-> "paths", cell |-> <<s, cfg.regimes[r].name>>]).cell

ManifestOf(dir, p, cfg) ==
    HasManifest(dir) /\ p = files[Path(dir, Manifest, None)].by /\ cfg = Cfg(p)

LEMMA OnDiskIs ==
    ASSUME PersistenceInv, DataSound, NEW dir \in dirs,
           NEW p, NEW cfg, ManifestOf(dir, p, cfg), NEW n, NEW m, NEW w, Runs(cfg, n, m, w),
           NEW s \in Range(Strategies), NEW r \in 1 .. n
    PROVE  OnDisk(dir, cfg, s, r) = [k \in 1 .. m |-> RunPath(cfg, r, s, k)]
<1>1. PICK it, cell : it = [kind |-> "paths", cell |-> cell] /\ cell = <<s, cfg.regimes[r].name>>
  OBVIOUS
<1>2. it \in DataItems(cfg)
  BY SMTT(30), <1>1 DEF DataItems, Runs
<1>3. PICK path : path = Path(dir, it, None)
  OBVIOUS
<1>4. path \in DOMAIN files /\ files[path].by = p
  BY <1>2, <1>3, ManifestRun DEF ManifestOf
<1>5. path.kind = "paths" /\ path.cell = cell
  BY <1>1, <1>3 DEF Path
<1>6. files[path].data = DataOf(p, "paths", cell)
  BY <1>4, <1>5 DEF DataSound, DataKinds
<1>7. DataOf(p, "paths", cell).cell = RunBacktest(cfg)[cell]
  BY DEF DataOf, ManifestOf
<1>8. OnDisk(dir, cfg, s, r) = RunBacktest(cfg)[cell]
  BY <1>1, <1>3, <1>6, <1>7 DEF OnDisk, DataIn
<1> QED BY <1>1, <1>8, CellIs

LEMMA ManifestPairs ==
    ASSUME PersistenceInv, DataSound
    PROVE  PairedAndIndependent
<1> DEFINE Good(dir, cfg) ==
             LET Indices == (DOMAIN cfg.regimes) \X (1 .. cfg.n_paths)
             IN  /\ \A s, t \in Range(Strategies), i, j \in Indices :
                       OnDisk(dir, cfg, s, i[1])[i[2]].mid = OnDisk(dir, cfg, t, j[1])[j[2]].mid
                           <=> i = j
                 /\ \A s, t \in Range(Strategies), i \in Indices :
                       OnDisk(dir, cfg, s, i[1])[i[2]].uniforms
                           = OnDisk(dir, cfg, t, i[1])[i[2]].uniforms
                 /\ \A d, e \in RunDraws(cfg) : Overlap(d.draw, e.draw) => d.use = e.use
<1> SUFFICES ASSUME NEW dir \in dirs, HasManifest(dir)
             PROVE  Good(dir, Cfg(files[Path(dir, Manifest, None)].by))
  BY DEF PairedAndIndependent, OnDisk
<1>1. PICK p, cfg : p = files[Path(dir, Manifest, None)].by /\ cfg = Cfg(p)
  OBVIOUS
<1>2. ManifestOf(dir, p, cfg)
  BY <1>1 DEF ManifestOf
<1>3. PICK n, m, w : Runs(cfg, n, m, w)
  BY <1>1, ManifestRun, ConfigRuns DEF PersistenceInv
<1>4. ASSUME NEW s \in Range(Strategies), NEW i \in (DOMAIN cfg.regimes) \X (1 .. cfg.n_paths)
      PROVE  /\ i[1] \in 1 .. n /\ i[2] \in 1 .. m /\ i = <<i[1], i[2]>>
             /\ OnDisk(dir, cfg, s, i[1])[i[2]].mid = MidPath(cfg, i[1], i[2])
             /\ OnDisk(dir, cfg, s, i[1])[i[2]].uniforms = Uniforms(PathSeeds(cfg, i[1], i[2]).fill, Steps(cfg))
  <2>1. i[1] \in 1 .. n /\ i[2] \in 1 .. m /\ i = <<i[1], i[2]>>
    BY <1>3, <1>4 DEF Runs
  <2>2. OnDisk(dir, cfg, s, i[1]) = [k \in 1 .. m |-> RunPath(cfg, i[1], s, k)]
    BY <1>2, <1>3, <2>1, OnDiskIs
  <2>3. OnDisk(dir, cfg, s, i[1])[i[2]] = RunPath(cfg, i[1], s, i[2])
    BY <2>1, <2>2
  <2> QED BY <2>1, <2>3 DEF RunPath, FillSeed
<1>5. ASSUME NEW s \in Range(Strategies), NEW t \in Range(Strategies),
             NEW i \in (DOMAIN cfg.regimes) \X (1 .. cfg.n_paths),
             NEW j \in (DOMAIN cfg.regimes) \X (1 .. cfg.n_paths)
      PROVE  OnDisk(dir, cfg, s, i[1])[i[2]].mid = OnDisk(dir, cfg, t, j[1])[j[2]].mid <=> i = j
  <2>1. CASE i = j
    BY <1>4, <2>1
  <2>2. CASE MidPath(cfg, i[1], i[2]) = MidPath(cfg, j[1], j[2])
    <3>1. i[1] = j[1] /\ i[2] = j[2]
      BY <1>3, <1>4, <2>2, MidsDiffer
    <3> QED BY <1>4, <2>1, <3>1
  <2> QED BY <1>4, <2>1, <2>2
<1>6. ASSUME NEW d \in RunDraws(cfg), NEW e \in RunDraws(cfg), Overlap(d.draw, e.draw)
      PROVE  d.use = e.use
  BY <1>3, <1>6, DrawnOnce
<1>7. Good(dir, cfg)
  BY <1>4, <1>5, <1>6
<1> QED BY <1>1, <1>7

(* In a finished run the strategies of a regime are compared on the same   *)
(* mids and the same uniforms, no two of its paths share their mids, and   *)
(* no number is drawn for two uses, however many regimes and paths there   *)
(* are and however the streams are numbered.                               *)
THEOREM RunsArePairedAndIndependent == Spec => []PairedAndIndependent
<1>1. PersistenceInv /\ DataSound => PairedAndIndependent
  BY ManifestPairs
<1> QED BY <1>1, PersistenceInvariant, DataInvariant, PTL

-----------------------------------------------------------------------------
(* A finished run repeats from its directory.                              *)

LEMMA ManifestRepeats ==
    ASSUME PersistenceInv, DataSound
    PROVE  RunRepeatsFromDisk
<1> SUFFICES ASSUME NEW dir \in dirs, HasManifest(dir)
             PROVE  LET doc == DataIn(dir, ConfigItem)
                        cfg == Reloaded[doc].config
                    IN  /\ doc \in DOMAIN Reloaded /\ Reloaded[doc].raised = "none"
                        /\ \A it \in DataItems(cfg) :
                              DataIn(dir, it) = [table |-> it.kind, cell |-> RunBacktest(cfg)[it.cell]]
  BY DEF RunRepeatsFromDisk
<1>1. PICK p, cfg : p = files[Path(dir, Manifest, None)].by /\ cfg = Cfg(p)
  OBVIOUS
<1>2. p \in Procs /\ Loaded(p)
  BY <1>1, ManifestRun
<1>3. PICK doc \in ConfigFiles : config[p] = LoadConfig(doc)
  BY <1>2 DEF PersistenceInv, Types, Loads
<1>4. LoadConfig(doc).raised = "none" /\ LoadConfig(doc).config = cfg
  BY <1>1, <1>2, <1>3 DEF Loaded, Cfg
<1>5. DataIn(dir, ConfigItem) = Dump(cfg)
  <2>1. PICK path : path = Path(dir, ConfigItem, None)
    OBVIOUS
  <2>2. Complete(dir, ConfigItem, p)
    BY <1>1, ManifestVouches DEF ManifestMeansComplete
  <2>3. path \in DOMAIN files /\ files[path].by = p /\ path.kind = "config"
    BY <2>1, <2>2 DEF Complete, Path, ConfigItem
  <2> QED BY <1>1, <2>1, <2>3 DEF DataIn, DataSound, DataKinds, DataOf
<1>6. LoadConfig(Dump(cfg)) = LoadConfig(doc)
  <2>1. IsDocument(doc)
    BY PersistenceAssumption
  <2> QED BY <1>4, <2>1, DumpLoads
<1>7. /\ DataIn(dir, ConfigItem) \in DOMAIN Reloaded
      /\ Reloaded[DataIn(dir, ConfigItem)].raised = "none" /\ Reloaded[DataIn(dir, ConfigItem)].config = cfg
  <2>1. Dump(cfg) \in {Dump(load.config) : load \in {l \in Loads : l.raised = "none"}}
    BY <1>4 DEF Loads
  <2>2. Dump(cfg) \in DOMAIN Reloaded /\ Reloaded[Dump(cfg)] = LoadConfig(Dump(cfg))
    BY <2>1 DEF Reloaded
  <2> QED BY <1>4, <1>5, <1>6, <2>2
<1>8. ASSUME NEW it \in DataItems(cfg)
      PROVE  DataIn(dir, it) = [table |-> it.kind, cell |-> RunBacktest(cfg)[it.cell]]
  <2>1. PICK path : path = Path(dir, it, None)
    OBVIOUS
  <2>2. path \in DOMAIN files /\ files[path].by = p
    BY <1>1, <2>1, ManifestRun
  <2>3. path.kind = it.kind /\ path.cell = it.cell /\ it.kind \in {"paths", "fills"}
    BY <2>1 DEF Path, DataItems
  <2>4. files[path].data = DataOf(p, it.kind, it.cell)
    BY <2>2, <2>3 DEF DataSound, DataKinds
  <2> QED BY <1>1, <2>1, <2>3, <2>4 DEF DataIn, DataOf
<1> QED BY <1>7, <1>8

(* A finished run can be repeated from its own directory: the resolved     *)
(* configuration that lies there loads, and run again it gives the data    *)
(* files that lie beside it, whichever file the run was started with.      *)
THEOREM RunsRepeatFromDisk == Spec => []RunRepeatsFromDisk
<1>1. PersistenceInv /\ DataSound => RunRepeatsFromDisk
  BY ManifestRepeats
<1> QED BY <1>1, PersistenceInvariant, DataInvariant, PTL
=============================================================================
