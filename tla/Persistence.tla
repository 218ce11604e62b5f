----------------------------- MODULE Persistence -----------------------------
(***************************************************************************)
(* `python -m etf_mm_sim run` (etf_mm_sim/cli.py) and the run directory it *)
(* leaves (etf_mm_sim/persistence.py), one step per call to the file       *)
(* system.  Several processes share the output directory; any call may     *)
(* fail with OSError, and a process may be killed between any two of them. *)
(*                                                                         *)
(* A file is known by its writer, by what is to be in it, and by whether   *)
(* it is complete.                                                         *)
(***************************************************************************)
EXTENDS Simulation

CONSTANTS
    Procs,          \* the processes, also their pids
    ConfigFiles,    \* the YAML files they may be given
    ShaPrefix,      \* cfg_sha[:8] of each dumped configuration
    MaxSecond,      \* bound on the clock
    MaxFaults,      \* bound on the calls that fail
    PlotStops,      \* bound: the plots complete when rendering stops halfway
    BaseDir         \* output.dir

ASSUME PersistenceAssumption ==
    /\ \A m \in ConfigFiles : IsDocument(m)
    /\ \A m \in ConfigFiles :
          LoadConfig(m).raised = "none" =>
              LET cfg == LoadConfig(m).config
              IN  /\ Dump(cfg) \in DOMAIN ShaPrefix
                  /\ Steps(cfg) \in Nat /\ cfg.n_paths \in Nat
    /\ None \notin Procs \cup [stamp : Nat, sha : Range(ShaPrefix), pid : Procs \cup {None}]
    /\ None \notin {0, 1, 3, 4}
    /\ PlotStops \subseteq Nat
    /\ MaxSecond \in Nat /\ MaxFaults \in Nat

VARIABLES
    files,          \* the files that exist: path -> writer, data, complete?
    dirs,           \* the run directories that exist
    second,         \* the clock, as run_<timestamp> shows it
    faults,         \* calls that have failed
    config,         \* what load_config makes of each process's file
    pc,             \* where it is in main, _run_command and persist
    stamp,          \* its timestamp
    runDir,         \* its run_dir
    item,           \* the file of the run directory it is to write next
    exit,           \* its exit code, None while it runs
    failed,         \* a call it made in persist failed (history)
    keptTmp         \* an unlink it made failed (history)

fsVars == <<files, dirs>>
localVars == <<config, stamp, runDir, item>>
historyVars == <<failed, keptTmp>>
vars == <<fsVars, second, faults, localVars, pc, exit, historyVars>>

Cfg(p) == config[p].config

(* The files persist publishes with a rename, in order: the paths and the  *)
(* fills of each cell, strategy by strategy, and last the manifest.        *)
Cell(cfg, c) ==
    <<Strategies[(c - 1) \div NRegimes(cfg) + 1],
      cfg.regimes[((c - 1) % NRegimes(cfg)) + 1].name>>
LastItem(cfg) == 2 * Len(Strategies) * NRegimes(cfg) + 1
Manifest == [kind |-> "manifest", cell |-> None]
DataItem(cfg, k) ==
    IF k % 2 = 1 THEN [kind |-> "paths", cell |-> Cell(cfg, (k + 1) \div 2)]
    ELSE [kind |-> "fills", cell |-> Cell(cfg, k \div 2)]
(* Mutant of Item: the manifest is written before the data.                *)
ItemManifestFirst(cfg, k) == IF k = 1 THEN Manifest ELSE DataItem(cfg, k - 1)
Item(cfg, k) == IF k = LastItem(cfg) THEN Manifest ELSE DataItem(cfg, k)

(* The plots, in the order of save_all_figures.                            *)
PlotOrder == <<"avellaneda_stoikov", "symmetric", "semi_as">>
PlotItems(cfg) ==
    LET R == NRegimes(cfg)
    IN  [r \in 1 .. R |-> [kind |-> "terminal_pnl", cell |-> <<None, cfg.regimes[r].name>>]]
        \o [c \in 1 .. R * Len(PlotOrder) |->
              [kind |-> "sample_path",
               cell |-> <<PlotOrder[(c - 1) \div R + 1], cfg.regimes[((c - 1) % R) + 1].name>>]]
        \o <<[kind |-> "summary_table", cell |-> None]>>
IsPlot(it) == it.kind \in {"terminal_pnl", "sample_path", "summary_table"}

(* What goes into it.                                                      *)
Data(p, it) ==
    CASE IsPlot(it) -> None
      [] it.kind = "config" -> Dump(Cfg(p))
      [] it.kind = "manifest" -> [cfg |-> Dump(Cfg(p)), stamp |-> stamp[p]]
      [] OTHER -> [table |-> it.kind, cell |-> RunBacktest(Cfg(p))[it.cell]]

Path(dir, it, tmp) == [dir |-> dir, kind |-> it.kind, cell |-> it.cell, tmp |-> tmp]
ConfigItem == [kind |-> "config", cell |-> None]
ConfigTmp(p) == Path(BaseDir, ConfigItem, p)
ConfigPath(dir) == Path(dir, ConfigItem, None)
CurrentItem(p) == Item(Cfg(p), item[p])
FinalPath(p) == Path(runDir[p], CurrentItem(p), None)
TmpPath(p) == Path(runDir[p], CurrentItem(p), p)

Put(path, full, p) ==
    [f \in DOMAIN files \cup {path} |->
        IF f = path
          THEN [full |-> full, by |-> p, data |-> Data(p, [kind |-> f.kind, cell |-> f.cell])]
          ELSE files[f]]
Without(path) == Restrict(files, DOMAIN files \ {path})

Init ==
    /\ files = <<>> /\ dirs = {} /\ second = 0 /\ faults = 0
    /\ \E given \in [Procs -> ConfigFiles] : config = [p \in Procs |-> LoadConfig(given[p])]
    /\ pc = [p \in Procs |-> "load"]
    /\ stamp = [p \in Procs |-> 0]
    /\ runDir = [p \in Procs |-> None]
    /\ item = [p \in Procs |-> 1]
    /\ exit = [p \in Procs |-> None]
    /\ failed = [p \in Procs |-> FALSE]
    /\ keptTmp = [p \in Procs |-> FALSE]

-----------------------------------------------------------------------------
Goto(p, from, to) == pc[p] = from /\ pc' = [pc EXCEPT ![p] = to]

(* The process ends with a code.                                           *)
Exit(p, from, code) ==
    /\ Goto(p, from, "done")
    /\ exit' = [exit EXCEPT ![p] = code]

(* A call of persist fails, at `from`: the OSError leaves persist as       *)
(* PersistenceError (code 3) or as it is (code 4).                         *)
Fault == faults < MaxFaults /\ faults' = faults + 1
FailsInPersist(p, from, code) ==
    /\ Fault
    /\ Exit(p, from, code)
    /\ failed' = [failed EXCEPT ![p] = TRUE]
    /\ UNCHANGED <<second, localVars, dirs>>

NoFailure == UNCHANGED <<faults, exit, historyVars>>

(* The unlink of a temporary file: it removes the file or fails silently.  *)
(* Mutant of Cleanup: nothing is unlinked.                                 *)
CleanupNot(p, path) == UNCHANGED <<files, keptTmp>>
Cleanup(p, path) ==
    \/ files' = Without(path) /\ UNCHANGED keptTmp
    \/ /\ keptTmp' = [keptTmp EXCEPT ![p] = TRUE]
       /\ UNCHANGED files

-----------------------------------------------------------------------------
(* load_config and run_backtest; either may also raise something else.     *)

LoadAndRun(p) ==
    \/ /\ config[p].raised = "none"
       /\ Goto(p, "load", "base")
       /\ UNCHANGED <<fsVars, second, localVars>> /\ NoFailure
    \/ /\ Exit(p, "load", 4) \/ (config[p].raised = "ConfigError" /\ Exit(p, "load", 1))
       /\ UNCHANGED <<fsVars, second, localVars, faults, historyVars>>

(* base_dir.mkdir, outside any try.                                        *)
MakeBaseDir(p) ==
    \/ Goto(p, "base", "dump") /\ UNCHANGED <<fsVars, second, localVars>> /\ NoFailure
    \/ FailsInPersist(p, "base", 4) /\ UNCHANGED <<files, keptTmp>>

(* The temporary file that dump_config fills, read back and unlinked.      *)
CreateConfigTmp(p) ==
    \/ /\ Goto(p, "dump", "dumped")
       /\ files' = Put(ConfigTmp(p), FALSE, p)
       /\ UNCHANGED <<dirs, second, localVars>> /\ NoFailure
    \/ FailsInPersist(p, "dump", 3) /\ UNCHANGED <<files, keptTmp>>

(* dump_config, read_bytes, unlink, whose failure is passed over, and the  *)
(* timestamp.                                                              *)
DumpConfig(p) ==
    \/ /\ Goto(p, "dumped", "mkdir")
       /\ Cleanup(p, ConfigTmp(p))
       /\ IF keptTmp' = keptTmp THEN UNCHANGED faults ELSE Fault
       /\ stamp' = [stamp EXCEPT ![p] = second]
       /\ UNCHANGED <<dirs, second, config, runDir, item, exit, failed>>
    \/ FailsInPersist(p, "dumped", 3) /\ Cleanup(p, ConfigTmp(p))

RunDirName(p, pid) ==
    [stamp |-> stamp[p], sha |-> ShaPrefix[Dump(Cfg(p))], pid |-> pid]

(* mkdir of a run directory that must not exist.                           *)
Made(p, dir) ==
    /\ dirs' = dirs \cup {dir}
    /\ runDir' = [runDir EXCEPT ![p] = dir]
    /\ UNCHANGED <<files, second, config, stamp, item>> /\ NoFailure

(* Mutant of MakeRunDir: an existing directory will do.                    *)
MakeRunDirReused(p) ==
    Goto(p, "mkdir", "openConfig") /\ Made(p, RunDirName(p, None))
MakeRunDir(p) ==
    LET dir == RunDirName(p, None) IN
    \/ /\ Goto(p, "mkdir", "openConfig")
       /\ dir \notin dirs /\ Made(p, dir)
    \/ /\ Goto(p, "mkdir", "mkdirPid")
       /\ dir \in dirs
       /\ UNCHANGED <<fsVars, second, localVars>> /\ NoFailure
    \/ FailsInPersist(p, "mkdir", 3) /\ UNCHANGED <<files, keptTmp>>

(* The fallback with the process id in the name.                           *)
MakeRunDirWithPid(p) ==
    LET dir == RunDirName(p, p) IN
    \/ /\ Goto(p, "mkdirPid", "openConfig")
       /\ dir \notin dirs /\ Made(p, dir)
    \/ FailsInPersist(p, "mkdirPid", 3) /\ UNCHANGED <<files, keptTmp>>

(* config.resolved.yaml is written in place: opened, then filled.          *)
OpenConfig(p) ==
    \/ /\ Goto(p, "openConfig", "fillConfig")
       /\ files' = Put(ConfigPath(runDir[p]), FALSE, p)
       /\ UNCHANGED <<dirs, second, localVars>> /\ NoFailure
    \/ FailsInPersist(p, "openConfig", 3) /\ UNCHANGED <<files, keptTmp>>
FillConfig(p) ==
    \/ /\ Goto(p, "fillConfig", "mkstemp")
       /\ files' = Put(ConfigPath(runDir[p]), TRUE, p)
       /\ UNCHANGED <<dirs, second, localVars>> /\ NoFailure
    \/ FailsInPersist(p, "fillConfig", 3) /\ UNCHANGED <<files, keptTmp>>

(* mkdir of the parent and mkstemp: outside the try for a Parquet file,    *)
(* inside it for the manifest.                                             *)
MakeTmp(p) ==
    \/ /\ Goto(p, "mkstemp", "write")
       /\ files' = Put(TmpPath(p), FALSE, p)
       /\ UNCHANGED <<dirs, second, localVars>> /\ NoFailure
    \/ /\ FailsInPersist(p, "mkstemp", IF item[p] = LastItem(Cfg(p)) THEN 3 ELSE 4)
       /\ UNCHANGED <<files, keptTmp>>

WriteTmp(p) ==
    \/ /\ Goto(p, "write", "replace")
       /\ files' = Put(TmpPath(p), TRUE, p)
       /\ UNCHANGED <<dirs, second, localVars>> /\ NoFailure
    \/ FailsInPersist(p, "write", 3) /\ Cleanup(p, TmpPath(p))

(* Mutant of IsLast: one file too many.                                    *)
IsLastLate(p) == item[p] > LastItem(Cfg(p))
IsLast(p) == item[p] = LastItem(Cfg(p))

(* os.replace: the temporary file takes the final name in one step.        *)
Replace(p) ==
    \/ /\ Goto(p, "replace", IF IsLast(p) THEN "report" ELSE "mkstemp")
       /\ files' = [f \in (DOMAIN files \ {TmpPath(p)}) \cup {FinalPath(p)} |->
                       IF f = FinalPath(p) THEN files[TmpPath(p)] ELSE files[f]]
       /\ item' = IF IsLast(p) THEN item ELSE [item EXCEPT ![p] = @ + 1]
       /\ UNCHANGED <<dirs, second, config, stamp, runDir>> /\ NoFailure
    \/ FailsInPersist(p, "replace", 3) /\ Cleanup(p, TmpPath(p))

(* The comparisons of each regime: all of them, or an exception.           *)
Analyse(p) ==
    /\ \/ Goto(p, "report", "plot") /\ UNCHANGED exit
       \/ Exit(p, "report", 4)
    /\ UNCHANGED <<fsVars, second, localVars, faults, historyVars>>

(* The first k plots are there, and the next one in part if there is one;  *)
(* each is written in place.                                               *)
(* Mutant of SavePlots: one plot is left out.                              *)
SavePlotsShort(p, k) ==
    LET written == {Path(runDir[p], PlotItems(Cfg(p))[j], None) : j \in 2 .. k}
    IN  files' = [f \in DOMAIN files \cup written |->
                     IF f \in written THEN [full |-> TRUE, by |-> p, data |-> None] ELSE files[f]]
SavePlots(p, k) ==
    LET plots == PlotItems(Cfg(p))
        written == {Path(runDir[p], plots[j], None) : j \in 1 .. Min({k + 1, Len(plots)})}
    IN  files' = [f \in DOMAIN files \cup written |->
                     IF f \in written
                       THEN [full |-> \E j \in 1 .. k : f = Path(runDir[p], plots[j], None),
                             by |-> p, data |-> None]
                       ELSE files[f]]

(* The plots, unless --no-plots, and the printed summary.  No other        *)
(* process looks at the plots, so that writing them is one step; it may    *)
(* stop halfway, by an exception or because the process is killed.         *)
Report(p) ==
    /\ \/ Exit(p, "plot", 0) /\ (UNCHANGED files \/ SavePlots(p, Len(PlotItems(Cfg(p)))))
       \/ /\ Exit(p, "plot", 4) \/ (Goto(p, "plot", "done") /\ UNCHANGED exit)
          /\ \/ UNCHANGED files
             \/ \E k \in PlotStops : k < Len(PlotItems(Cfg(p))) /\ SavePlots(p, k)
    /\ UNCHANGED <<dirs, second, localVars, faults, historyVars>>

Killed(p) ==
    /\ pc[p] # "done"
    /\ pc' = [pc EXCEPT ![p] = "done"]
    /\ UNCHANGED <<fsVars, second, localVars>> /\ NoFailure

(* Bound: the clock stops when no process will look at it again.           *)
Tick ==
    /\ second < MaxSecond
    /\ \E p \in Procs : pc[p] \in {"load", "base", "dump", "dumped"}
    /\ second' = second + 1
    /\ UNCHANGED <<fsVars, localVars, pc>> /\ NoFailure

Process(p) ==
    \/ LoadAndRun(p) \/ MakeBaseDir(p) \/ CreateConfigTmp(p) \/ DumpConfig(p)
    \/ MakeRunDir(p) \/ MakeRunDirWithPid(p) \/ OpenConfig(p) \/ FillConfig(p)
    \/ MakeTmp(p) \/ WriteTmp(p) \/ Replace(p) \/ Analyse(p)
    \/ Report(p)

Next == Tick \/ \E p \in Procs : Process(p) \/ Killed(p)

Spec == Init /\ [][Next]_vars

-----------------------------------------------------------------------------
RunDirs == [stamp : 0 .. MaxSecond, sha : Range(ShaPrefix), pid : Procs \cup {None}]
Loads == {LoadConfig(m) : m \in ConfigFiles}
Names == UNION {{load.config.regimes[r].name : r \in DOMAIN load.config.regimes} :
                   load \in {l \in Loads : l.raised = "none"}}
Paths ==
    [dir : RunDirs \cup {BaseDir},
     kind : {"config", "paths", "fills", "manifest", "terminal_pnl", "sample_path",
             "summary_table"},
     cell : ((Range(Strategies) \cup {None}) \X Names) \cup {None}, tmp : Procs \cup {None}]

TypeOK ==
    /\ DOMAIN files \subseteq Paths
    /\ \A f \in DOMAIN files : files[f].full \in BOOLEAN /\ files[f].by \in Procs
    /\ dirs \subseteq RunDirs
    /\ second \in 0 .. MaxSecond /\ faults \in 0 .. MaxFaults
    /\ config \in [Procs -> Loads]
    /\ pc \in [Procs -> {"load", "base", "dump", "dumped", "mkdir", "mkdirPid",
                         "openConfig", "fillConfig", "mkstemp", "write", "replace",
                         "report", "plot", "done"}]
    /\ stamp \in [Procs -> 0 .. MaxSecond]
    /\ runDir \in [Procs -> RunDirs \cup {None}]
    /\ \A p \in Procs :
          item[p] \in 1 .. IF config[p].raised = "none" THEN LastItem(Cfg(p)) ELSE 1
    /\ exit \in [Procs -> {0, 1, 3, 4, None}]
    /\ failed \in [Procs -> BOOLEAN] /\ keptTmp \in [Procs -> BOOLEAN]

Complete(dir, it, p) ==
    LET f == Path(dir, it, None)
    IN  f \in DOMAIN files /\ files[f].full /\ files[f].by = p
HasManifest(dir) == Path(dir, Manifest, None) \in DOMAIN files
DataItems(cfg) == {[kind |-> k, cell |-> <<s, cfg.regimes[r].name>>] :
    k \in {"paths", "fills"}, s \in Range(Strategies), r \in DOMAIN cfg.regimes}

(* What is renamed into place.                                             *)
Published(f) == f.tmp = None /\ f.kind \in {"paths", "fills", "manifest"}

(* "partial files never appear on disk", and a manifest vouches for its    *)
(* directory: a published file is complete at every moment, and where a    *)
(* manifest stands, the resolved configuration and every data file stand   *)
(* beside it, complete and of the same run, whatever was killed or failed  *)
(* and whoever else was writing.                                           *)
ManifestMeansComplete ==
    /\ \A f \in DOMAIN files : Published(f) => files[f].full
    /\ \A dir \in dirs :
          HasManifest(dir) =>
              LET p == files[Path(dir, Manifest, None)].by
              IN  \A it \in DataItems(Cfg(p)) \cup {ConfigItem} : Complete(dir, it, p)

DataIn(dir, it) == files[Path(dir, it, None)].data

(* What load_config makes of a file that dump_config wrote.                *)
Reloaded ==
    [doc \in {Dump(load.config) : load \in {l \in Loads : l.raised = "none"}} |-> LoadConfig(doc)]

(* Requirements 7.5, 10.2 and 10.4: a finished run can be repeated from    *)
(* its own directory.  Loading config.resolved.yaml gives a valid          *)
(* configuration, and running it gives the data files that lie beside it,  *)
(* bit for bit.                                                            *)
RunRepeatsFromDisk ==
    \A dir \in dirs :
        HasManifest(dir) =>
            LET doc == DataIn(dir, ConfigItem)
                cfg == Reloaded[doc].config
            IN  /\ doc \in DOMAIN Reloaded /\ Reloaded[doc].raised = "none"
                /\ \A it \in DataItems(cfg) :
                      DataIn(dir, it) = [table |-> it.kind, cell |-> RunBacktest(cfg)[it.cell]]

(* Requirements 7.1 to 7.3: in a finished run path k of a regime has the   *)
(* same mids and the same uniforms for its fills under every strategy, no  *)
(* two paths share their mids, and no number is drawn for two uses, the    *)
(* bootstraps of the analytics included.                                   *)
PairedAndIndependent ==
    \A dir \in dirs :
        HasManifest(dir) =>
            LET cfg == Cfg(files[Path(dir, Manifest, None)].by)
                OnDisk(s, r) ==
                    DataIn(dir, [kind |-> "paths", cell |-> <<s, cfg.regimes[r].name>>]).cell
                Indices == (DOMAIN cfg.regimes) \X (1 .. cfg.n_paths)
            IN  /\ \A s, t \in Range(Strategies), i, j \in Indices :
                      OnDisk(s, i[1])[i[2]].mid = OnDisk(t, j[1])[j[2]].mid <=> i = j
                /\ \A s, t \in Range(Strategies), i \in Indices :
                      OnDisk(s, i[1])[i[2]].uniforms = OnDisk(t, i[1])[i[2]].uniforms
                /\ \A d, e \in RunDraws(cfg) : Overlap(d.draw, e.draw) => d.use = e.use

(* A run that ends by itself leaves no temporary file behind, unless the   *)
(* system refused to remove it: "so we don't leave debris".                *)
NoDebris ==
    \A p \in Procs :
        exit[p] # None /\ ~keptTmp[p] =>
            \A f \in DOMAIN files : f.tmp # p

(* The exit code and the directory agree: success means that the manifest  *)
(* is there and the plots are complete if any were asked for, a persistence*)
(* error that there is no manifest.                                        *)
ManifestTellsSuccess ==
    \A p \in Procs :
        LET present == runDir[p] # None /\ HasManifest(runDir[p])
            plotted == {f \in DOMAIN files : f.dir = runDir[p] /\ IsPlot(f)}
        IN  /\ exit[p] = 0 =>
                  /\ present
                  /\ plotted # {} =>
                        \A it \in Range(PlotItems(Cfg(p))) : Complete(runDir[p], it, p)
            /\ exit[p] = 3 => ~present

(* No step ever changes or removes a published file, of this or of another *)
(* run: a reader may open it as soon as it is there.                       *)
PublishedIsFinal ==
    [][\A f \in DOMAIN files :
          Published(f) => f \in DOMAIN files' /\ files'[f] = files[f]]_vars

(* "3 on persistence I/O errors": a run in which a call of persist failed  *)
(* exits with 3.                                                           *)
IoFailureExitsWith3 ==
    \A p \in Procs : failed[p] => exit[p] = 3
=============================================================================
