----------------------- MODULE IncrementalBuildProofs ------------------------
(***************************************************************************)
(* What a run of cob may conclude from the files that earlier runs left,   *)
(* for every graph of steps, any number of runs, edits and interrupts.     *)
(*                                                                         *)
(* The theorems name what they need.  IncrementalBuild lists runs in which *)
(* the code does not keep its promises if one of these is missing.         *)
(***************************************************************************)
EXTENDS IncrementalBuild, TLAPS

OneManifest == \A m, n \in Manifests : m = n
NoOverrides == Overrides = {}
(* A failing or interrupted command leaves its old output or none.         *)
WholeOutputs == "partial" \notin Leftovers
KnownHeaders == HeaderEdits = "known"
(* Whoever edits the manifest during a run must not have two failures of   *)
(* the cache as well.                                                      *)
OneMishap == MaxFaults <= 1 \/ EditsDuringBuild \cap Manifests = {}

-----------------------------------------------------------------------------
Flags == (Manifests \X (0..MaxEdits)) \cup Overrides
Hashes == [Steps -> Flags \cup {None}]
Loaded == run.at \in {"emit", "parsed", "execute", "succeeded"}
Valid == \E m \in Manifests : CacheValid(m)

TypeOK ==
    /\ clock \in Nat \ {0}
    /\ version \in [Edited -> 0..MaxEdits]
    /\ mtime \in [Edited \cup Steps -> 0..clock]
    /\ \A f \in Edited : mtime[f] # 0
    /\ DOMAIN artifact = Steps
    /\ depfiles \in SUBSET Compiles
    /\ bin # None => bin \in [time : 0..clock, flags : Flags, discovered : SUBSET Compiles, hash : Hashes]
    /\ run \in [at : {"idle", "parse", "emit", "parsed", "execute", "succeeded"},
                mode : Modes \cup {None}, manifest : Manifests \cup {None},
                override : Overrides \cup {None}, saw : [Edited -> 0..MaxEdits] \cup {None}]
    /\ run.at # "idle" => run.mode \in Modes /\ run.manifest \in Manifests
    /\ Loaded => graph \in [flags : Flags, discovered : SUBSET Compiles, hash : Hashes, loaded : Hashes]
    /\ run.at = "execute" => DOMAIN sources = Sources \cup Headers
    /\ state \in [Steps -> {"waiting", "running", "done", "failed"}]
    /\ DOMAIN output = Steps
    /\ build_file_slot \in Nat
    /\ raced \in BOOLEAN
    /\ due \in [Manifests -> Nat] /\ \A m \in Manifests : due[m] <= version[m]
    /\ edits \in 0..MaxEdits /\ \A f \in Edited : version[f] <= edits
    /\ runs \in Nat /\ faults \in Nat

(* Where the steps of a run are.                                           *)
StateInv ==
    /\ \A s \in Steps :
        /\ state[s] # "waiting" => run.at \in {"execute", "succeeded"}
        /\ state[s] = "running" => run.mode = "build"
        /\ state[s] \in {"running", "done"} => \A i \in Inputs[s] \cap Steps : state[i] = "done"
    /\ run.at = "succeeded" => \A s \in Steps : state[s] = "done"

(* The cache and the graph say what the manifest says, unless somebody     *)
(* edits it while a run is under way.                                      *)
NamedInv ==
    ~raced \/ EditsDuringBuild \cap Manifests = {} =>
        /\ \A m \in Manifests : CacheValid(m) => bin.flags = ManifestFlags(m)
        /\ Loaded => \A m \in Manifests : graph.flags = ManifestFlags(m)

(* The cache and the graph say what the manifest said at some time since   *)
(* its last edit between two runs, whoever edits it while they are under   *)
(* way.                                                                    *)
SinceDue(flags, m) == \E v \in due[m] .. version[m] : flags = <<m, v>>
DueInv ==
    /\ \A m \in Manifests : CacheValid(m) => SinceDue(bin.flags, m)
    /\ Loaded => \A m \in Manifests : SinceDue(graph.flags, m)

(* The hashes of a cache or a graph are of the command lines in it.        *)
OwnHashes ==
    /\ bin # None => \A s \in Steps : bin.hash[s] \in {None, bin.flags}
    /\ Loaded => \A s \in Steps : graph.hash[s] \in {None, graph.flags}

(* What the cache says of a command line is true as long as a run may      *)
(* trust it; so is what a run has loaded, which then speaks of the same    *)
(* command lines as the cache.                                             *)
HashInv ==
    /\ Valid => \A s \in Steps : bin.hash[s] # None /\ artifact[s] # None =>
                    artifact[s].flags = bin.hash[s]
    /\ Loaded => \A s \in Steps : graph.hash[s] # None /\ artifact[s] # None =>
                     artifact[s].flags = graph.hash[s]
    /\ \A s \in Steps : state[s] = "running" => output[s].flags = graph.flags
    /\ run.at \in {"parsed", "execute", "succeeded"} /\ Valid =>
           bin.flags = graph.flags \/ \A s \in Steps : bin.hash[s] = None
    /\ run.at = "emit" =>
           /\ \A s \in Steps : graph.hash[s] = None
           /\ Valid => faults > 0
    /\ faults <= MaxFaults

TruthInv == TypeOK /\ StateInv /\ NamedInv /\ OwnHashes /\ HashInv

(* A header that a step has not seen in its present state is newer than    *)
(* the step's output, and whoever looks knows that the step reads it.      *)
Noticed(s) ==
    /\ s \in depfiles
    /\ Valid => s \in bin.discovered
    /\ Loaded => s \in graph.discovered

(* An output is what its command would make, or the times show which input *)
(* has changed.                                                            *)
Traceable(s) ==
    /\ artifact[s] = [flags |-> artifact[s].flags,
                      from |-> [i \in Reads(s) |-> artifact[s].from[i]]]
    /\ \A m \in Manifests : artifact[s].flags = ManifestFlags(m) \/ mtime[m] >= mtime[s]
    /\ \A i \in Inputs[s] \ Steps : artifact[s].from[i] = version[i] \/ mtime[i] >= mtime[s]
    /\ \A i \in Inputs[s] \cap Steps :
           artifact[s].from[i] = artifact[i] \/ mtime[i] = 0 \/ mtime[i] >= mtime[s]
    /\ \A h \in Includes[s] :
           artifact[s].from[h] = version[h] \/ (mtime[h] >= mtime[s] /\ Noticed(s))

(* A step whose .d file the cache or the graph knows has one.              *)
DepfilesKept ==
    \A s \in Steps :
        /\ mtime[s] # 0
        /\ (bin # None /\ s \in bin.discovered) \/ (Loaded /\ s \in graph.discovered)
        => s \in depfiles

Traces == \A s \in Steps : mtime[s] # 0 => Traceable(s)
(* What a run has seen of the sources and the manifest is still so.        *)
Seen ==
    run.at = "execute" =>
        /\ \A f \in Sources \cup Headers : sources[f] = mtime[f]
        /\ build_file_slot \in {0, mtime[run.manifest]}

(* Running commands read what is there, and what is done is fresh.         *)
WorkFresh ==
    /\ \A s \in Steps : state[s] = "running" => output[s] = Product(s)
    /\ run.mode = "build" => \A s \in Steps : state[s] = "done" =>
           mtime[s] # 0 /\ artifact[s] = Product(s)

FreshInv == DepfilesKept /\ (~raced => Traces /\ Seen /\ WorkFresh)

(* After an undisturbed build nothing is newer than what is made from it,  *)
(* and the cache knows every command line.                                 *)
Settled ==
    settled # None =>
        /\ \A s \in Steps : \A i \in Reads(s) \cup Manifests : mtime[s] > mtime[i]
        /\ \A m \in Manifests : CacheValid(m)
        /\ \A s \in Steps : bin.hash[s] = settled
        /\ \A s \in Steps : state[s] # "running"
        /\ run.at # "emit"
        /\ run.at # "idle" => run.saw = version
        /\ Loaded => \A s \in Steps : graph.hash[s] = settled
        /\ Seen

(* Where the hashes of a graph come from, and that all are known in the    *)
(* end.                                                                    *)
LoadedInv ==
    /\ run.at = "emit" => \A s \in Steps : graph.loaded[s] = None
    /\ run.at \in {"parsed", "execute"} =>
           (\A s \in Steps : graph.loaded[s] = None) \/ (bin # None /\ graph.loaded = bin.hash)
    /\ run.mode = "build" => \A s \in Steps : state[s] = "done" => graph.hash[s] = graph.flags

SettledInv == Settled /\ LoadedInv

-----------------------------------------------------------------------------
(* What the file system and the process look like.                         *)

(* A new file is as old as the clock or newer.                             *)
LEMMA StampsLater ==
    ASSUME clock \in Nat \ {0}, NEW t \in Stamps
    PROVE  t \in Nat \ {0} /\ t >= clock
BY DEF Stamps

(* At first there are sources and a manifest, and nothing else.            *)
LEMMA TypeInit == Init => TypeOK
<1>. SUFFICES ASSUME Init PROVE TypeOK
  OBVIOUS
<1>1. /\ clock \in Nat \ {0} /\ version \in [Edited -> 0..MaxEdits]
      /\ mtime \in [Edited \cup Steps -> 0..clock] /\ \A f \in Edited : mtime[f] # 0
  BY EnvironmentAssumption DEF Init
<1>2. /\ DOMAIN artifact = Steps /\ depfiles \in SUBSET Compiles /\ bin = None
      /\ run.at = "idle" /\ ~Loaded
      /\ state \in [Steps -> {"waiting", "running", "done", "failed"}]
      /\ DOMAIN output = Steps /\ raced \in BOOLEAN /\ runs \in Nat /\ faults \in Nat
      /\ build_file_slot \in Nat
  BY DEF Init, Idle, Loaded
<1>3. run \in [at : {"idle", "parse", "emit", "parsed", "execute", "succeeded"},
               mode : Modes \cup {None}, manifest : Manifests \cup {None},
               override : Overrides \cup {None}, saw : [Edited -> 0..MaxEdits] \cup {None}]
  BY DEF Init, Idle
<1>4. /\ due \in [Manifests -> Nat] /\ \A m \in Manifests : due[m] <= version[m]
      /\ edits \in 0..MaxEdits /\ \A f \in Edited : version[f] <= edits
  BY EnvironmentAssumption DEF Init, Edited
<1>. QED  BY <1>1, <1>2, <1>3, <1>4 DEF TypeOK

(* Writing the cache keeps its type.                                       *)
LEMMA WriteCacheType ==
    ASSUME TypeOK, Loaded, WriteCache
    PROVE  /\ clock' \in Nat \ {0} /\ clock' >= clock
           /\ bin' \in [time : 0..clock', flags : Flags, discovered : SUBSET Compiles, hash : Hashes]
           /\ bin'.time = clock' /\ bin'.flags = graph.flags
           /\ bin'.discovered = graph.discovered /\ bin'.hash = graph.hash
<1>1. PICK t \in Stamps : /\ clock' = t
                          /\ bin' = [time |-> t, flags |-> graph.flags,
                                     discovered |-> graph.discovered, hash |-> graph.hash]
  BY DEF WriteCache
<1>2. t \in Nat \ {0} /\ t >= clock
  BY StampsLater DEF TypeOK
<1>3. graph.flags \in Flags /\ graph.discovered \in SUBSET Compiles /\ graph.hash \in Hashes
  BY DEF TypeOK
<1>. QED  BY <1>1, <1>2, <1>3

(* What stopped commands leave: the old output, none, or a partial one.    *)
LEMMA AbandonType ==
    ASSUME TypeOK, NEW S \in SUBSET Steps, Abandon(S)
    PROVE  /\ clock' \in Nat \ {0} /\ clock' >= clock
           /\ mtime' \in [Edited \cup Steps -> 0..clock']
           /\ \A f \in Edited : mtime'[f] = mtime[f]
           /\ DOMAIN artifact' = Steps
           /\ \A s \in Steps : \/ artifact'[s] = artifact[s] /\ mtime'[s] = mtime[s]
                               \/ s \in S /\ artifact'[s] = None /\ mtime'[s] = 0
                               \/ /\ s \in S /\ "partial" \in Leftovers
                                  /\ artifact'[s] = [flags |-> graph.flags, from |-> None]
<1>1. PICK choice \in [S -> Leftovers], t \in Stamps :
        LET left(f) == IF f \in S THEN choice[f] ELSE "old"
        IN  /\ clock' = IF \E s \in S : left(s) = "partial" THEN t ELSE clock
            /\ artifact' = [s \in Steps |-> CASE left(s) = "old" -> artifact[s]
                                              [] left(s) = "nothing" -> None
                                              [] OTHER -> [flags |-> graph.flags, from |-> None]]
            /\ mtime' = [f \in DOMAIN mtime |-> CASE left(f) = "old" -> mtime[f]
                                                  [] left(f) = "nothing" -> 0
                                                  [] OTHER -> t]
  BY DEF Abandon
<1>. DEFINE left(f) == IF f \in S THEN choice[f] ELSE "old"
<1>2. t \in Nat \ {0} /\ t >= clock /\ clock \in Nat \ {0}
      /\ mtime \in [Edited \cup Steps -> 0..clock]
  BY StampsLater DEF TypeOK
<1>3. \A f : left(f) \in {"old", "nothing", "partial"} /\ (left(f) # "old" => f \in S)
             /\ (left(f) = "partial" => "partial" \in Leftovers)
  BY EnvironmentAssumption
<1>4. /\ clock' = IF \E s \in S : left(s) = "partial" THEN t ELSE clock
      /\ \A s \in Steps : artifact'[s] = CASE left(s) = "old" -> artifact[s]
                                          [] left(s) = "nothing" -> None
                                          [] OTHER -> [flags |-> graph.flags, from |-> None]
      /\ \A f \in Edited \cup Steps : mtime'[f] = CASE left(f) = "old" -> mtime[f]
                                                     [] left(f) = "nothing" -> 0
                                                     [] OTHER -> t
      /\ DOMAIN artifact' = Steps /\ mtime' = [f \in Edited \cup Steps |-> mtime'[f]]
  BY <1>1, <1>2
<1>. HIDE DEF left
<1>5. clock' \in Nat \ {0} /\ clock' >= clock
  BY <1>2, <1>4
<1>6. ASSUME NEW f \in Edited \cup Steps PROVE mtime'[f] \in 0..clock'
  BY <1>2, <1>3, <1>4, <1>5
<1>7. ASSUME NEW f \in Edited PROVE mtime'[f] = mtime[f]
  <2>1. left(f) = "old"
    BY <1>3, RolesAssumption
  <2>. QED  BY <1>4, <2>1
<1>8. ASSUME NEW s \in Steps
      PROVE  \/ artifact'[s] = artifact[s] /\ mtime'[s] = mtime[s]
             \/ s \in S /\ artifact'[s] = None /\ mtime'[s] = 0
             \/ /\ s \in S /\ "partial" \in Leftovers
                /\ artifact'[s] = [flags |-> graph.flags, from |-> None]
  BY <1>3, <1>4
<1>. QED  BY <1>4, <1>5, <1>6, <1>7, <1>8

(* Initially nothing runs.                                                 *)
LEMMA StateInit == Init => StateInv
BY DEF Init, Idle, StateInv

(* No step is skipped or started before those that make its inputs.        *)
LEMMA StateNext == TypeOK /\ StateInv /\ [Next]_vars => StateInv'
<1>. SUFFICES ASSUME TypeOK, StateInv, [Next]_vars PROVE StateInv'
  OBVIOUS
<1>. USE DEF disk, process, At, Idle
<1>1. CASE UNCHANGED vars
  BY <1>1 DEF vars, StateInv
<1>2. ASSUME NEW f \in Edited, Edit(f) PROVE StateInv'
  BY <1>2 DEF Edit, StateInv
<1>3. ASSUME NEW m \in Manifests, NEW mode \in Modes, NEW o \in Overrides \cup {None},
             Invoke(m, mode, o)
      PROVE  StateInv'
  BY <1>3 DEF Invoke, StateInv, TypeOK
<1>4. CASE ReadCache \/ ReadManifest \/ EmitParsed \/ EmitFails \/ StartExecute \/ RunTool
  <2>1. /\ state' = state /\ run.at \in {"parse", "emit", "parsed"}
        /\ run'.at # "succeeded"
    BY <1>4 DEF ReadCache, ReadManifest, EmitParsed, EmitFails, StartExecute, RunTool, TypeOK
  <2>2. \A s \in Steps : state[s] = "waiting"
    BY <2>1 DEF StateInv, TypeOK
  <2>. QED  BY <2>1, <2>2 DEF StateInv
<1>5. ASSUME NEW s \in Steps, Skip(s) \/ Start(s) PROVE StateInv'
  BY <1>5 DEF Skip, Start, Runnable, StateInv, TypeOK
<1>6. ASSUME NEW s \in Steps, Finish(s) \/ Fail(s) PROVE StateInv'
  BY <1>6 DEF Finish, Fail, StateInv, TypeOK
<1>7. CASE FailBuild \/ Return \/ Interrupt
  BY <1>7 DEF FailBuild, Return, Interrupt, Forget, StateInv
<1>8. CASE Succeed \/ SucceedUnsaved
  BY <1>8 DEF Succeed, SucceedUnsaved, StateInv, TypeOK
<1>. QED  BY <1>1, <1>2, <1>3, <1>4, <1>5, <1>6, <1>7, <1>8 DEF Next

(* Every action keeps the types.                                           *)
LEMMA TypeNext == TypeOK /\ StateInv /\ [Next]_vars => TypeOK'
<1>. SUFFICES ASSUME TypeOK, StateInv, [Next]_vars PROVE TypeOK'
  OBVIOUS
<1>. USE FilesAssumption, EnvironmentAssumption, RolesAssumption DEF disk, process, At, Loaded, Idle
<1>1. CASE UNCHANGED vars
  BY <1>1 DEF vars, TypeOK
<1>2. ASSUME NEW f \in Edited, Edit(f) PROVE TypeOK'
  <2>1. PICK t \in Stamps : clock' = t /\ mtime' = [mtime EXCEPT ![f] = t]
    BY <1>2 DEF Edit
  <2>2. t \in Nat \ {0} /\ t >= clock
    BY StampsLater DEF TypeOK
  <2>3. clock' \in Nat \ {0} /\ mtime' \in [Edited \cup Steps -> 0..clock']
        /\ \A g \in Edited : mtime'[g] # 0
    BY <2>1, <2>2 DEF TypeOK
  <2>4. /\ edits' \in 0..MaxEdits /\ edits' = edits + 1
        /\ version' = [version EXCEPT ![f] = @ + 1]
    BY <1>2 DEF Edit, TypeOK
  <2>5. \A g \in Edited : version'[g] \in Nat /\ version[g] <= version'[g] /\ version'[g] <= edits'
    BY <2>4 DEF TypeOK
  <2>6. version' \in [Edited -> 0..MaxEdits]
    BY <2>4, <2>5 DEF TypeOK
  <2>7. due' \in [Manifests -> Nat] /\ \A m \in Manifests : due'[m] <= version'[m]
    <3>1. due' = [m \in Manifests |-> IF m = f /\ run.at = "idle" THEN version'[m] ELSE due[m]]
      BY <1>2 DEF Edit
    <3>2. \A m \in Manifests : m \in Edited /\ due[m] \in Nat /\ due[m] <= version[m] /\ version[m] \in Nat
      BY DEF TypeOK, Edited
    <3>. QED  BY <2>5, <3>1, <3>2
  <2>8. bin # None => bin.time \in 0..clock'
    BY <2>1, <2>2 DEF TypeOK
  <2>. QED  BY <1>2, <2>3, <2>4, <2>5, <2>6, <2>7, <2>8 DEF Edit, TypeOK
<1>3. ASSUME NEW m \in Manifests, NEW mode \in Modes, NEW o \in Overrides \cup {None},
             Invoke(m, mode, o)
      PROVE  TypeOK'
  BY <1>3 DEF Invoke, TypeOK
<1>4. CASE ReadCache
  BY <1>4 DEF ReadCache, CacheValid, TypeOK
<1>5. CASE ReadManifest
  <2>1. ManifestFlags(run.manifest) \in Flags
    BY <1>5 DEF ReadManifest, ManifestFlags, Flags, TypeOK, Edited
  <2>2. NoHashes \in Hashes
    BY DEF NoHashes, Hashes
  <2>3. graph' \in [flags : Flags, discovered : SUBSET Compiles, hash : Hashes, loaded : Hashes]
    BY <1>5, <2>1, <2>2 DEF ReadManifest, TypeOK
  <2>. QED  BY <1>5, <2>3 DEF ReadManifest, Fault, TypeOK
<1>6. CASE EmitParsed
  <2>1. Loaded /\ WriteCache
    BY <1>6 DEF EmitParsed
  <2>2. mtime \in [Edited \cup Steps -> 0..clock']
    BY <2>1, WriteCacheType DEF TypeOK
  <2>. QED  BY <1>6, <2>1, <2>2, WriteCacheType DEF EmitParsed, TypeOK
<1>7. CASE EmitFails
  BY <1>7 DEF EmitFails, Fault, TypeOK
<1>8. CASE StartExecute
  <2>1. graph' \in [flags : Flags, discovered : SUBSET Compiles, hash : Hashes, loaded : Hashes]
    BY <1>8 DEF StartExecute, TypeOK, Flags
  <2>. QED  BY <1>8, <2>1 DEF StartExecute, TypeOK
<1>9. CASE RunTool
  <2>1. Cleaned \subseteq Steps
    BY DEF Cleaned, Compiles
  <2>2. mtime' \in [Edited \cup Steps -> 0..clock] /\ \A f \in Edited : mtime'[f] # 0
    BY <1>9, <2>1 DEF RunTool, TypeOK
  <2>. QED  BY <1>9, <2>2 DEF RunTool, TypeOK
<1>10. ASSUME NEW s \in Steps, Skip(s) \/ Start(s) PROVE TypeOK'
  <2>1. build_file_slot' \in {build_file_slot, mtime[run.manifest]} /\ run.manifest \in Edited
    BY <1>10 DEF Skip, Start, Runnable, FillSlot, BuildFileTime, TypeOK, Edited
  <2>2. build_file_slot' \in Nat
    BY <2>1 DEF TypeOK
  <2>. QED  BY <1>10, <2>2 DEF Skip, Start, TypeOK
<1>11. ASSUME NEW s \in Steps, Finish(s) PROVE TypeOK'
  <2>1. PICK t \in Stamps : clock' = t /\ mtime' = [mtime EXCEPT ![s] = t]
    BY <1>11 DEF Finish
  <2>2. t \in Nat \ {0} /\ t >= clock
    BY StampsLater DEF TypeOK
  <2>3. clock' \in Nat \ {0} /\ mtime' \in [Edited \cup Steps -> 0..clock']
        /\ \A g \in Edited : mtime'[g] # 0
    BY <2>1, <2>2 DEF TypeOK
  <2>4. bin # None => bin.time \in 0..clock'
    BY <2>1, <2>2 DEF TypeOK
  <2>5. Loaded /\ graph' \in [flags : Flags, discovered : SUBSET Compiles, hash : Hashes, loaded : Hashes]
    BY <1>11 DEF Finish, StateInv, TypeOK, Hashes
  <2>. QED  BY <1>11, <2>3, <2>4, <2>5, SMTT(30) DEF Finish, TypeOK
<1>12. ASSUME NEW s \in Steps, Fail(s) PROVE TypeOK'
  <2>1. Abandon({s}) /\ {s} \in SUBSET Steps
    BY <1>12 DEF Fail
  <2>2. bin # None => bin.time \in 0..clock'
    BY <2>1, AbandonType DEF TypeOK
  <2>. QED  BY <1>12, <2>1, <2>2, AbandonType DEF Fail, TypeOK
<1>13. CASE FailBuild
  BY <1>13 DEF FailBuild, Forget, TypeOK
<1>14. CASE Succeed
  <2>1. Loaded /\ (WriteCache \/ UNCHANGED <<clock, bin>>)
    BY <1>14 DEF Succeed
  <2>2. mtime \in [Edited \cup Steps -> 0..clock'] /\ clock' \in Nat \ {0}
        /\ (bin' # None => bin' \in [time : 0..clock', flags : Flags,
                                      discovered : SUBSET Compiles, hash : Hashes])
    BY <2>1, WriteCacheType DEF TypeOK
  <2>. QED  BY <1>14, <2>2 DEF Succeed, TypeOK
<1>15. CASE SucceedUnsaved
  BY <1>15 DEF SucceedUnsaved, Fault, TypeOK
<1>16. CASE Return
  BY <1>16 DEF Return, Forget, TypeOK
<1>17. CASE Interrupt
  <2>1. Abandon(Running) /\ Running \in SUBSET Steps
    BY <1>17 DEF Interrupt, Running
  <2>2. bin # None => bin.time \in 0..clock'
    BY <2>1, AbandonType DEF TypeOK
  <2>. QED  BY <1>17, <2>1, <2>2, AbandonType DEF Interrupt, Forget, TypeOK
<1>. QED  BY <1>1, <1>2, <1>3, <1>4, <1>5, <1>6, <1>7, <1>8, <1>9, <1>10, <1>11, <1>12, <1>13,
             <1>14, <1>15, <1>16, <1>17 DEF Next

-----------------------------------------------------------------------------
(* What only some actions change.                                          *)

(* The files a user edits are changed by nobody else, and a run that is    *)
(* disturbed once stays so.                                                *)
LEMMA EditedFiles ==
    ASSUME TypeOK, [Next]_vars, \A f \in Edited : ~Edit(f)
    PROVE  UNCHANGED <<version, raced, due>> /\ \A f \in Edited : mtime'[f] = mtime[f]
<1>. USE DEF disk, process
<1>1. CASE UNCHANGED vars
  BY <1>1 DEF vars
<1>2. ASSUME NEW m \in Manifests, NEW mode \in Modes, NEW o \in Overrides \cup {None},
             Invoke(m, mode, o)
      PROVE  UNCHANGED <<version, raced, due, mtime>>
  BY <1>2 DEF Invoke
<1>3. CASE ReadCache \/ ReadManifest \/ EmitParsed \/ EmitFails \/ StartExecute \/ FailBuild
           \/ Succeed \/ SucceedUnsaved \/ Return
  BY <1>3 DEF ReadCache, ReadManifest, EmitParsed, EmitFails, StartExecute, FailBuild,
              Succeed, SucceedUnsaved, Return
<1>4. CASE RunTool
  <2>1. Cleaned \cap Edited = {}
    BY RolesAssumption DEF Cleaned, Compiles
  <2>2. \A f \in Edited : f \in DOMAIN mtime /\ f \notin Cleaned
    BY <2>1 DEF TypeOK
  <2>. QED  BY <1>4, <2>2 DEF RunTool
<1>5. ASSUME NEW s \in Steps, Skip(s) \/ Start(s)
      PROVE  UNCHANGED <<version, raced, due, mtime>>
  BY <1>5 DEF Skip, Start
<1>6. ASSUME NEW s \in Steps, Finish(s)
      PROVE  UNCHANGED <<version, raced, due>> /\ \A f \in Edited : mtime'[f] = mtime[f]
  BY <1>6, RolesAssumption DEF Finish, TypeOK
<1>7. ASSUME NEW s \in Steps, Fail(s)
      PROVE  UNCHANGED <<version, raced, due>> /\ \A f \in Edited : mtime'[f] = mtime[f]
  <2>1. Abandon({s}) /\ {s} \in SUBSET Steps
    BY <1>7 DEF Fail
  <2>. QED  BY <1>7, <2>1, AbandonType DEF Fail
<1>8. CASE Interrupt
  <2>1. Abandon(Running) /\ Running \in SUBSET Steps
    BY <1>8 DEF Interrupt, Running
  <2>. QED  BY <1>8, <2>1, AbandonType DEF Interrupt
<1>. QED  BY <1>1, <1>2, <1>3, <1>4, <1>5, <1>6, <1>7, <1>8 DEF Next

(* An edit makes the file as new as anything there is: no cache is valid   *)
(* for a manifest that has just been edited.                               *)
LEMMA EditIsNewest ==
    ASSUME TypeOK, NEW f \in Edited, Edit(f)
    PROVE  /\ mtime'[f] \in Nat /\ mtime'[f] >= clock
           /\ \A g \in Edited \cup Steps : g # f => mtime'[g] = mtime[g] /\ mtime[g] <= mtime'[f]
           /\ \A g \in Edited : g # f => version'[g] = version[g]
           /\ f \in Manifests => ~CacheValid(f)'
<1>1. PICK t \in Stamps : clock' = t /\ mtime' = [mtime EXCEPT ![f] = t]
  BY DEF Edit
<1>2. t \in Nat \ {0} /\ t >= clock
  BY StampsLater DEF TypeOK
<1>3. mtime'[f] = t /\ \A g \in Edited \cup Steps : g # f => mtime'[g] = mtime[g]
  BY <1>1 DEF TypeOK
<1>4. \A g \in Edited : g # f => version'[g] = version[g]
  BY DEF Edit, TypeOK
<1>5. bin' = bin /\ (bin # None => bin.time \in 0..clock)
  BY DEF Edit, TypeOK
<1>6. ~CacheValid(f)'
  BY <1>2, <1>3, <1>5 DEF CacheValid, TypeOK
<1>7. \A g \in Edited \cup Steps : mtime[g] \in 0..clock
  BY DEF TypeOK
<1>. QED  BY <1>2, <1>3, <1>4, <1>6, <1>7 DEF TypeOK

(* Who writes the cache, and what he writes.                               *)
LEMMA CacheWriters ==
    ASSUME TypeOK, [Next]_vars
    PROVE  \/ bin' = bin
           \/ /\ EmitParsed \/ Succeed
              /\ Loaded /\ graph' = graph
              /\ bin'.time = clock' /\ clock' >= clock
              /\ bin'.flags = graph.flags /\ bin'.discovered = graph.discovered
              /\ bin'.hash = graph.hash
<1>1. CASE EmitParsed \/ Succeed
  <2>1. Loaded /\ (WriteCache \/ bin' = bin) /\ graph' = graph
    BY <1>1 DEF EmitParsed, Succeed, Loaded, process
  <2>2. CASE WriteCache
    BY <1>1, <2>1, <2>2, WriteCacheType
  <2>. QED  BY <2>1, <2>2
<1>2. CASE ~(EmitParsed \/ Succeed)
  BY <1>2 DEF Next, vars, disk, Edit, Invoke, ReadCache, ReadManifest, EmitFails, StartExecute,
              RunTool, Skip, Start, Finish, Fail, FailBuild, SucceedUnsaved, Return, Interrupt
<1>. QED  BY <1>1, <1>2

(* How the graph of a run changes.                                         *)
LEMMA GraphSteps ==
    ASSUME NoOverrides, TypeOK, StateInv, [Next]_vars, Loaded'
    PROVE  \/ Loaded /\ graph' = graph
           \/ ReadCache
           \/ ReadManifest
           \/ \E s \in Steps : /\ Finish(s) /\ Loaded
                               /\ graph'.flags = graph.flags /\ graph'.discovered = graph.discovered
                               /\ graph'.loaded = graph.loaded
                               /\ graph'.hash[s] = graph.flags
                               /\ \A x \in Steps : x # s => graph'.hash[x] = graph.hash[x]
<1>. USE DEF disk, process, At, Idle, Loaded
<1>1. CASE EmitParsed \/ EmitFails \/ Succeed \/ SucceedUnsaved \/ UNCHANGED vars
  BY <1>1 DEF EmitParsed, EmitFails, Succeed, SucceedUnsaved, vars
<1>2. CASE StartExecute
  BY <1>2 DEF StartExecute, NoOverrides, TypeOK
<1>3. CASE RunTool \/ FailBuild \/ Return \/ Interrupt
  BY <1>3 DEF RunTool, FailBuild, Return, Interrupt, Forget
<1>4. ASSUME NEW f \in Edited, Edit(f) PROVE Loaded /\ graph' = graph
  BY <1>4 DEF Edit
<1>5. ASSUME NEW s \in Steps, Skip(s) \/ Start(s) \/ Fail(s) PROVE Loaded /\ graph' = graph
  BY <1>5 DEF Skip, Start, Fail
<1>6. ASSUME NEW m \in Manifests, NEW mode \in Modes, NEW o \in Overrides \cup {None},
             Invoke(m, mode, o)
      PROVE  FALSE
  BY <1>6 DEF Invoke
<1>7. ASSUME NEW s \in Steps, Finish(s)
      PROVE  /\ Loaded
             /\ graph'.flags = graph.flags /\ graph'.discovered = graph.discovered
             /\ graph'.loaded = graph.loaded
             /\ graph'.hash[s] = graph.flags
             /\ \A x \in Steps : x # s => graph'.hash[x] = graph.hash[x]
  <2>1. Loaded
    BY <1>7 DEF Finish, StateInv
  <2>2. /\ graph' = [graph EXCEPT !.hash[s] = graph.flags]
        /\ graph \in [flags : Flags, discovered : SUBSET Compiles, hash : Hashes, loaded : Hashes]
    BY <1>7, <2>1 DEF Finish, TypeOK
  <2>. QED  BY <2>1, <2>2 DEF Hashes
<1>. QED  BY <1>1, <1>2, <1>3, <1>4, <1>5, <1>6, <1>7 DEF Next

(* How a step comes to run and to be done.                                 *)
LEMMA StateSteps ==
    ASSUME TypeOK, StateInv, [Next]_vars, NEW s \in Steps
    PROVE  /\ state'[s] = "running" =>
                  (state[s] = "running" /\ output'[s] = output[s]) \/ Start(s)
           /\ state'[s] = "done" => state[s] = "done" \/ Skip(s) \/ Finish(s)
<1>. USE DEF disk, process
<1>1. ASSUME NEW x \in Steps, Start(x) \/ Skip(x) \/ Finish(x) \/ Fail(x)
      PROVE  /\ state'[s] = "running" =>
                    (state[s] = "running" /\ output'[s] = output[s]) \/ Start(s)
             /\ state'[s] = "done" => state[s] = "done" \/ Skip(s) \/ Finish(s)
  BY <1>1 DEF Start, Skip, Finish, Fail, TypeOK
<1>2. CASE FailBuild \/ Return \/ Interrupt
  BY <1>2 DEF FailBuild, Return, Interrupt, Forget
<1>3. ASSUME NEW f \in Edited, Edit(f) PROVE state' = state /\ output' = output
  BY <1>3 DEF Edit
<1>4. ASSUME NEW m \in Manifests, NEW mode \in Modes, NEW o \in Overrides \cup {None},
             Invoke(m, mode, o)
      PROVE  state' = state /\ output' = output
  BY <1>4 DEF Invoke
<1>5. CASE \/ ReadCache \/ ReadManifest \/ EmitParsed \/ EmitFails \/ StartExecute \/ RunTool
           \/ Succeed \/ SucceedUnsaved \/ UNCHANGED vars
  BY <1>5 DEF ReadCache, ReadManifest, EmitParsed, EmitFails, StartExecute, RunTool,
              Succeed, SucceedUnsaved, vars
<1>. QED  BY <1>1, <1>2, <1>3, <1>4, <1>5 DEF Next

-----------------------------------------------------------------------------
(* What the cache and the graph say of command lines.                      *)

(* There is no cache at first and nothing is loaded.                       *)
LEMMA NamedInit == Init => NamedInv /\ OwnHashes
BY DEF Init, Idle, NamedInv, OwnHashes, CacheValid, Loaded

(* What a run has loaded is what the manifest says, and what is saved is   *)
(* what was loaded.                                                        *)
LEMMA NamedNext ==
    ASSUME OneManifest, NoOverrides, TypeOK, StateInv, NamedInv, [Next]_vars
    PROVE  NamedInv'
<1>. USE DEF disk, process, At, Idle, Loaded
<1>. DEFINE Quiet == ~raced \/ EditsDuringBuild \cap Manifests = {}
<1>1. ASSUME NEW f \in Edited, Edit(f), Quiet'
      PROVE  NamedInv'
  <2>1. Quiet /\ bin' = bin /\ graph' = graph /\ run' = run
    BY <1>1 DEF Edit
  <2>2. CASE f \in Manifests
    <3>1. run.at = "idle"
      BY <1>1, <2>2 DEF Edit, TypeOK
    <3>2. \A m \in Manifests : ~CacheValid(m)'
      BY <1>1, <2>2, EditIsNewest DEF OneManifest
    <3>. QED  BY <2>1, <3>1, <3>2 DEF NamedInv
  <2>3. CASE f \notin Manifests
    <3>1. \A m \in Manifests : /\ CacheValid(m)' <=> CacheValid(m)
                               /\ ManifestFlags(m)' = ManifestFlags(m)
      BY <1>1, <2>1, <2>3, EditIsNewest DEF CacheValid, ManifestFlags, Edited
    <3>. QED  BY <2>1, <3>1 DEF NamedInv
  <2>. QED  BY <2>2, <2>3
<1>2. ASSUME \A f \in Edited : ~Edit(f), Quiet'
      PROVE  NamedInv'
  <2>1. Quiet /\ version' = version /\ \A f \in Edited : mtime'[f] = mtime[f]
    BY <1>2, EditedFiles
  <2>2. \A m \in Manifests : /\ ManifestFlags(m)' = ManifestFlags(m)
                             /\ bin' = bin => (CacheValid(m)' <=> CacheValid(m))
    BY <2>1 DEF CacheValid, ManifestFlags, Edited
  <2>3. \A m \in Manifests : CacheValid(m) => bin.flags = ManifestFlags(m)
    BY <2>1 DEF NamedInv
  <2>4. Loaded => \A m \in Manifests : graph.flags = ManifestFlags(m)
    BY <2>1 DEF NamedInv
  <2>5. \A m \in Manifests : CacheValid(m)' => bin'.flags = ManifestFlags(m)'
    BY <2>2, <2>3, <2>4, CacheWriters
  <2>6. Loaded' => \A m \in Manifests : graph'.flags = ManifestFlags(m)
    BY <2>3, <2>4, GraphSteps DEF ReadCache, ReadManifest, OneManifest, TypeOK
  <2>. QED  BY <2>2, <2>5, <2>6 DEF NamedInv
<1>. QED  BY <1>1, <1>2 DEF NamedInv

(* There is no cache at first and nothing is loaded.                       *)
LEMMA DueInit == Init => DueInv
BY DEF Init, Idle, DueInv, CacheValid, Loaded

(* An edit between two runs leaves no valid cache and nothing loaded; one  *)
(* during a run adds to what may be loaded, and the cache is only written  *)
(* with what was.                                                          *)
LEMMA DueNext ==
    ASSUME OneManifest, NoOverrides, TypeOK, StateInv, DueInv, [Next]_vars
    PROVE  DueInv'
<1>. USE DEF disk, process, At, Idle, Loaded
<1>1. \A m \in Manifests : m \in Edited /\ due[m] \in Nat /\ version[m] \in Nat /\ due[m] <= version[m]
  BY DEF TypeOK, Edited
<1>2. ASSUME NEW f \in Edited, Edit(f)
      PROVE  DueInv'
  <2>1. bin' = bin /\ graph' = graph /\ run' = run
    BY <1>2 DEF Edit
  <2>2. CASE run.at = "idle" /\ f \in Manifests
    <3>1. \A m \in Manifests : ~CacheValid(m)'
      BY <1>2, <2>2, EditIsNewest DEF OneManifest
    <3>. QED  BY <2>1, <2>2, <3>1 DEF DueInv
  <2>3. CASE ~(run.at = "idle" /\ f \in Manifests)
    <3>1. \A m \in Manifests : due'[m] = due[m]
      BY <1>2, <2>3 DEF Edit
    <3>2. \A m \in Manifests : version'[m] \in {version[m], version[m] + 1}
      BY <1>1, <1>2 DEF Edit, TypeOK
    <3>3. ASSUME NEW flags, NEW m \in Manifests, SinceDue(flags, m)
          PROVE  \E v \in due'[m] .. version'[m] : flags = <<m, v>>
      <4>1. PICK v \in due[m] .. version[m] : flags = <<m, v>>
        BY <3>3 DEF SinceDue
      <4>2. v \in due'[m] .. version'[m]
        BY <1>1, <3>1, <3>2
      <4>. QED  BY <4>1, <4>2
    <3>4. \A m \in Manifests : CacheValid(m)' => CacheValid(m)
      BY <1>1, <1>2, <2>1, EditIsNewest DEF CacheValid
    <3>5. ASSUME NEW m \in Manifests, CacheValid(m)'
          PROVE  \E v \in due'[m] .. version'[m] : bin'.flags = <<m, v>>
      BY <2>1, <3>3, <3>4, <3>5 DEF DueInv
    <3>6. ASSUME Loaded', NEW m \in Manifests
          PROVE  \E v \in due'[m] .. version'[m] : graph'.flags = <<m, v>>
      BY <2>1, <3>3, <3>6 DEF DueInv
    <3>. QED  BY <3>5, <3>6 DEF DueInv, SinceDue
  <2>. QED  BY <2>2, <2>3
<1>3. ASSUME \A f \in Edited : ~Edit(f)
      PROVE  DueInv'
  <2>1. version' = version /\ due' = due /\ \A f \in Edited : mtime'[f] = mtime[f]
    BY <1>3, EditedFiles
  <2>2. \A flags, m : SinceDue(flags, m) => \E v \in due'[m] .. version'[m] : flags = <<m, v>>
    BY <2>1 DEF SinceDue
  <2>3. ASSUME NEW m \in Manifests, CacheValid(m)' PROVE SinceDue(bin'.flags, m)
    <3>1. CASE bin' = bin
      <4>1. CacheValid(m)
        BY <1>1, <2>1, <2>3, <3>1 DEF CacheValid
      <4>. QED  BY <3>1, <4>1 DEF DueInv
    <3>2. CASE bin' # bin
      <4>1. Loaded /\ bin'.flags = graph.flags
        BY <3>2, CacheWriters
      <4>. QED  BY <4>1 DEF DueInv
    <3>. QED  BY <3>1, <3>2
  <2>4. ASSUME Loaded', NEW m \in Manifests PROVE SinceDue(graph'.flags, m)
    <3>1. CASE ReadCache
      <4>1. CacheValid(m) /\ graph'.flags = bin.flags
        BY <3>1 DEF ReadCache, OneManifest, TypeOK
      <4>. QED  BY <4>1 DEF DueInv
    <3>2. CASE ReadManifest
      <4>1. graph'.flags = <<m, version[m]>>
        BY <3>2 DEF ReadManifest, ManifestFlags, OneManifest, TypeOK
      <4>. QED  BY <1>1, <4>1 DEF SinceDue
    <3>3. CASE Loaded /\ graph'.flags = graph.flags
      BY <3>3 DEF DueInv
    <3>. QED  BY <2>4, <3>1, <3>2, <3>3, GraphSteps
  <2>5. \A m \in Manifests : CacheValid(m)' => \E v \in due'[m] .. version'[m] : bin'.flags = <<m, v>>
    BY <2>2, <2>3
  <2>6. Loaded' => \A m \in Manifests : \E v \in due'[m] .. version'[m] : graph'.flags = <<m, v>>
    BY <2>2, <2>4
  <2>. QED  BY <2>5, <2>6 DEF DueInv, SinceDue
<1>. QED  BY <1>2, <1>3

(* A hash is noted for the command line of the graph it is noted in.       *)
LEMMA OwnNext ==
    ASSUME NoOverrides, TypeOK, StateInv, OwnHashes, [Next]_vars
    PROVE  OwnHashes'
<1>. USE DEF disk, process, At, Idle, Loaded
<1>1. bin' # None => \A s \in Steps : bin'.hash[s] \in {None, bin'.flags}
  BY CacheWriters DEF OwnHashes
<1>2. Loaded' => \A s \in Steps : graph'.hash[s] \in {None, graph'.flags}
  BY GraphSteps DEF ReadCache, ReadManifest, CacheValid, NoHashes, OwnHashes
<1>. QED  BY <1>1, <1>2 DEF OwnHashes

-----------------------------------------------------------------------------
(* The hashes tell the truth.                                              *)

(* A cache only becomes valid by being written.                            *)
LEMMA ValidAfter ==
    ASSUME TypeOK, [Next]_vars, bin' = bin
    PROVE  \A m \in Manifests : CacheValid(m)' => CacheValid(m)
<1>1. ASSUME NEW f \in Edited, Edit(f), NEW m \in Manifests, CacheValid(m)' PROVE CacheValid(m)
  BY <1>1, EditIsNewest DEF CacheValid, Edited
<1>2. ASSUME \A f \in Edited : ~Edit(f) PROVE \A m \in Manifests : CacheValid(m)' => CacheValid(m)
  BY <1>2, EditedFiles DEF CacheValid, Edited
<1>. QED  BY <1>1, <1>2

(* Commands run in a run that builds, and only they make outputs.          *)
LEMMA ArtifactSteps ==
    ASSUME TypeOK, StateInv, [Next]_vars, NEW s \in Steps,
           state[s] = "running" => output[s].flags = graph.flags
    PROVE  \/ artifact'[s] = artifact[s]
           \/ artifact'[s] = None
           \/ /\ run.at = "execute" /\ state[s] = "running"
              /\ artifact'[s].flags = graph.flags /\ bin' = bin
<1>. USE DEF disk, process
<1>1. \A x \in Steps : state[x] = "running" => run.at = "execute"
  BY DEF StateInv
<1>2. ASSUME NEW S \in SUBSET Steps, Abandon(S), bin' = bin, \A x \in S : state[x] = "running"
      PROVE  \/ artifact'[s] = artifact[s]
             \/ artifact'[s] = None
             \/ /\ run.at = "execute" /\ state[s] = "running"
                /\ artifact'[s].flags = graph.flags /\ bin' = bin
  BY <1>1, <1>2, AbandonType
<1>3. CASE Interrupt
  <2>1. Abandon(Running) /\ bin' = bin /\ Running \in SUBSET Steps
        /\ \A x \in Running : state[x] = "running"
    BY <1>3 DEF Interrupt, Running
  <2>. QED  BY <1>2, <2>1
<1>4. ASSUME NEW x \in Steps, Fail(x)
      PROVE  \/ artifact'[s] = artifact[s]
             \/ artifact'[s] = None
             \/ /\ run.at = "execute" /\ state[s] = "running"
                /\ artifact'[s].flags = graph.flags /\ bin' = bin
  <2>1. Abandon({x}) /\ bin' = bin /\ {x} \in SUBSET Steps /\ \A y \in {x} : state[y] = "running"
    BY <1>4 DEF Fail
  <2>. QED  BY <1>2, <2>1
<1>5. ASSUME NEW x \in Steps, Finish(x)
      PROVE  \/ artifact'[s] = artifact[s]
             \/ /\ run.at = "execute" /\ state[s] = "running"
                /\ artifact'[s].flags = graph.flags /\ bin' = bin
  <2>1. artifact' = [artifact EXCEPT ![x] = output[x]] /\ bin' = bin /\ state[x] = "running"
    BY <1>5 DEF Finish
  <2>2. CASE x = s
    BY <1>1, <2>1, <2>2 DEF TypeOK
  <2>3. CASE x # s
    BY <2>1, <2>3 DEF TypeOK
  <2>. QED  BY <2>2, <2>3
<1>6. CASE RunTool
  BY <1>6 DEF RunTool
<1>7. ASSUME NEW x \in Steps, Skip(x) \/ Start(x) PROVE artifact' = artifact
  BY <1>7 DEF Skip, Start
<1>8. ASSUME NEW f \in Edited, Edit(f) PROVE artifact' = artifact
  BY <1>8 DEF Edit
<1>9. ASSUME NEW m \in Manifests, NEW mode \in Modes, NEW o \in Overrides \cup {None},
             Invoke(m, mode, o)
      PROVE  artifact' = artifact
  BY <1>9 DEF Invoke
<1>10. CASE \/ ReadCache \/ ReadManifest \/ EmitParsed \/ EmitFails \/ StartExecute \/ FailBuild
            \/ Succeed \/ SucceedUnsaved \/ Return \/ UNCHANGED vars
  BY <1>10 DEF ReadCache, ReadManifest, EmitParsed, EmitFails, StartExecute, FailBuild, Succeed,
               SucceedUnsaved, Return, vars
<1>. QED  BY <1>3, <1>4, <1>5, <1>6, <1>7, <1>8, <1>9, <1>10 DEF Next

(* Between reading a manifest and writing the cache there is only that.    *)
LEMMA EmitSteps ==
    ASSUME TypeOK, StateInv, [Next]_vars
    PROVE  /\ run.at = "emit" /\ run'.at # "idle" =>
                  EmitParsed \/ EmitFails \/ UNCHANGED <<run, graph, bin, faults>>
           /\ run'.at = "emit" => ReadManifest \/ UNCHANGED <<run, graph, bin, faults>>
<1>. USE DEF disk, process, At, Idle
<1>1. CASE UNCHANGED vars
  BY <1>1 DEF vars
<1>2. ASSUME NEW f \in Edited, Edit(f) PROVE UNCHANGED <<run, graph, bin, faults>>
  BY <1>2 DEF Edit
<1>3. ASSUME NEW m \in Manifests, NEW mode \in Modes, NEW o \in Overrides \cup {None},
             Invoke(m, mode, o)
      PROVE  run.at = "idle" /\ run'.at = "parse"
  BY <1>3 DEF Invoke
<1>4. ASSUME NEW s \in Steps, Skip(s) \/ Start(s) \/ Finish(s) \/ Fail(s)
      PROVE  run.at # "emit" /\ run' = run
  BY <1>4 DEF Skip, Start, Finish, Fail, Runnable, StateInv
<1>5. CASE \/ ReadCache \/ ReadManifest \/ EmitParsed \/ EmitFails \/ StartExecute \/ RunTool
           \/ FailBuild \/ Succeed \/ SucceedUnsaved \/ Return \/ Interrupt
  BY <1>5 DEF ReadCache, ReadManifest, EmitParsed, EmitFails, StartExecute, RunTool, FailBuild,
              Succeed, SucceedUnsaved, Return, Interrupt, Forget, TypeOK
<1>. QED  BY <1>1, <1>2, <1>3, <1>4, <1>5 DEF Next

(* At first there is no hash.                                              *)
LEMMA HashInit == Init => HashInv
BY EnvironmentAssumption DEF Init, Idle, HashInv, Valid, CacheValid, Loaded

(* Every action keeps the hashes true.                                     *)
LEMMA HashNext ==
    ASSUME OneManifest, NoOverrides, OneMishap, TypeOK, StateInv, NamedInv, OwnHashes, HashInv,
           [Next]_vars
    PROVE  HashInv'
<1>. USE DEF disk, process, At, Idle
<1>1. \A s \in Steps : \/ artifact'[s] = artifact[s]
                       \/ artifact'[s] = None
                       \/ /\ run.at = "execute" /\ state[s] = "running"
                          /\ artifact'[s].flags = graph.flags /\ bin' = bin
  BY ArtifactSteps DEF HashInv
<1>2. bin' = bin => (Valid' => Valid)
  BY ValidAfter DEF Valid
<1>3. EmitParsed \/ Succeed => artifact' = artifact
  BY DEF EmitParsed, Succeed
<1>4. Valid' => \A s \in Steps : bin'.hash[s] # None /\ artifact'[s] # None =>
                    artifact'[s].flags = bin'.hash[s]
  <2>1. CASE bin' = bin
    <3>1. SUFFICES ASSUME Valid', NEW s \in Steps, bin.hash[s] # None, artifact'[s] # None
                   PROVE  artifact'[s].flags = bin.hash[s]
      BY <2>1
    <3>2. Valid /\ bin # None
      BY <1>2, <2>1, <3>1 DEF Valid, CacheValid
    <3>3. bin.hash[s] = bin.flags
      BY <3>1, <3>2 DEF OwnHashes
    <3>4. CASE artifact'[s] = artifact[s]
      BY <3>1, <3>2, <3>4 DEF HashInv
    <3>5. CASE run.at = "execute" /\ artifact'[s].flags = graph.flags
      BY <3>1, <3>2, <3>3, <3>5 DEF HashInv
    <3>. QED  BY <1>1, <3>1, <3>4, <3>5
  <2>2. CASE bin' # bin
    BY <1>3, <2>2, CacheWriters DEF HashInv
  <2>. QED  BY <2>1, <2>2
<1>5. Loaded' => \A s \in Steps : graph'.hash[s] # None /\ artifact'[s] # None =>
                     artifact'[s].flags = graph'.hash[s]
  <2>1. SUFFICES ASSUME Loaded', NEW s \in Steps, graph'.hash[s] # None, artifact'[s] # None
                 PROVE  artifact'[s].flags = graph'.hash[s]
    OBVIOUS
  <2>2. CASE Loaded /\ graph' = graph
    <3>1. graph.hash[s] = graph.flags
      BY <2>1, <2>2 DEF OwnHashes
    <3>. QED  BY <1>1, <2>1, <2>2, <3>1 DEF HashInv
  <2>3. CASE ReadCache
    BY <2>1, <2>3 DEF ReadCache, HashInv, Valid, TypeOK
  <2>4. CASE ReadManifest
    BY <2>1, <2>4 DEF ReadManifest, NoHashes
  <2>5. ASSUME NEW x \in Steps, Finish(x), Loaded, graph'.hash[x] = graph.flags,
               \A y \in Steps : y # x => graph'.hash[y] = graph.hash[y]
        PROVE  artifact'[s].flags = graph'.hash[s]
    <3>1. /\ artifact'[x].flags = graph.flags
          /\ \A y \in Steps : y # x => artifact'[y] = artifact[y]
      BY <2>5 DEF Finish, HashInv, TypeOK
    <3>. QED  BY <2>1, <2>5, <3>1 DEF HashInv
  <2>. QED  BY <2>1, <2>2, <2>3, <2>4, <2>5, GraphSteps
<1>6. \A s \in Steps : state'[s] = "running" => output'[s].flags = graph'.flags
  <2>1. SUFFICES ASSUME NEW s \in Steps, state'[s] = "running"
                 PROVE  output'[s].flags = graph'.flags
    OBVIOUS
  <2>2. state'[s] = "running" => run'.at \in {"execute", "succeeded"} /\ Loaded'
    <3>1. StateInv'
      BY StateNext
    <3>. QED  BY <3>1 DEF StateInv, Loaded
  <2>3. CASE state[s] = "running" /\ output'[s] = output[s]
    <3>1. Loaded /\ ~ReadCache /\ ~ReadManifest
      BY <2>3 DEF StateInv, Loaded, ReadCache, ReadManifest
    <3>2. graph'.flags = graph.flags
      BY <2>1, <2>2, <3>1, GraphSteps
    <3>. QED  BY <2>3, <3>2 DEF HashInv
  <2>4. CASE Start(s)
    BY <2>4 DEF Start, Product, TypeOK
  <2>. QED  BY <2>1, <2>3, <2>4, StateSteps
<1>7. run'.at \in {"parsed", "execute", "succeeded"} /\ Valid' =>
          bin'.flags = graph'.flags \/ \A s \in Steps : bin'.hash[s] = None
  <2>1. SUFFICES ASSUME run'.at \in {"parsed", "execute", "succeeded"}, Valid'
                 PROVE  bin'.flags = graph'.flags \/ \A s \in Steps : bin'.hash[s] = None
    OBVIOUS
  <2>2. CASE bin' # bin
    BY <2>2, CacheWriters
  <2>3. CASE EmitParsed
    <3>1. Loaded /\ WriteCache /\ graph' = graph
      BY <2>3 DEF EmitParsed, Loaded
    <3>. QED  BY <3>1, WriteCacheType
  <2>4. CASE EmitFails
    <3>1. Loaded /\ Valid /\ graph' = graph /\ bin' = bin /\ run.at = "emit" /\ faults < MaxFaults
      BY <1>2, <2>1, <2>4 DEF EmitFails, Fault, Loaded
    <3>2. MaxFaults > 1
      BY <3>1, EnvironmentAssumption DEF HashInv, TypeOK
    <3>3. EditsDuringBuild \cap Manifests = {}
      BY <3>2, EnvironmentAssumption DEF OneMishap
    <3>4. \E m \in Manifests : bin.flags = ManifestFlags(m) /\ graph.flags = ManifestFlags(m)
      BY <3>1, <3>3 DEF NamedInv, Valid
    <3>. QED  BY <3>1, <3>4
  <2>5. CASE bin' = bin /\ ~EmitParsed /\ ~EmitFails
    <3>1. Valid
      BY <1>2, <2>5, <2>1
    <3>2. Loaded' /\ ~ReadManifest /\ (run.at = "emit" => run' = run)
      BY <2>1, <2>5, EmitSteps DEF Loaded, ReadManifest, TypeOK
    <3>3. Loaded => run.at \in {"parsed", "execute", "succeeded"}
      BY <2>1, <3>2 DEF Loaded
    <3>4. CASE ReadCache
      BY <3>4, <2>5 DEF ReadCache
    <3>5. CASE Loaded /\ graph'.flags = graph.flags
      BY <2>5, <3>1, <3>3, <3>5 DEF HashInv
    <3>. QED  BY <3>2, <3>4, <3>5, GraphSteps
  <2>. QED  BY <2>2, <2>3, <2>4, <2>5
<1>8. run'.at = "emit" => (\A s \in Steps : graph'.hash[s] = None) /\ (Valid' => faults' > 0)
  <2>1. CASE ReadManifest
    <3>1. graph'.hash = NoHashes /\ bin' = bin
          /\ (CacheValid(run.manifest) => faults' = faults + 1) /\ run.manifest \in Manifests
      BY <2>1 DEF ReadManifest, Fault, TypeOK
    <3>2. Valid => CacheValid(run.manifest)
      BY <3>1 DEF Valid, OneManifest
    <3>. QED  BY <1>2, <3>1, <3>2 DEF NoHashes, TypeOK
  <2>2. CASE ~ReadManifest
    BY <1>2, <2>2, EmitSteps DEF HashInv
  <2>. QED  BY <2>1, <2>2
<1>9. faults' <= MaxFaults
  <2>1. faults' = faults \/ Fault
    BY DEF Next, vars, Edit, Invoke, ReadCache, ReadManifest, EmitParsed, EmitFails, StartExecute,
           RunTool, Skip, Start, Finish, Fail, FailBuild, Succeed, SucceedUnsaved, Return, Interrupt
  <2>. QED  BY <2>1, EnvironmentAssumption DEF HashInv, Fault, TypeOK
<1>. HIDE DEF disk, process, At, Idle
<1>. QED  BY <1>4, <1>5, <1>6, <1>7, <1>8, <1>9 DEF HashInv

-----------------------------------------------------------------------------
(* What a successful build leaves is fresh.                                *)

(* Where a run goes, and when the times of the sources are looked up.      *)
LEMMA RunSteps ==
    ASSUME TypeOK, StateInv, [Next]_vars
    PROVE  /\ run'.at \notin {"idle", "parse"} =>
                  run'.mode = run.mode /\ run'.manifest = run.manifest /\ run'.saw = run.saw
           /\ run'.at = "execute" =>
                  \/ StartExecute
                  \/ /\ run.at = "execute" /\ sources' = sources
                     /\ build_file_slot' \in {build_file_slot, BuildFileTime}
           /\ run.at = "succeeded" => run'.at \in {"succeeded", "idle"}
<1>. USE DEF disk, process, At, Idle
<1>1. CASE UNCHANGED vars
  BY <1>1 DEF vars
<1>2. ASSUME NEW f \in Edited, Edit(f) PROVE UNCHANGED <<run, sources, build_file_slot>>
  BY <1>2 DEF Edit
<1>3. ASSUME NEW m \in Manifests, NEW mode \in Modes, NEW o \in Overrides \cup {None},
             Invoke(m, mode, o)
      PROVE  run.at = "idle" /\ run'.at = "parse"
  BY <1>3 DEF Invoke
<1>4. ASSUME NEW s \in Steps, Skip(s) \/ Start(s) \/ Finish(s) \/ Fail(s)
      PROVE  /\ UNCHANGED <<run, sources>>
             /\ build_file_slot' \in {build_file_slot, BuildFileTime}
  BY <1>4 DEF Skip, Start, Finish, Fail, FillSlot
<1>5. CASE \/ ReadCache \/ ReadManifest \/ EmitParsed \/ EmitFails \/ StartExecute \/ RunTool
           \/ FailBuild \/ Succeed \/ SucceedUnsaved \/ Return \/ Interrupt
  BY <1>5 DEF ReadCache, ReadManifest, EmitParsed, EmitFails, StartExecute, RunTool, FailBuild,
              Succeed, SucceedUnsaved, Return, Interrupt, Forget, TypeOK
<1>. QED  BY <1>1, <1>2, <1>3, <1>4, <1>5 DEF Next

(* Outputs are finished or gone, and a .d file goes with its output.       *)
LEMMA OutputSteps ==
    ASSUME WholeOutputs, TypeOK, StateInv, [Next]_vars, NEW s \in Steps
    PROVE  /\ \/ artifact'[s] = artifact[s] /\ mtime'[s] = mtime[s]
              \/ mtime'[s] = 0 /\ state'[s] # "done"
              \/ /\ Finish(s)
                 /\ artifact'[s] = output[s] /\ mtime'[s] \in Nat \ {0} /\ mtime'[s] >= clock
           /\ s \in depfiles /\ mtime'[s] # 0 => s \in depfiles'
<1>. USE DEF disk, process
<1>. DEFINE Same == artifact'[s] = artifact[s] /\ mtime'[s] = mtime[s] /\ depfiles' = depfiles
            Gone == mtime'[s] = 0 /\ state'[s] # "done"
<1>1. ASSUME NEW S \in SUBSET Steps, Abandon(S), depfiles' = depfiles,
             \A x \in S : state'[x] # "done"
      PROVE  Same \/ Gone
  BY <1>1, AbandonType DEF WholeOutputs
<1>2. CASE Interrupt
  <2>1. Abandon(Running) /\ depfiles' = depfiles /\ Running \in SUBSET Steps
        /\ \A x \in Running : state'[x] # "done"
    BY <1>2 DEF Interrupt, Running, Forget
  <2>. QED  BY <1>1, <2>1
<1>3. ASSUME NEW x \in Steps, Fail(x) PROVE Same \/ Gone
  <2>1. Abandon({x}) /\ depfiles' = depfiles /\ {x} \in SUBSET Steps
        /\ \A y \in {x} : state'[y] # "done"
    BY <1>3 DEF Fail, TypeOK
  <2>. QED  BY <1>1, <2>1
<1>4. ASSUME NEW x \in Steps, Finish(x)
      PROVE  /\ \/ artifact'[s] = artifact[s] /\ mtime'[s] = mtime[s]
                \/ /\ Finish(s)
                   /\ artifact'[s] = output[s] /\ mtime'[s] \in Nat \ {0} /\ mtime'[s] >= clock
             /\ depfiles \subseteq depfiles'
  <2>1. PICK t \in Stamps : mtime' = [mtime EXCEPT ![x] = t]
    BY <1>4 DEF Finish
  <2>2. t \in Nat \ {0} /\ t >= clock
    BY StampsLater DEF TypeOK
  <2>3. artifact' = [artifact EXCEPT ![x] = output[x]] /\ depfiles \subseteq depfiles'
    BY <1>4 DEF Finish
  <2>. QED  BY <1>4, <2>1, <2>2, <2>3 DEF TypeOK
<1>5. CASE RunTool
  <2>1. state' = state /\ state[s] = "waiting" /\ s \in DOMAIN mtime
    BY <1>5 DEF RunTool, StateInv, TypeOK
  <2>2. CASE s \in Cleaned
    BY <1>5, <2>1, <2>2 DEF RunTool
  <2>3. CASE s \notin Cleaned
    BY <1>5, <2>1, <2>3 DEF RunTool
  <2>. QED  BY <2>2, <2>3
<1>6. ASSUME NEW x \in Steps, Skip(x) \/ Start(x) PROVE Same
  BY <1>6 DEF Skip, Start
<1>7. ASSUME NEW f \in Edited, Edit(f) PROVE Same
  <2>1. s # f
    BY RolesAssumption
  <2>. QED  BY <1>7, <2>1, EditIsNewest DEF Edit
<1>8. ASSUME NEW m \in Manifests, NEW mode \in Modes, NEW o \in Overrides \cup {None},
             Invoke(m, mode, o)
      PROVE  Same
  BY <1>8 DEF Invoke
<1>9. CASE \/ ReadCache \/ ReadManifest \/ EmitParsed \/ EmitFails \/ StartExecute \/ FailBuild
           \/ Succeed \/ SucceedUnsaved \/ Return \/ UNCHANGED vars
  BY <1>9 DEF ReadCache, ReadManifest, EmitParsed, EmitFails, StartExecute, FailBuild, Succeed,
              SucceedUnsaved, Return, vars
<1>. QED  BY <1>2, <1>3, <1>4, <1>5, <1>6, <1>7, <1>8, <1>9 DEF Next

(* What a step reads is an output that it lists, or a file that users edit *)
(* and that is not an output.                                              *)
LEMMA ReadsSplit ==
    ASSUME NEW s \in Steps, NEW i \in Reads(s)
    PROVE  \/ i \in Inputs[s] \cap Steps
           \/ i \in Sources \cup Headers /\ i \in Edited /\ i \notin Steps
BY FilesAssumption, RolesAssumption DEF Reads, Edited

(* What a command would produce does not change while its inputs are done  *)
(* and nobody edits anything.                                              *)
LEMMA ProductKept ==
    ASSUME WholeOutputs, NoOverrides, TypeOK, StateInv, [Next]_vars, ~raced', ~raced,
           NEW s \in Steps, {run.at, run'.at} \subseteq {"execute", "succeeded"},
           \A i \in Inputs[s] \cap Steps : state[i] = "done" /\ state'[i] = "done"
    PROVE  Product(s)' = Product(s)
<1>1. \A f \in Edited : ~Edit(f)
  BY DEF Edit
<1>2. version' = version
  BY <1>1, EditedFiles
<1>3. graph'.flags = graph.flags
  BY GraphSteps DEF Loaded, ReadCache, ReadManifest
<1>4. \A i \in Inputs[s] \cap Steps : artifact'[i] = artifact[i]
  BY OutputSteps DEF Finish
<1>5. \A i \in Reads(s) : (IF i \in Steps THEN artifact'[i] ELSE version'[i])
                            = IF i \in Steps THEN artifact[i] ELSE version[i]
  BY <1>2, <1>4, ReadsSplit
<1>. QED  BY <1>3, <1>5 DEF Product

(* The .d files that the cache and the graph know of are there.            *)
LEMMA DepfilesNext ==
    ASSUME WholeOutputs, NoOverrides, TypeOK, StateInv, DepfilesKept, [Next]_vars
    PROVE  DepfilesKept'
<1>1. SUFFICES ASSUME NEW s \in Steps, mtime'[s] # 0,
                      \/ bin' # None /\ s \in bin'.discovered
                      \/ Loaded' /\ s \in graph'.discovered
               PROVE  s \in depfiles'
  BY DEF DepfilesKept
<1>2. s \in Compiles
  <2>1. TypeOK'
    BY TypeNext
  <2>. QED  BY <1>1, <2>1 DEF TypeOK
<1>3. CASE Finish(s)
  BY <1>2, <1>3 DEF Finish
<1>4. CASE ~Finish(s)
  <2>1. mtime[s] # 0 /\ (s \in depfiles => s \in depfiles')
    BY <1>1, <1>4, OutputSteps
  <2>2. CASE bin' # None /\ s \in bin'.discovered
    <3>1. (bin # None /\ s \in bin.discovered) \/ (Loaded /\ s \in graph.discovered)
      BY <2>2, CacheWriters
    <3>. QED  BY <2>1, <3>1 DEF DepfilesKept
  <2>3. CASE Loaded' /\ s \in graph'.discovered
    <3>1. CASE ReadCache
      BY <2>1, <2>3, <3>1 DEF ReadCache, CacheValid, DepfilesKept
    <3>2. CASE ReadManifest
      BY <2>1, <2>3, <3>2 DEF ReadManifest
    <3>3. CASE Loaded /\ graph'.discovered = graph.discovered
      BY <2>1, <2>3, <3>3 DEF DepfilesKept
    <3>. QED  BY <2>3, <3>1, <3>2, <3>3, GraphSteps
  <2>. QED  BY <1>1, <2>2, <2>3
<1>. QED  BY <1>3, <1>4

(* Who knows that a step reads a header does not forget it.                *)
LEMMA NoticedNext ==
    ASSUME WholeOutputs, NoOverrides, TypeOK, StateInv, [Next]_vars,
           NEW s \in Steps, Noticed(s), mtime'[s] # 0
    PROVE  Noticed(s)'
<1>1. s \in depfiles'
  BY OutputSteps DEF Noticed
<1>2. Valid' => s \in bin'.discovered
  <2>1. CASE bin' = bin
    BY <2>1, ValidAfter DEF Noticed, Valid
  <2>2. CASE bin' # bin
    BY <2>2, CacheWriters DEF Noticed
  <2>. QED  BY <2>1, <2>2
<1>3. Loaded' => s \in graph'.discovered
  <2>1. CASE ReadCache
    BY <2>1 DEF ReadCache, Noticed, Valid, TypeOK
  <2>2. CASE ReadManifest
    BY <2>2 DEF ReadManifest, Noticed
  <2>. QED  BY <2>1, <2>2, GraphSteps DEF Noticed
<1>. QED  BY <1>1, <1>2, <1>3 DEF Noticed

(* A step that is found to be up to date is.                               *)
LEMMA UpToDateIsFresh ==
    ASSUME TypeOK, StateInv, NamedInv, Traces, Seen, ~raced,
           NEW s \in Steps, Runnable(s), ~NeedsRebuild(s)
    PROVE  mtime[s] # 0 /\ artifact[s] = Product(s)
<1>1. mtime[s] # 0 /\ Traceable(s) /\ run.at = "execute" /\ Loaded
  BY DEF Traces, NeedsRebuild, LooksAtManifest, Runnable, Loaded
<1>2. \A f \in Edited \cup Steps : mtime[f] \in Nat
  BY DEF TypeOK
<1>3. artifact[s].flags = graph.flags
  <2>1. run.manifest \in Manifests /\ ~(mtime[run.manifest] >= mtime[s])
    BY <1>1 DEF TypeOK, NeedsRebuild, Seen, BuildFileTime
  <2>2. artifact[s].flags = ManifestFlags(run.manifest)
    BY <1>1, <2>1 DEF Traceable
  <2>. QED  BY <1>1, <2>1, <2>2 DEF NamedInv
<1>4. \A i \in Inputs[s] \ Steps : artifact[s].from[i] = version[i]
  <2>1. \A i \in Inputs[s] \ Steps : i \in Sources /\ InputTime(i) = mtime[i] /\ i \in KnownInputs(s)
    BY <1>1, FilesAssumption DEF Seen, InputTime, KnownInputs
  <2>. QED  BY <1>1, <2>1 DEF Traceable, NeedsRebuild, ChangedSince
<1>5. \A i \in Inputs[s] \cap Steps : artifact[s].from[i] = artifact[i]
  BY <1>1 DEF Traceable, NeedsRebuild, ChangedSince, InputTime, KnownInputs
<1>6. \A h \in Includes[s] : artifact[s].from[h] = version[h]
  <2>1. ASSUME NEW h \in Includes[s], mtime[h] >= mtime[s], Noticed(s) PROVE FALSE
    <3>1. h \in KnownInputs(s)
      BY <1>1, <2>1 DEF Noticed, KnownInputs
    <3>2. InputTime(h) = mtime[h]
      BY <1>1, FilesAssumption, RolesAssumption DEF Seen, InputTime, Edited
    <3>. QED  BY <2>1, <3>1, <3>2 DEF NeedsRebuild, ChangedSince
  <2>. QED  BY <1>1, <2>1 DEF Traceable
<1>7. \A i \in Reads(s) : artifact[s].from[i] = IF i \in Steps THEN artifact[i] ELSE version[i]
  BY <1>4, <1>5, <1>6, FilesAssumption, RolesAssumption DEF Reads, Edited
<1>8. artifact[s] = [flags |-> artifact[s].flags, from |-> [i \in Reads(s) |-> artifact[s].from[i]]]
  BY <1>1 DEF Traceable
<1>. QED  BY <1>1, <1>3, <1>7, <1>8 DEF Product

(* An edit can be seen: the file that changed is the newest.               *)
LEMMA EditIsTraced ==
    ASSUME WholeOutputs, KnownHeaders, NoOverrides, TypeOK, StateInv, DepfilesKept, Traces,
           ~raced', [Next]_vars, NEW f \in Edited, Edit(f)
    PROVE  Traces'
<1>. USE DEF process
<1>1. run.at = "idle" /\ UNCHANGED <<artifact, depfiles, bin, run, graph>>
  BY DEF Edit, TypeOK
<1>2. SUFFICES ASSUME NEW s \in Steps, mtime'[s] # 0 PROVE Traceable(s)'
  BY DEF Traces
<1>3. /\ mtime'[s] = mtime[s] /\ mtime[s] \in Nat
      /\ mtime'[f] >= mtime'[s] /\ mtime'[f] \in Nat
      /\ \A g \in Edited \cup Steps : g # f => mtime'[g] = mtime[g]
      /\ \A g \in Edited : g # f => version'[g] = version[g]
  BY EditIsNewest, RolesAssumption DEF TypeOK
<1>4. Traceable(s)
  BY <1>2, <1>3 DEF Traces
<1>5. \A m \in Manifests : artifact[s].flags = ManifestFlags(m)' \/ mtime'[m] >= mtime'[s]
  BY <1>3, <1>4 DEF Traceable, ManifestFlags, Edited
<1>6. \A i \in Inputs[s] \ Steps : artifact[s].from[i] = version'[i] \/ mtime'[i] >= mtime'[s]
  BY <1>3, <1>4, FilesAssumption DEF Traceable, Edited
<1>7. \A i \in Inputs[s] \cap Steps :
          artifact[s].from[i] = artifact[i] \/ mtime'[i] = 0 \/ mtime'[i] >= mtime'[s]
  BY <1>3, <1>4, RolesAssumption DEF Traceable
<1>8. \A h \in Includes[s] :
          artifact[s].from[h] = version'[h] \/ (mtime'[h] >= mtime'[s] /\ Noticed(s)')
  <2>1. SUFFICES ASSUME NEW h \in Includes[s]
                 PROVE  artifact[s].from[h] = version'[h] \/ (mtime'[h] >= mtime'[s] /\ Noticed(s)')
    OBVIOUS
  <2>2. h \in Headers /\ h \in Edited
    BY FilesAssumption DEF Edited
  <2>3. CASE h = f
    <3>1. bin # None /\ s \in bin.discovered
      BY <2>2, <2>3 DEF KnownHeaders, Edit
    <3>2. Noticed(s)
      BY <1>1, <1>2, <1>3, <3>1 DEF DepfilesKept, Noticed, Loaded
    <3>3. Noticed(s)'
      BY <1>2, <3>2, NoticedNext
    <3>. QED  BY <1>3, <2>3, <3>3
  <2>4. CASE h # f
    <3>1. Noticed(s) => Noticed(s)'
      BY <1>2, NoticedNext
    <3>. QED  BY <1>3, <1>4, <2>2, <2>4, <3>1 DEF Traceable
  <2>. QED  BY <2>3, <2>4
<1>. QED  BY <1>1, <1>4, <1>5, <1>6, <1>7, <1>8 DEF Traceable

(* What a command has made is what it read, and everything that is made    *)
(* after it is newer.                                                      *)
LEMMA WorkIsTraced ==
    ASSUME WholeOutputs, NoOverrides, TypeOK, StateInv, NamedInv, Traces, WorkFresh,
           ~raced, ~raced', [Next]_vars, \A f \in Edited : ~Edit(f)
    PROVE  Traces'
<1>1. SUFFICES ASSUME NEW s \in Steps, mtime'[s] # 0 PROVE Traceable(s)'
  BY DEF Traces
<1>2. version' = version /\ \A f \in Edited : mtime'[f] = mtime[f]
  BY EditedFiles
<1>3. \A m \in Manifests : ManifestFlags(m)' = ManifestFlags(m)
  BY <1>2 DEF ManifestFlags
<1>4. Inputs[s] \ Steps \subseteq Edited /\ Includes[s] \subseteq Edited
      /\ Manifests \subseteq Edited /\ Includes[s] \cap Steps = {}
  BY FilesAssumption, RolesAssumption DEF Edited
<1>5. CASE Finish(s)
  <2>1. artifact'[s] = Product(s) /\ run.at = "execute" /\ Loaded
    BY <1>5 DEF Finish, WorkFresh, TypeOK, StateInv, Loaded
  <2>2. \A m \in Manifests : artifact'[s].flags = ManifestFlags(m)
    BY <2>1 DEF Product, NamedInv
  <2>3. \A i \in Inputs[s] \cap Steps : artifact'[i] = artifact[i]
    <3>1. \A i \in Inputs[s] \cap Steps : i # s
      BY <1>5 DEF Finish, StateInv
    <3>. QED  BY <1>5, <3>1 DEF Finish, TypeOK
  <2>4. \A i \in Reads(s) : artifact'[s].from[i] = IF i \in Steps THEN artifact[i] ELSE version[i]
    BY <2>1 DEF Product
  <2>5. artifact'[s] = [flags |-> artifact'[s].flags,
                        from |-> [i \in Reads(s) |-> artifact'[s].from[i]]]
    BY <2>1 DEF Product
  <2>. QED  BY <1>2, <1>3, <1>4, <2>2, <2>3, <2>4, <2>5 DEF Traceable, Reads
<1>6. CASE ~Finish(s)
  <2>1. artifact'[s] = artifact[s] /\ mtime'[s] = mtime[s]
    BY <1>1, <1>6, OutputSteps
  <2>2. Traceable(s) /\ mtime[s] \in 0..clock /\ clock \in Nat
    BY <1>1, <2>1 DEF Traces, TypeOK
  <2>3. ASSUME NEW i \in Inputs[s] \cap Steps
        PROVE  artifact'[s].from[i] = artifact'[i] \/ mtime'[i] = 0 \/ mtime'[i] >= mtime'[s]
    BY <2>1, <2>2, OutputSteps DEF Traceable
  <2>4. Noticed(s) => Noticed(s)'
    BY <1>1, NoticedNext
  <2>. QED  BY <1>2, <1>3, <1>4, <2>1, <2>2, <2>3, <2>4 DEF Traceable
<1>. QED  BY <1>5, <1>6

(* At first there is nothing that could be stale.                          *)
LEMMA FreshInit == Init => FreshInv
<1>1. ASSUME Init, NEW s \in Steps PROVE mtime[s] = 0
  BY <1>1, RolesAssumption DEF Init
<1>2. ASSUME Init PROVE Seen /\ WorkFresh
  BY <1>2 DEF Init, Idle, Seen, WorkFresh
<1>. QED
  BY <1>1, <1>2 DEF FreshInv, DepfilesKept, Traces

(* Every action keeps what is done fresh.                                  *)
LEMMA FreshNext ==
    ASSUME WholeOutputs, KnownHeaders, NoOverrides, TypeOK, StateInv, NamedInv, FreshInv,
           [Next]_vars
    PROVE  FreshInv'
<1>1. DepfilesKept'
  BY DepfilesNext DEF FreshInv
<1>2. SUFFICES ASSUME ~raced' PROVE Traces' /\ Seen' /\ WorkFresh'
  BY <1>1 DEF FreshInv
<1>3. ASSUME NEW f \in Edited, Edit(f) PROVE ~raced /\ run.at = "idle" /\ UNCHANGED <<run, process>>
  BY <1>2, <1>3 DEF Edit, TypeOK
<1>4. ~raced
  BY <1>2, <1>3, EditedFiles
<1>5. Traces /\ Seen /\ WorkFresh /\ DepfilesKept
  BY <1>4 DEF FreshInv
<1>6. Traces'
  BY <1>2, <1>4, <1>5, EditIsTraced, WorkIsTraced
<1>7. Seen'
  <2>1. SUFFICES ASSUME run'.at = "execute"
                 PROVE  /\ \A f \in Sources \cup Headers : sources'[f] = mtime'[f]
                        /\ build_file_slot' \in {0, mtime'[run'.manifest]}
    BY DEF Seen
  <2>2. \A g \in Edited : ~Edit(g)
    BY <1>3, <2>1
  <2>3. /\ \A f \in Sources \cup Headers : mtime'[f] = mtime[f]
        /\ run'.manifest = run.manifest /\ run.manifest \in Manifests
        /\ mtime'[run.manifest] = mtime[run.manifest]
    <3>1. run'.manifest = run.manifest /\ run.manifest \in Manifests
      <4>1. TypeOK'
        BY TypeNext
      <4>. QED  BY <2>1, <4>1, RunSteps DEF TypeOK
    <3>. QED  BY <2>2, <3>1, EditedFiles DEF Edited
  <2>4. CASE StartExecute
    BY <2>3, <2>4 DEF StartExecute
  <2>5. CASE /\ run.at = "execute" /\ sources' = sources
             /\ build_file_slot' \in {build_file_slot, BuildFileTime}
    BY <1>5, <2>3, <2>5 DEF Seen, BuildFileTime
  <2>. QED  BY <2>1, <2>4, <2>5, RunSteps
<1>8. StateInv'
  BY StateNext
<1>9. ASSUME NEW s \in Steps, state'[s] \in {"running", "done"}, run.at \in {"execute", "succeeded"},
             \A i \in Inputs[s] \cap Steps : state[i] = "done"
      PROVE  Product(s)' = Product(s)
  <2>1. run'.at \in {"execute", "succeeded"}
        /\ \A i \in Inputs[s] \cap Steps : state'[i] = "done"
    BY <1>8, <1>9 DEF StateInv
  <2>. QED  BY <1>2, <1>4, <1>9, <2>1, ProductKept
<1>10. ASSUME NEW s \in Steps, state'[s] = "running" PROVE output'[s] = Product(s)'
  <2>1. CASE state[s] = "running" /\ output'[s] = output[s]
    <3>1. run.at = "execute" /\ \A i \in Inputs[s] \cap Steps : state[i] = "done"
      BY <2>1 DEF StateInv
    <3>. QED  BY <1>5, <1>9, <1>10, <2>1, <3>1 DEF WorkFresh
  <2>2. CASE Start(s)
    <3>1. run.at = "execute" /\ (\A i \in Inputs[s] \cap Steps : state[i] = "done")
          /\ output'[s] = Product(s)
      BY <2>2 DEF Start, Runnable, TypeOK
    <3>. QED  BY <1>9, <1>10, <3>1
  <2>. QED  BY <1>10, <2>1, <2>2, StateSteps
<1>11. ASSUME run'.mode = "build", NEW s \in Steps, state'[s] = "done"
       PROVE  mtime'[s] # 0 /\ artifact'[s] = Product(s)'
  <2>1. run'.at \in {"execute", "succeeded"} /\ run.mode = "build"
    BY <1>8, <1>11, RunSteps DEF StateInv
  <2>2. CASE state[s] = "done"
    <3>1. /\ mtime'[s] # 0 /\ artifact'[s] = artifact[s] /\ artifact[s] = Product(s)
      BY <1>5, <1>11, <2>1, <2>2, OutputSteps DEF Finish, WorkFresh
    <3>2. /\ run.at \in {"execute", "succeeded"}
          /\ \A i \in Inputs[s] \cap Steps : state[i] = "done"
      BY <2>2 DEF StateInv
    <3>. QED  BY <1>9, <1>11, <3>1, <3>2
  <2>3. CASE Skip(s)
    <3>1. Runnable(s) /\ ~NeedsRebuild(s)
      BY <2>1, <2>3 DEF Skip
    <3>2. mtime[s] # 0 /\ artifact[s] = Product(s) /\ UNCHANGED <<mtime, artifact>>
      BY <1>4, <1>5, <2>3, <3>1, UpToDateIsFresh DEF Skip, disk
    <3>. QED  BY <1>9, <1>11, <3>1, <3>2 DEF Runnable
  <2>4. CASE Finish(s)
    <3>1. state[s] = "running" /\ artifact'[s] = output[s]
      BY <2>4 DEF Finish, TypeOK
    <3>2. run.at = "execute" /\ \A i \in Inputs[s] \cap Steps : state[i] = "done"
      BY <3>1 DEF StateInv
    <3>3. mtime'[s] # 0
      BY <1>11, <2>4, StampsLater DEF Finish, TypeOK
    <3>. QED  BY <1>5, <1>9, <1>11, <3>1, <3>2, <3>3 DEF WorkFresh
  <2>. QED  BY <1>11, <2>2, <2>3, <2>4, StateSteps
<1>. QED  BY <1>6, <1>7, <1>10, <1>11 DEF WorkFresh

-----------------------------------------------------------------------------
(* A build that follows a successful one has nothing to do.                *)

(* At first no build has succeeded.                                        *)
LEMMA SettledInit == Init => SettledInv
BY DEF Init, Idle, SettledInv, Settled, LoadedInv

(* Nothing needs to be built again after an undisturbed build.             *)
LEMMA NothingToStart ==
    ASSUME TypeOK, OwnHashes, SettledInv, settled # None, NEW s \in Steps, Start(s)
    PROVE  FALSE
<1>1. run.at = "execute" /\ run.manifest \in Manifests /\ Loaded /\ NeedsRebuild(s)
  BY DEF Start, Runnable, TypeOK, Loaded
<1>2. \A f \in Edited \cup Steps : mtime[f] \in Nat
  BY DEF TypeOK
<1>3. \A x \in Steps : mtime[x] > mtime[run.manifest] /\ mtime[x] # 0
  BY <1>1, <1>2 DEF SettledInv, Settled, Edited
<1>4. graph.hash[s] = graph.flags
  BY <1>1 DEF SettledInv, Settled, OwnHashes
<1>5. ASSUME NEW f \in KnownInputs(s) PROVE ~ChangedSince(f, s)
  <2>1. f \in Reads(s)
    BY <1>5 DEF KnownInputs, Reads
  <2>2. mtime[s] > mtime[f]
    BY <2>1 DEF SettledInv, Settled
  <2>3. CASE f \in Steps
    BY <1>2, <1>3, <2>2, <2>3 DEF ChangedSince, InputTime
  <2>4. CASE f \notin Steps
    <3>1. f \in Sources \cup Headers /\ f \in Edited
      BY <2>1, <2>4, ReadsSplit
    <3>2. InputTime(f) = mtime[f] /\ mtime[f] # 0
      BY <1>1, <2>4, <3>1 DEF InputTime, SettledInv, Settled, Seen, TypeOK
    <3>. QED  BY <1>2, <2>2, <3>1, <3>2 DEF ChangedSince
  <2>. QED  BY <2>3, <2>4
<1>6. ~(mtime[run.manifest] >= mtime[s])
  <2>1. run.manifest \in Edited
    BY <1>1 DEF Edited
  <2>. QED  BY <1>2, <1>3, <2>1
<1>7. BuildFileTime = mtime[run.manifest]
  BY <1>1 DEF SettledInv, Settled, Seen, BuildFileTime
<1>. QED  BY <1>1, <1>3, <1>4, <1>5, <1>6, <1>7 DEF NeedsRebuild, LooksAtManifest

(* The hashes a run started from are those of the cache or none, and a     *)
(* step that is done has its own.                                          *)
LEMMA LoadedNext ==
    ASSUME NoOverrides, TypeOK, StateInv, LoadedInv, [Next]_vars
    PROVE  LoadedInv'
<1>1. run'.at = "emit" => \A s \in Steps : graph'.loaded[s] = None
  BY EmitSteps DEF LoadedInv, ReadManifest, NoHashes
<1>2. run'.at \in {"parsed", "execute"} =>
          \/ \A s \in Steps : graph'.loaded[s] = None
          \/ bin' # None /\ graph'.loaded = bin'.hash
  <2>1. SUFFICES ASSUME run'.at \in {"parsed", "execute"}
                 PROVE  \/ \A s \in Steps : graph'.loaded[s] = None
                        \/ bin' # None /\ graph'.loaded = bin'.hash
    OBVIOUS
  <2>2. CASE ReadCache
    BY <2>2 DEF ReadCache, CacheValid, disk
  <2>3. CASE Loaded /\ graph'.loaded = graph.loaded
    <3>1. run.at \in {"emit", "parsed", "execute"}
      BY <2>1, <2>3, RunSteps DEF Loaded
    <3>2. bin' = bin \/ run.at = "emit"
      <4>1. Succeed => run'.at = "succeeded"
        BY DEF Succeed, At, TypeOK
      <4>. QED  BY <2>1, <4>1, CacheWriters DEF EmitParsed
    <3>. QED  BY <2>3, <3>1, <3>2 DEF LoadedInv
  <2>4. ~ReadManifest
    BY <2>1 DEF ReadManifest, At, TypeOK
  <2>. QED  BY <2>1, <2>2, <2>3, <2>4, GraphSteps DEF Loaded
<1>3. ASSUME run'.mode = "build", NEW s \in Steps, state'[s] = "done"
      PROVE  graph'.hash[s] = graph'.flags
  <2>1. run'.at \in {"execute", "succeeded"} /\ run.mode = "build"
    <3>1. StateInv'
      BY StateNext
    <3>. QED  BY <1>3, <3>1, RunSteps DEF StateInv
  <2>2. CASE state[s] = "done"
    <3>1. run.at \in {"execute", "succeeded"} /\ graph.hash[s] = graph.flags
      BY <2>1, <2>2 DEF StateInv, LoadedInv
    <3>. QED  BY <2>1, <3>1, GraphSteps DEF Loaded, ReadCache, ReadManifest
  <2>3. CASE Skip(s)
    BY <2>1, <2>3 DEF Skip, NeedsRebuild, LooksAtManifest
  <2>4. CASE Finish(s)
    <3>1. run.at = "execute"
      BY <2>4 DEF Finish, StateInv
    <3>2. /\ graph' = [graph EXCEPT !.hash[s] = graph.flags]
          /\ graph \in [flags : Flags, discovered : SUBSET Compiles, hash : Hashes, loaded : Hashes]
      BY <2>4, <3>1 DEF Finish, TypeOK, Loaded
    <3>. QED  BY <3>2 DEF Hashes
  <2>. QED  BY <1>3, <2>2, <2>3, <2>4, StateSteps
<1>. QED  BY <1>1, <1>2, <1>3 DEF LoadedInv

(* A build that succeeds when nothing was edited meanwhile settles the     *)
(* files, if no two of the times to be compared are equal.                 *)
LEMMA SucceedSettles ==
    ASSUME OneManifest, NoOverrides, TypeOK, StateInv, SettledInv, Succeed, run.mode = "build", settled' # None
    PROVE  Settled'
<1>. USE DEF process
<1>1. /\ run.saw = version /\ settled' = graph.flags /\ Distinct
      /\ run.at = "execute" /\ run' = At("succeeded") /\ Loaded
      /\ UNCHANGED <<version, mtime, graph, state>>
      /\ \A s \in Steps : state[s] = "done"
  <2>1. run.saw = version
    BY DEF Succeed, SettledInv, Settled
  <2>. QED  BY <2>1 DEF Succeed, Loaded
<1>2. run' = [run EXCEPT !.at = "succeeded"] /\ run.manifest \in Manifests
      /\ run'.at = "succeeded" /\ run'.saw = run.saw
  BY <1>1 DEF At, TypeOK
<1>3. \A s \in Steps : graph.hash[s] = graph.flags
  BY <1>1 DEF SettledInv, LoadedInv
<1>4. \A s \in Steps : bin'.hash[s] = graph.flags
  <2>1. CASE HashesChanged
    <3>1. WriteCache
      BY <2>1 DEF Succeed
    <3>. QED  BY <1>1, <1>3, <3>1, WriteCacheType
  <2>2. CASE ~HashesChanged
    <3>1. bin' = bin /\ graph.hash = graph.loaded
      BY <2>2 DEF Succeed, HashesChanged
    <3>2. \A s \in Steps : graph.hash[s] # None
      <4>1. graph.flags \in Manifests \X (0..MaxEdits)
        BY <1>1 DEF TypeOK, Flags, NoOverrides
      <4>. QED  BY <1>3, <4>1, RolesAssumption
    <3>. QED  BY <1>1, <1>3, <3>1, <3>2 DEF SettledInv, LoadedInv
  <2>. QED  BY <2>1, <2>2
<1>5. /\ \A s \in Steps : \A i \in Reads(s) \cup Manifests : mtime[s] > mtime[i]
      /\ \A m \in Manifests : bin' # None /\ bin'.time > mtime[m]
  BY <1>1, <1>2 DEF Distinct, OneManifest
<1>. QED  BY <1>1, <1>2, <1>3, <1>4, <1>5 DEF Settled, CacheValid, Seen

(* What follows an undisturbed build and does not disturb it leaves the    *)
(* files as they are.                                                      *)
LEMMA SettledSteps ==
    ASSUME TypeOK, OwnHashes, StateInv, SettledInv, [Next]_vars,
           ~(Succeed /\ run.mode = "build"), settled' # None
    PROVE  /\ settled' = settled
           /\ UNCHANGED <<version, mtime, bin>>
           /\ \A s \in Steps : state'[s] # "running"
           /\ ~ReadManifest /\ (\A s \in Steps : ~Finish(s))
           /\ run'.at = "emit" => run.at = "emit"
           /\ run'.at # "idle" => run'.saw = IF run.at = "idle" THEN version ELSE run.saw
<1>. USE DEF disk, process, At
<1>1. ASSUME NEW s \in Steps, Finish(s) \/ Fail(s) \/ Start(s), settled # None PROVE FALSE
  BY <1>1, NothingToStart DEF Finish, Fail, Start, SettledInv, Settled
<1>2. ASSUME ReadManifest \/ EmitParsed \/ EmitFails, settled # None PROVE FALSE
  BY <1>2 DEF ReadManifest, EmitParsed, EmitFails, SettledInv, Settled, TypeOK
<1>3. (\A f \in Edited : ~Edit(f)) /\ ~SucceedUnsaved /\ ~Interrupt
  BY DEF Edit, SucceedUnsaved, Interrupt
<1>4. settled' = settled /\ UNCHANGED <<version, mtime, bin>>
  <2>1. CASE RunTool
    <3>1. Cleaned = {} /\ settled' = settled
      BY <2>1 DEF RunTool
    <3>2. mtime' = mtime
      BY <2>1, <3>1 DEF RunTool, TypeOK
    <3>. QED  BY <2>1, <3>1, <3>2 DEF RunTool
  <2>2. CASE Succeed
    BY <2>2 DEF Succeed
  <2>3. settled' = settled
    BY <1>3, <2>2 DEF Next, vars, Invoke, ReadCache, ReadManifest, EmitParsed, EmitFails,
                      StartExecute, RunTool, Skip, Start, Finish, Fail, FailBuild, Return
  <2>4. CASE ~RunTool /\ ~Succeed
    BY <1>1, <1>2, <1>3, <2>3, <2>4 DEF Next, vars, Invoke, ReadCache, StartExecute, Skip,
                                        FailBuild, Return
  <2>. QED  BY <2>1, <2>2, <2>3, <2>4
<1>5. (\A s \in Steps : ~Finish(s)) /\ ~ReadManifest
  BY <1>1, <1>2, <1>4
<1>6. \A s \in Steps : state'[s] # "running"
  BY <1>1, <1>4, StateSteps DEF SettledInv, Settled
<1>7. run'.at = "emit" => run.at = "emit"
  BY <1>5, EmitSteps
<1>8. run'.at # "idle" => run'.saw = IF run.at = "idle" THEN version ELSE run.saw
  <2>1. CASE UNCHANGED vars
    BY <2>1 DEF vars, SettledInv, Settled
  <2>2. ASSUME NEW m \in Manifests, NEW mode \in Modes, NEW o \in Overrides \cup {None},
               Invoke(m, mode, o)
        PROVE  run.at = "idle" /\ run'.saw = version
    BY <2>2 DEF Invoke
  <2>3. CASE ReadCache \/ StartExecute \/ FailBuild \/ Return \/ RunTool \/ Succeed
    BY <2>3 DEF ReadCache, StartExecute, FailBuild, Return, RunTool, Succeed, Forget, Idle, TypeOK
  <2>4. ASSUME NEW s \in Steps, Skip(s) PROVE run.at = "execute" /\ run' = run
    BY <2>4 DEF Skip, Runnable
  <2>. QED  BY <1>1, <1>2, <1>3, <1>4, <2>1, <2>2, <2>3, <2>4 DEF Next
<1>. QED  BY <1>4, <1>5, <1>6, <1>7, <1>8

(* What an undisturbed build has settled stays so.                         *)
LEMMA SettledNext ==
    ASSUME OneManifest, NoOverrides, TypeOK, StateInv, OwnHashes, SettledInv, [Next]_vars
    PROVE  SettledInv'
<1>1. CASE settled' = None
  BY <1>1, LoadedNext DEF SettledInv, Settled
<1>2. CASE Succeed /\ run.mode = "build" /\ settled' # None
  BY <1>2, LoadedNext, SucceedSettles DEF SettledInv
<1>3. CASE ~(Succeed /\ run.mode = "build") /\ settled' # None
  <2>1. /\ settled' = settled
        /\ UNCHANGED <<version, mtime, bin>>
        /\ \A s \in Steps : state'[s] # "running"
        /\ ~ReadManifest /\ (\A s \in Steps : ~Finish(s))
        /\ run'.at = "emit" => run.at = "emit"
        /\ run'.at # "idle" => run'.saw = IF run.at = "idle" THEN version ELSE run.saw
    BY <1>3, SettledSteps
  <2>2. Settled /\ settled # None
    BY <1>3, <2>1 DEF SettledInv
  <2>3. Loaded' => \A s \in Steps : graph'.hash[s] = settled
    BY <2>1, <2>2, GraphSteps DEF ReadCache, Settled
  <2>4. Seen'
    BY <2>1, <2>2, RunSteps DEF StartExecute, Seen, Settled, BuildFileTime
  <2>5. Settled'
    BY <2>1, <2>2, <2>3, <2>4 DEF Settled, CacheValid
  <2>. QED  BY <2>5, LoadedNext DEF SettledInv
<1>. QED  BY <1>1, <1>2, <1>3

-----------------------------------------------------------------------------
(* The theorems.                                                           *)

(* What a run loads, from the cache or the text, is what its manifest said *)
(* at some time since the last edit between two runs (parse compares the   *)
(* times, parseBin does not): no such edit is ever missed, however often   *)
(* the manifest is edited under a run as well.  For one manifest and no    *)
(* overrides.                                                              *)
THEOREM EveryEditIsNoticed ==
    ASSUME OneManifest, NoOverrides
    PROVE  Spec => []EditsAreNoticed
<1>. DEFINE Inv == TypeOK /\ StateInv /\ DueInv
<1>1. Init => Inv
  BY TypeInit, StateInit, DueInit
<1>2. Inv /\ [Next]_vars => Inv'
  BY OneManifest, NoOverrides, TypeNext, StateNext, DueNext
<1>3. Inv => EditsAreNoticed
  BY DEF TypeOK, DueInv, SinceDue, Loaded, EditsAreNoticed
<1>. QED  BY <1>1, <1>2, <1>3, PTL DEF Spec

(* What a valid cache says of the command that made an output is true      *)
(* whenever no run is under way, however the runs before it ended: command *)
(* hashes are noted when a command has succeeded, saved with the cache and *)
(* dropped with the graph.                                                 *)
THEOREM HashesAreTruthful ==
    ASSUME OneManifest, NoOverrides, OneMishap
    PROVE  Spec => []HashTruthful
<1>1. Init => TruthInv
  BY TypeInit, StateInit, NamedInit, HashInit DEF TruthInv
<1>2. TruthInv /\ [Next]_vars => TruthInv'
  BY OneManifest, NoOverrides, OneMishap, TypeNext, StateNext, NamedNext, OwnNext, HashNext
     DEF TruthInv
<1>3. TruthInv => HashTruthful
  BY DEF TruthInv, HashInv, HashTruthful, Valid
<1>. QED  BY <1>1, <1>2, <1>3, PTL DEF Spec

(* A build that succeeds leaves every output as its command would make it  *)
(* from the inputs as they are, after any number of edits, failures,       *)
(* interrupts, cleans and lost caches: for one manifest, no overrides,     *)
(* commands that leave no partial outputs, and headers that are edited     *)
(* only once a build has noted who reads them.                             *)
THEOREM SuccessIsFresh ==
    ASSUME OneManifest, NoOverrides, WholeOutputs, KnownHeaders
    PROVE  Spec => []SuccessMeansFresh
<1>. DEFINE Inv == TypeOK /\ StateInv /\ NamedInv /\ FreshInv
<1>1. Init => Inv
  BY TypeInit, StateInit, NamedInit, FreshInit
<1>2. Inv /\ [Next]_vars => Inv'
  BY OneManifest, NoOverrides, WholeOutputs, KnownHeaders, TypeNext, StateNext, NamedNext,
     FreshNext
<1>3. Inv => SuccessMeansFresh
  BY DEF StateInv, FreshInv, WorkFresh, SuccessMeansFresh
<1>. QED  BY <1>1, <1>2, <1>3, PTL DEF Spec

(* A build that follows an undisturbed one with the same command lines     *)
(* starts nothing: needsRebuild finds every output newer than its inputs   *)
(* and every hash in the cache.  Failing commands may leave anything.      *)
THEOREM NothingIsBuiltTwice ==
    ASSUME OneManifest, NoOverrides
    PROVE  Spec => NothingToDo
<1>. DEFINE Inv == TypeOK /\ StateInv /\ OwnHashes /\ SettledInv
<1>1. Init => Inv
  BY TypeInit, StateInit, NamedInit, SettledInit
<1>2. Inv /\ [Next]_vars => Inv'
  BY OneManifest, NoOverrides, TypeNext, StateNext, OwnNext, SettledNext
<1>3. Inv /\ [Next]_vars => [\A s \in Steps : Start(s) => settled # graph.flags]_vars
  <2>1. SUFFICES ASSUME Inv, NEW s \in Steps, Start(s), settled = graph.flags PROVE FALSE
    OBVIOUS
  <2>2. graph.flags \in Manifests \X (0..MaxEdits)
    BY <2>1, NoOverrides DEF Start, Runnable, Loaded, TypeOK, Flags, NoOverrides
  <2>3. settled # None
    BY <2>1, <2>2, RolesAssumption
  <2>. QED  BY <2>1, <2>3, NothingToStart
<1>. QED  BY <1>1, <1>2, <1>3, PTL DEF Spec, NothingToDo
=============================================================================
