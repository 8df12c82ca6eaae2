------------------------------ MODULE NodeTimes ------------------------------
(***************************************************************************)
(* Executor::NodeTimes: the cache of modification times that the workers   *)
(* share while they decide which steps to run.  A produced file has a slot *)
(* in the cache, and so has the build manifest.  A slot is filled at most  *)
(* once: its state goes from UNKNOWN over BUSY to READY, and only the      *)
(* thread that made it BUSY writes its time, which is a plain object.      *)
(*                                                                         *)
(* One process per step stands for the worker that runs needsRebuild and   *)
(* processStep for it; a step begins when its producers are done, which is *)
(* what module Scheduler guarantees.  Sources are left out: their times    *)
(* are read before the workers start and do not change.                    *)
(***************************************************************************)
EXTENDS Integers, FiniteSets

CONSTANTS
    Steps,          \* steps, named by the files they produce
    Producers,      \* the produced inputs of each step
    Manifests,      \* what config.build_file may be
    Times           \* the modification times files have when the run begins

ASSUME GraphAssumption ==
    Producers \in [Steps -> SUBSET Steps]
ASSUME TimesAssumption == Times \subseteq Nat \ {0} /\ IsFiniteSet(Times)

VARIABLES
    manifest,   \* config.build_file
    mtime,      \* the files' modification times
    slotState,  \* Slot::state
    slotTime,   \* Slot::time
    at,         \* where the worker of each step is
    target,     \* the slot it looks at
    seen,       \* the time it has got from stat
    verdict,    \* the result of its last changedSince
    todo        \* the inputs it has still to look at

slots == <<slotState, slotTime>>
timesVars == <<manifest, mtime, slots, at, target, seen, verdict, todo>>

(* build_file_slot is a slot of its own, also when a step of the graph     *)
(* produces the manifest.                                                  *)
BuildFileSlot == "build_file_slot"
Slots == Steps \cup {BuildFileSlot}
Files == Steps \cup Manifests
ASSUME SlotAssumption == BuildFileSlot \notin Steps
FileOf(slot) == IF slot = BuildFileSlot THEN manifest ELSE slot
Maximum(S) == CHOOSE x \in S : \A y \in S : y <= x

TimesInit ==
    /\ manifest \in Manifests
    /\ mtime \in [Files -> Times]
    /\ slotState = [x \in Slots |-> "UNKNOWN"]
    /\ slotTime = [x \in Slots |-> 0]
    /\ at = [s \in Steps |-> "waiting"]
    /\ target = [s \in Steps |-> BuildFileSlot]
    /\ seen = [s \in Steps |-> 0]
    /\ verdict = [s \in Steps |-> FALSE]
    /\ todo = [s \in Steps |-> {}]

Proceed(s, label) == at' = [at EXCEPT ![s] = label]

(***************************************************************************)
(* needsRebuild: the manifest first, then the inputs, until one has        *)
(* changed.  The output exists and its command is the old one: otherwise   *)
(* no slot is looked at.                                                   *)
(***************************************************************************)
Begin(s) ==
    /\ at[s] = "waiting"
    /\ \A p \in Producers[s] : at[p] = "done"
    /\ todo' = [todo EXCEPT ![s] = Producers[s]]
    /\ Proceed(s, "load")
    /\ UNCHANGED <<manifest, mtime, slots, target, seen, verdict>>

BeginUnchecked(s) ==
    /\ at[s] = "waiting"
    /\ \A p \in Producers[s] : at[p] = "done"
    /\ Proceed(s, "command")
    /\ UNCHANGED <<manifest, mtime, slots, target, seen, verdict, todo>>

NextInput(s) ==
    /\ at[s] = "answered"
    /\ ~verdict[s]
    /\ \E p \in todo[s] :
        /\ target' = [target EXCEPT ![s] = p]
        /\ todo' = [todo EXCEPT ![s] = @ \ {p}]
    /\ Proceed(s, "load")
    /\ UNCHANGED <<manifest, mtime, slots, seen, verdict>>

Changed(s) ==
    /\ at[s] = "answered"
    /\ verdict[s]
    /\ Proceed(s, "command")
    /\ UNCHANGED <<manifest, mtime, slots, target, seen, verdict, todo>>

UpToDate(s) ==
    /\ at[s] = "answered"
    /\ ~verdict[s]
    /\ todo[s] = {}
    /\ target' = [target EXCEPT ![s] = s]
    /\ seen' = [seen EXCEPT ![s] = mtime[s]]
    /\ Proceed(s, "record")
    /\ UNCHANGED <<manifest, mtime, slots, verdict, todo>>

(***************************************************************************)
(* changedSince                                                            *)
(***************************************************************************)
Load(s) ==
    /\ at[s] = "load"
    /\ Proceed(s, IF slotState[target[s]] = "READY" THEN "use" ELSE "stat")
    /\ UNCHANGED <<manifest, mtime, slots, target, seen, verdict, todo>>

Use(s) ==
    /\ at[s] = "use"
    /\ verdict' = [verdict EXCEPT ![s] = slotTime[target[s]] >= mtime[s]]
    /\ Proceed(s, "answered")
    /\ UNCHANGED <<manifest, mtime, slots, target, seen, todo>>

Stat(s) ==
    /\ at[s] = "stat"
    /\ seen' = [seen EXCEPT ![s] = mtime[FileOf(target[s])]]
    /\ Proceed(s, "fill")
    /\ UNCHANGED <<manifest, mtime, slots, target, verdict, todo>>

FillUnlessReady(s) ==               \* mutant: a busy slot is filled as well
    /\ at[s] = "fill"
    /\ IF slotState[target[s]] # "READY"
         THEN slotState' = [slotState EXCEPT ![target[s]] = "BUSY"] /\ Proceed(s, "write")
         ELSE UNCHANGED slotState /\ Proceed(s, "answer")
    /\ UNCHANGED <<manifest, mtime, slotTime, target, seen, verdict, todo>>

(* The thread that takes the slot from UNKNOWN to BUSY fills it.           *)
Fill(s) ==
    /\ at[s] = "fill"
    /\ IF slotState[target[s]] = "UNKNOWN"
         THEN slotState' = [slotState EXCEPT ![target[s]] = "BUSY"] /\ Proceed(s, "write")
         ELSE UNCHANGED slotState /\ Proceed(s, "answer")
    /\ UNCHANGED <<manifest, mtime, slotTime, target, seen, verdict, todo>>

WriteTime(s) ==
    /\ at[s] \in {"write", "writerecord"}
    /\ slotTime' = [slotTime EXCEPT ![target[s]] = seen[s]]
    /\ Proceed(s, IF at[s] = "write" THEN "ready" ELSE "readyrecord")
    /\ UNCHANGED <<manifest, mtime, slotState, target, seen, verdict, todo>>

SetReady(s) ==
    /\ at[s] \in {"ready", "readyrecord"}
    /\ slotState' = [slotState EXCEPT ![target[s]] = "READY"]
    /\ Proceed(s, IF at[s] = "ready" THEN "answer" ELSE "done")
    /\ UNCHANGED <<manifest, mtime, slotTime, target, seen, verdict, todo>>

Answer(s) ==
    /\ at[s] = "answer"
    /\ verdict' = [verdict EXCEPT ![s] = seen[s] >= mtime[s]]
    /\ Proceed(s, "answered")
    /\ UNCHANGED <<manifest, mtime, slots, target, seen, todo>>

(***************************************************************************)
(* record, and invalidate after the command has rewritten the output.      *)
(***************************************************************************)
Record(s) ==
    /\ at[s] = "record"
    /\ IF slotState[s] = "UNKNOWN"
         THEN slotState' = [slotState EXCEPT ![s] = "BUSY"] /\ Proceed(s, "writerecord")
         ELSE UNCHANGED slotState /\ Proceed(s, "done")
    /\ UNCHANGED <<manifest, mtime, slotTime, target, seen, verdict, todo>>

Command(s) ==
    /\ at[s] = "command"
    /\ mtime' = [mtime EXCEPT ![s] = Maximum({mtime[f] : f \in Files}) + 1]
    /\ Proceed(s, "invalidate")
    /\ UNCHANGED <<manifest, slots, target, seen, verdict, todo>>

InvalidateOwnSlot(s) ==             \* mutant: the build file's slot is forgotten
    /\ at[s] = "invalidate"
    /\ slotState' = [slotState EXCEPT ![s] = "UNKNOWN"]
    /\ Proceed(s, "done")
    /\ UNCHANGED <<manifest, mtime, slotTime, target, seen, verdict, todo>>

Invalidate(s) ==
    /\ at[s] = "invalidate"
    /\ slotState' = [slotState EXCEPT ![s] = "UNKNOWN"]
    /\ Proceed(s, IF s = manifest THEN "invalidatebuild" ELSE "done")
    /\ UNCHANGED <<manifest, mtime, slotTime, target, seen, verdict, todo>>

InvalidateBuildFile(s) ==
    /\ at[s] = "invalidatebuild"
    /\ slotState' = [slotState EXCEPT ![BuildFileSlot] = "UNKNOWN"]
    /\ Proceed(s, "done")
    /\ UNCHANGED <<manifest, mtime, slotTime, target, seen, verdict, todo>>

-----------------------------------------------------------------------------

Process(s) ==
    \/ Begin(s) \/ BeginUnchecked(s) \/ NextInput(s) \/ Changed(s) \/ UpToDate(s)
    \/ Load(s) \/ Use(s) \/ Stat(s) \/ Fill(s) \/ WriteTime(s) \/ SetReady(s) \/ Answer(s)
    \/ Record(s) \/ Command(s) \/ Invalidate(s) \/ InvalidateBuildFile(s)

AllDone == (\A s \in Steps : at[s] = "done") /\ UNCHANGED timesVars

TimesNext == (\E s \in Steps : Process(s)) \/ AllDone

TimesSpec == TimesInit /\ [][TimesNext]_timesVars

-----------------------------------------------------------------------------
(***************************************************************************)
(* Properties.                                                             *)
(***************************************************************************)
Writing == {"write", "writerecord"}

(* The comment on NodeTimes: slots are "filled at most once", and "a       *)
(* produced node is only read after its producer finished".  So no thread  *)
(* writes a slot's time while another writes or reads it.                  *)
SlotsUnshared ==
    \A s, u \in Steps :
        s # u /\ at[s] \in Writing /\ at[u] \in Writing \cup {"use"} => target[s] # target[u]

(* What changedSince answers is what a stat of the file would have said,   *)
(* whoever filled the slot and whenever: a rewritten output is never       *)
(* judged by the time it had before.                                       *)
AnswersCurrent ==
    \A s \in Steps :
        at[s] = "answered" => verdict[s] = (mtime[FileOf(target[s])] >= mtime[s])

=============================================================================
