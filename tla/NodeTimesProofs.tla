--------------------------- MODULE NodeTimesProofs ---------------------------
(***************************************************************************)
(* The slots of NodeTimes are never raced for, and what they answer is     *)
(* current, for every graph, every number of steps and all times.          *)
(*                                                                         *)
(* A step is ordered by edges after the producers of its inputs, so that   *)
(* nobody looks at an output's slot while the output is made.  No edge     *)
(* orders the readers of the manifest after a step that writes it: for     *)
(* that the theorems ask that, in a graph with such a step, every other    *)
(* one has a produced input.  Following these from step to step one comes  *)
(* to the manifest, since there is no other place to start.                *)
(***************************************************************************)
EXTENDS NodeTimes, TLAPS

ManifestMadeFirst ==
    \A m \in Manifests \cap Steps : \A s \in Steps \ {m} : Producers[s] # {}

Looking    == {"load", "use", "stat", "fill", "write", "ready", "answer", "answered"}
Recording  == {"record", "writerecord", "readyrecord"}
Rewriting  == {"command", "invalidate", "invalidatebuild"}
Holding    == {"write", "ready", "writerecord", "readyrecord"}

TypeOK ==
    /\ manifest \in Manifests
    /\ DOMAIN mtime = Files
    /\ slotState \in [Slots -> {"UNKNOWN", "BUSY", "READY"}]
    /\ DOMAIN slotTime = Slots
    /\ at \in [Steps -> {"waiting", "done"} \cup Looking \cup Recording \cup Rewriting]
    /\ target \in [Steps -> Slots]
    /\ DOMAIN seen = Steps
    /\ DOMAIN verdict = Steps
    /\ todo \in [Steps -> SUBSET Steps]

(* A step that has begun comes after the steps that make its inputs, and   *)
(* after the one that makes the manifest.                                  *)
OrderInv ==
    \A s \in Steps : at[s] # "waiting" =>
        /\ \A p \in Producers[s] : at[p] = "done"
        /\ manifest \in Steps /\ s # manifest => at[manifest] = "done"

(* What a step looks at.                                                   *)
TargetInv ==
    \A s \in Steps :
        /\ todo[s] \subseteq Producers[s]
        /\ at[s] = "waiting" => target[s] = BuildFileSlot
        /\ at[s] \in Looking => target[s] \in Producers[s] \cup {BuildFileSlot}
        /\ at[s] \in Recording => target[s] = s
        /\ at[s] = "invalidatebuild" => s = manifest

(* A busy slot belongs to the thread that made it busy.                    *)
OwnerInv ==
    /\ \A s \in Steps :
        /\ at[s] \in Holding => slotState[target[s]] = "BUSY"
        /\ at[s] = "use" => slotState[target[s]] = "READY"
    /\ \A s, u \in Steps :
        s # u /\ at[s] \in Holding /\ at[u] \in Holding => target[s] # target[u]

(* The file of a slot was written and the slot is not yet invalidated.     *)
Outdated(x) ==
    /\ FileOf(x) \in Steps
    /\ \/ at[FileOf(x)] = "invalidate"
       \/ x = BuildFileSlot /\ at[FileOf(x)] = "invalidatebuild"

(* A thread knows the time of the file whose slot it fills, and a filled   *)
(* slot has it unless it is outdated.                                      *)
TimeInv ==
    /\ \A s \in Steps :
        /\ at[s] \in {"fill", "write", "ready", "answer"} \cup Recording
               => seen[s] = mtime[FileOf(target[s])]
        /\ at[s] \in {"ready", "readyrecord"} => slotTime[target[s]] = seen[s]
    /\ \A x \in Slots : slotState[x] = "READY" /\ ~Outdated(x) => slotTime[x] = mtime[FileOf(x)]

NodeTimesInv == TypeOK /\ OrderInv /\ TargetInv /\ OwnerInv /\ TimeInv /\ AnswersCurrent

(* Nobody looks at the slot of an output, or at the manifest's, while the  *)
(* step that makes the file rewrites it.                                   *)
LEMMA Unwatched ==
    ASSUME ManifestMadeFirst, NodeTimesInv,
           NEW s \in Steps, NEW u \in Steps, s # u,
           at[s] \in Rewriting, at[u] \in Looking \cup Recording
    PROVE  target[u] # s /\ FileOf(target[u]) # s
<1>1. CASE at[u] \in Looking
  <2>1. target[u] # s
    BY <1>1, GraphAssumption, SlotAssumption
       DEF NodeTimesInv, OrderInv, TargetInv, Looking, Rewriting
  <2>2. s = manifest => target[u] # BuildFileSlot
    BY <1>1 DEF NodeTimesInv, OrderInv, Looking, Rewriting
  <2>. QED  BY <2>1, <2>2 DEF FileOf
<1>2. CASE at[u] \in Recording
  BY <1>2, SlotAssumption DEF NodeTimesInv, TargetInv, FileOf
<1>. QED  BY <1>1, <1>2

(* Initially every slot is empty and no step has begun.                    *)
LEMMA TimesStart == TimesInit => NodeTimesInv
<1>. SUFFICES ASSUME TimesInit PROVE NodeTimesInv
  OBVIOUS
<1>1. TypeOK
  BY DEF TimesInit, TypeOK, Slots, Looking, Recording, Rewriting
<1>2. OrderInv /\ TargetInv
  BY DEF TimesInit, OrderInv, TargetInv, Looking, Recording
<1>3. OwnerInv /\ TimeInv /\ AnswersCurrent
  BY DEF TimesInit, OwnerInv, TimeInv, AnswersCurrent, Holding, Recording
<1>. QED  BY <1>1, <1>2, <1>3 DEF NodeTimesInv

(* A step that begins to look comes after its producers and the manifest's.*)
LEMMA BeginStep ==
    ASSUME ManifestMadeFirst, NodeTimesInv, NEW s \in Steps, Begin(s)
    PROVE  NodeTimesInv'
<1>. USE GraphAssumption, SlotAssumption DEF NodeTimesInv, Begin, Proceed, slots
<1>1. TypeOK'
  BY DEF TypeOK, Slots, Looking, Recording, Rewriting
<1>2. OrderInv'
  <2>1. manifest \in Steps /\ s # manifest => at[manifest] = "done"
    <3>. SUFFICES ASSUME manifest \in Steps, s # manifest PROVE at[manifest] = "done"
      OBVIOUS
    <3>1. PICK p \in Producers[s] : TRUE
      BY DEF ManifestMadeFirst, TypeOK
    <3>2. p \in Steps /\ at[p] = "done"
      BY <3>1
    <3>. QED  BY <3>2 DEF OrderInv
  <2>. QED  BY <2>1 DEF TypeOK, OrderInv
<1>3. TargetInv'
  BY DEF TypeOK, TargetInv, OrderInv, Looking, Recording
<1>4. OwnerInv'
  BY DEF TypeOK, OwnerInv, TargetInv, Holding, Looking, Recording
<1>5. TimeInv'
  BY DEF TypeOK, TimeInv, OwnerInv, TargetInv, FileOf, Holding, Looking, Recording, Outdated, Slots
<1>6. AnswersCurrent'
  BY DEF TypeOK, AnswersCurrent, TimeInv, FileOf
<1>. QED  BY <1>1, <1>2, <1>3, <1>4, <1>5, <1>6

(* So does a step that runs without looking at times.                      *)
LEMMA BeginUncheckedStep ==
    ASSUME ManifestMadeFirst, NodeTimesInv, NEW s \in Steps, BeginUnchecked(s)
    PROVE  NodeTimesInv'
<1>. USE GraphAssumption, SlotAssumption DEF NodeTimesInv, BeginUnchecked, Proceed, slots
<1>1. TypeOK'
  BY DEF TypeOK, Slots, Looking, Recording, Rewriting
<1>2. OrderInv'
  <2>1. manifest \in Steps /\ s # manifest => at[manifest] = "done"
    <3>. SUFFICES ASSUME manifest \in Steps, s # manifest PROVE at[manifest] = "done"
      OBVIOUS
    <3>1. PICK p \in Producers[s] : TRUE
      BY DEF ManifestMadeFirst, TypeOK
    <3>2. p \in Steps /\ at[p] = "done"
      BY <3>1
    <3>. QED  BY <3>2 DEF OrderInv
  <2>. QED  BY <2>1 DEF TypeOK, OrderInv
<1>3. TargetInv'
  BY DEF TypeOK, TargetInv, OrderInv, Looking, Recording
<1>4. OwnerInv'
  BY DEF TypeOK, OwnerInv, TargetInv, Holding, Looking, Recording
<1>5. TimeInv'
  BY DEF TypeOK, TimeInv, OwnerInv, TargetInv, FileOf, Holding, Looking, Recording, Outdated, Slots
<1>6. AnswersCurrent'
  BY DEF TypeOK, AnswersCurrent, TimeInv, FileOf
<1>. QED  BY <1>1, <1>2, <1>3, <1>4, <1>5, <1>6

(* The next slot is that of an input.                                      *)
LEMMA NextInputStep ==
    ASSUME ManifestMadeFirst, NodeTimesInv, NEW s \in Steps, NextInput(s)
    PROVE  NodeTimesInv'
<1>. USE GraphAssumption, SlotAssumption DEF NodeTimesInv, NextInput, Proceed, slots
<1>1. TypeOK'
  BY DEF TypeOK, Slots, Looking, Recording, Rewriting
<1>2. OrderInv'
  BY DEF TypeOK, OrderInv
<1>3. TargetInv'
  BY DEF TypeOK, TargetInv, OrderInv, Looking, Recording
<1>4. OwnerInv'
  BY DEF TypeOK, OwnerInv, TargetInv, Holding, Looking, Recording
<1>5. TimeInv'
  BY DEF TypeOK, TimeInv, OwnerInv, TargetInv, FileOf, Holding, Looking, Recording, Outdated, Slots
<1>6. AnswersCurrent'
  BY DEF TypeOK, AnswersCurrent, TimeInv, FileOf
<1>. QED  BY <1>1, <1>2, <1>3, <1>4, <1>5, <1>6

(* A step that has found a change goes on to its command.                  *)
LEMMA ChangedStep ==
    ASSUME ManifestMadeFirst, NodeTimesInv, NEW s \in Steps, Changed(s)
    PROVE  NodeTimesInv'
<1>. USE GraphAssumption, SlotAssumption DEF NodeTimesInv, Changed, Proceed, slots
<1>1. TypeOK'
  BY DEF TypeOK, Slots, Looking, Recording, Rewriting
<1>2. OrderInv'
  BY DEF TypeOK, OrderInv
<1>3. TargetInv'
  BY DEF TypeOK, TargetInv, OrderInv, Looking, Recording
<1>4. OwnerInv'
  BY DEF TypeOK, OwnerInv, TargetInv, Holding, Looking, Recording
<1>5. TimeInv'
  BY DEF TypeOK, TimeInv, OwnerInv, TargetInv, FileOf, Holding, Looking, Recording, Outdated, Slots
<1>6. AnswersCurrent'
  BY DEF TypeOK, AnswersCurrent, TimeInv, FileOf
<1>. QED  BY <1>1, <1>2, <1>3, <1>4, <1>5, <1>6

(* An up-to-date step takes its own output's time for the record.          *)
LEMMA UpToDateStep ==
    ASSUME ManifestMadeFirst, NodeTimesInv, NEW s \in Steps, UpToDate(s)
    PROVE  NodeTimesInv'
<1>. USE GraphAssumption, SlotAssumption DEF NodeTimesInv, UpToDate, Proceed, slots
<1>1. TypeOK'
  BY DEF TypeOK, Slots, Looking, Recording, Rewriting
<1>2. OrderInv'
  BY DEF TypeOK, OrderInv
<1>3. TargetInv'
  BY DEF TypeOK, TargetInv, OrderInv, Looking, Recording
<1>4. OwnerInv'
  BY DEF TypeOK, OwnerInv, TargetInv, Holding, Looking, Recording
<1>5. TimeInv'
  BY DEF TypeOK, TimeInv, OwnerInv, TargetInv, FileOf, Holding, Looking, Recording, Outdated, Slots
<1>6. AnswersCurrent'
  BY DEF TypeOK, AnswersCurrent, TimeInv, FileOf
<1>. QED  BY <1>1, <1>2, <1>3, <1>4, <1>5, <1>6

(* Only a slot that is READY is used.                                      *)
LEMMA LoadStep ==
    ASSUME ManifestMadeFirst, NodeTimesInv, NEW s \in Steps, Load(s)
    PROVE  NodeTimesInv'
<1>. USE GraphAssumption, SlotAssumption DEF NodeTimesInv, Load, Proceed, slots
<1>1. TypeOK'
  BY DEF TypeOK, Slots, Looking, Recording, Rewriting
<1>2. OrderInv'
  BY DEF TypeOK, OrderInv
<1>3. TargetInv'
  BY DEF TypeOK, TargetInv, OrderInv, Looking, Recording
<1>4. OwnerInv'
  BY DEF TypeOK, OwnerInv, TargetInv, Holding, Looking, Recording
<1>5. TimeInv'
  BY DEF TypeOK, TimeInv, OwnerInv, TargetInv, FileOf, Holding, Looking, Recording, Outdated, Slots
<1>6. AnswersCurrent'
  BY DEF TypeOK, AnswersCurrent, TimeInv, FileOf
<1>. QED  BY <1>1, <1>2, <1>3, <1>4, <1>5, <1>6

(* The slot that is used is not outdated: its producer has ended.          *)
LEMMA UseStep ==
    ASSUME ManifestMadeFirst, NodeTimesInv, NEW s \in Steps, Use(s)
    PROVE  NodeTimesInv'
<1>. USE GraphAssumption, SlotAssumption DEF NodeTimesInv, Use, Proceed, slots
<1>1. TypeOK'
  BY DEF TypeOK, Slots, Looking, Recording, Rewriting
<1>2. OrderInv'
  BY DEF TypeOK, OrderInv
<1>3. TargetInv'
  BY DEF TypeOK, TargetInv, OrderInv, Looking, Recording
<1>4. OwnerInv'
  BY DEF TypeOK, OwnerInv, TargetInv, Holding, Looking, Recording
<1>5. TimeInv'
  BY DEF TypeOK, TimeInv, OwnerInv, TargetInv, FileOf, Holding, Looking, Recording, Outdated, Slots
<1>6. AnswersCurrent'
  <2>1. target[s] \in Slots /\ slotState[target[s]] = "READY"
    BY DEF TypeOK, OwnerInv
  <2>2. ~Outdated(target[s])
    BY DEF OrderInv, TargetInv, FileOf, Looking, Outdated
  <2>3. slotTime[target[s]] = mtime[FileOf(target[s])]
    BY <2>1, <2>2 DEF TimeInv
  <2>. QED  BY <2>3 DEF TypeOK, AnswersCurrent, FileOf
<1>. QED  BY <1>1, <1>2, <1>3, <1>4, <1>5, <1>6

(* A stat sees the present time of the file.                               *)
LEMMA StatStep ==
    ASSUME ManifestMadeFirst, NodeTimesInv, NEW s \in Steps, Stat(s)
    PROVE  NodeTimesInv'
<1>. USE GraphAssumption, SlotAssumption DEF NodeTimesInv, Stat, Proceed, slots
<1>1. TypeOK'
  BY DEF TypeOK, Slots, Looking, Recording, Rewriting
<1>2. OrderInv'
  BY DEF TypeOK, OrderInv
<1>3. TargetInv'
  BY DEF TypeOK, TargetInv, OrderInv, Looking, Recording
<1>4. OwnerInv'
  BY DEF TypeOK, OwnerInv, TargetInv, Holding, Looking, Recording
<1>5. TimeInv'
  BY DEF TypeOK, TimeInv, OwnerInv, TargetInv, FileOf, Holding, Looking, Recording, Outdated, Slots
<1>6. AnswersCurrent'
  BY DEF TypeOK, AnswersCurrent, TimeInv, FileOf
<1>. QED  BY <1>1, <1>2, <1>3, <1>4, <1>5, <1>6

(* Only an empty slot changes hands, so it has one owner.                  *)
LEMMA FillStep ==
    ASSUME ManifestMadeFirst, NodeTimesInv, NEW s \in Steps, Fill(s)
    PROVE  NodeTimesInv'
<1>. USE GraphAssumption, SlotAssumption DEF NodeTimesInv, Fill, Proceed, slots
<1>1. TypeOK'
  BY DEF TypeOK, Slots, Looking, Recording, Rewriting
<1>2. OrderInv'
  BY DEF TypeOK, OrderInv
<1>3. TargetInv'
  BY DEF TypeOK, TargetInv, OrderInv, Looking, Recording
<1>4. OwnerInv'
  BY DEF TypeOK, OwnerInv, TargetInv, Holding, Looking, Recording
<1>5. TimeInv'
  BY DEF TypeOK, TimeInv, OwnerInv, TargetInv, FileOf, Holding, Looking, Recording, Outdated, Slots
<1>6. AnswersCurrent'
  BY DEF TypeOK, AnswersCurrent, TimeInv, FileOf
<1>. QED  BY <1>1, <1>2, <1>3, <1>4, <1>5, <1>6

(* The owner alone writes the slot's time.                                 *)
LEMMA WriteTimeStep ==
    ASSUME ManifestMadeFirst, NodeTimesInv, NEW s \in Steps, WriteTime(s)
    PROVE  NodeTimesInv'
<1>. USE GraphAssumption, SlotAssumption DEF NodeTimesInv, WriteTime, Proceed, slots
<1>1. TypeOK'
  BY DEF TypeOK, Slots, Looking, Recording, Rewriting
<1>2. OrderInv'
  BY DEF TypeOK, OrderInv
<1>3. TargetInv'
  BY DEF TypeOK, TargetInv, OrderInv, Looking, Recording
<1>4. OwnerInv'
  BY DEF TypeOK, OwnerInv, TargetInv, Holding, Looking, Recording
<1>5. TimeInv'
  BY DEF TypeOK, TimeInv, OwnerInv, TargetInv, FileOf, Holding, Looking, Recording, Outdated, Slots
<1>6. AnswersCurrent'
  BY DEF TypeOK, AnswersCurrent, TimeInv, FileOf
<1>. QED  BY <1>1, <1>2, <1>3, <1>4, <1>5, <1>6

(* The owner publishes the time it knows to be the file's.                 *)
LEMMA SetReadyStep ==
    ASSUME ManifestMadeFirst, NodeTimesInv, NEW s \in Steps, SetReady(s)
    PROVE  NodeTimesInv'
<1>. USE GraphAssumption, SlotAssumption DEF NodeTimesInv, SetReady, Proceed, slots
<1>1. TypeOK'
  BY DEF TypeOK, Slots, Looking, Recording, Rewriting
<1>2. OrderInv'
  BY DEF TypeOK, OrderInv
<1>3. TargetInv'
  BY DEF TypeOK, TargetInv, OrderInv, Looking, Recording
<1>4. OwnerInv'
  BY DEF TypeOK, OwnerInv, TargetInv, Holding, Looking, Recording
<1>5. TimeInv'
  BY DEF TypeOK, TimeInv, OwnerInv, TargetInv, FileOf, Holding, Looking, Recording, Outdated, Slots
<1>6. AnswersCurrent'
  BY DEF TypeOK, AnswersCurrent, TimeInv, FileOf
<1>. QED  BY <1>1, <1>2, <1>3, <1>4, <1>5, <1>6

(* An answer from a stat of one's own is current.                          *)
LEMMA AnswerStep ==
    ASSUME ManifestMadeFirst, NodeTimesInv, NEW s \in Steps, Answer(s)
    PROVE  NodeTimesInv'
<1>. USE GraphAssumption, SlotAssumption DEF NodeTimesInv, Answer, Proceed, slots
<1>1. TypeOK'
  BY DEF TypeOK, Slots, Looking, Recording, Rewriting
<1>2. OrderInv'
  BY DEF TypeOK, OrderInv
<1>3. TargetInv'
  BY DEF TypeOK, TargetInv, OrderInv, Looking, Recording
<1>4. OwnerInv'
  BY DEF TypeOK, OwnerInv, TargetInv, Holding, Looking, Recording
<1>5. TimeInv'
  BY DEF TypeOK, TimeInv, OwnerInv, TargetInv, FileOf, Holding, Looking, Recording, Outdated, Slots
<1>6. AnswersCurrent'
  BY DEF TypeOK, AnswersCurrent, TimeInv, FileOf
<1>. QED  BY <1>1, <1>2, <1>3, <1>4, <1>5, <1>6

(* A record goes into an empty slot only.                                  *)
LEMMA RecordStep ==
    ASSUME ManifestMadeFirst, NodeTimesInv, NEW s \in Steps, Record(s)
    PROVE  NodeTimesInv'
<1>. USE GraphAssumption, SlotAssumption DEF NodeTimesInv, Record, Proceed, slots
<1>1. TypeOK'
  BY DEF TypeOK, Slots, Looking, Recording, Rewriting
<1>2. OrderInv'
  BY DEF TypeOK, OrderInv
<1>3. TargetInv'
  BY DEF TypeOK, TargetInv, OrderInv, Looking, Recording
<1>4. OwnerInv'
  BY DEF TypeOK, OwnerInv, TargetInv, Holding, Looking, Recording
<1>5. TimeInv'
  BY DEF TypeOK, TimeInv, OwnerInv, TargetInv, FileOf, Holding, Looking, Recording, Outdated, Slots
<1>6. AnswersCurrent'
  BY DEF TypeOK, AnswersCurrent, TimeInv, FileOf
<1>. QED  BY <1>1, <1>2, <1>3, <1>4, <1>5, <1>6

(* A command changes no file that somebody looks at.                       *)
LEMMA CommandStep ==
    ASSUME ManifestMadeFirst, NodeTimesInv, NEW s \in Steps, Command(s)
    PROVE  NodeTimesInv'
<1>. USE GraphAssumption, SlotAssumption DEF NodeTimesInv, Command, Proceed, slots
<1>1. TypeOK'
  BY DEF TypeOK, Slots, Looking, Recording, Rewriting
<1>2. OrderInv'
  BY DEF TypeOK, OrderInv
<1>3. TargetInv'
  BY DEF TypeOK, TargetInv, OrderInv, Looking, Recording
<1>4. OwnerInv'
  BY DEF TypeOK, OwnerInv, TargetInv, Holding, Looking, Recording
<1>5. TimeInv'
  <2>1. \A u \in Steps : u # s /\ at[u] \in Looking \cup Recording
                           => target[u] # s /\ FileOf(target[u]) # s
    BY Unwatched DEF Rewriting
  <2>2. s \in Files /\ \A f \in Files : f # s => mtime'[f] = mtime[f]
    BY DEF TypeOK, Files
  <2>3. \A u \in Steps : u # s /\ at[u] \in Looking \cup Recording
            => FileOf(target[u]) \in Files /\ mtime'[FileOf(target[u])] = mtime[FileOf(target[u])]
    BY <2>1, <2>2 DEF TypeOK, FileOf, Files, Slots
  <2>4. \A x \in Slots : FileOf(x) # s => mtime'[FileOf(x)] = mtime[FileOf(x)]
    BY <2>2 DEF TypeOK, FileOf, Files, Slots
  <2>5. at' = [at EXCEPT ![s] = "invalidate"] /\ FileOf(s)' = FileOf(s)
    BY DEF FileOf
  <2>. QED  BY <2>3, <2>4, <2>5 DEF TypeOK, TimeInv, FileOf, Looking, Recording, Outdated
<1>6. AnswersCurrent'
  <2>1. \A u \in Steps : u # s /\ at[u] \in Looking \cup Recording
                           => target[u] # s /\ FileOf(target[u]) # s
    BY Unwatched DEF Rewriting
  <2>2. \A f : f # s => mtime'[f] = mtime[f]
    BY DEF TypeOK
  <2>. QED  BY <2>1, <2>2 DEF TypeOK, AnswersCurrent, FileOf, Looking
<1>. QED  BY <1>1, <1>2, <1>3, <1>4, <1>5, <1>6

(* An output's slot is emptied while nobody looks at it.                   *)
LEMMA InvalidateStep ==
    ASSUME ManifestMadeFirst, NodeTimesInv, NEW s \in Steps, Invalidate(s)
    PROVE  NodeTimesInv'
<1>. USE GraphAssumption, SlotAssumption DEF NodeTimesInv, Invalidate, Proceed, slots
<1>1. TypeOK'
  BY DEF TypeOK, Slots, Looking, Recording, Rewriting
<1>2. OrderInv'
  BY DEF TypeOK, OrderInv
<1>3. TargetInv'
  BY DEF TypeOK, TargetInv, OrderInv, Looking, Recording
<1>4. OwnerInv'
  <2>1. \A u \in Steps : u # s /\ at[u] \in Looking \cup Recording
                           => target[u] # s /\ FileOf(target[u]) # s
    BY Unwatched DEF Rewriting
  <2>. QED  BY <2>1 DEF TypeOK, OwnerInv, Holding, Looking, Recording
<1>5. TimeInv'
  BY DEF TypeOK, TimeInv, OwnerInv, TargetInv, FileOf, Holding, Looking, Recording, Outdated, Slots
<1>6. AnswersCurrent'
  BY DEF TypeOK, AnswersCurrent, TimeInv, FileOf
<1>. QED  BY <1>1, <1>2, <1>3, <1>4, <1>5, <1>6

(* The manifest's slot is emptied while nobody looks at it.                *)
LEMMA InvalidateBuildFileStep ==
    ASSUME ManifestMadeFirst, NodeTimesInv, NEW s \in Steps, InvalidateBuildFile(s)
    PROVE  NodeTimesInv'
<1>. USE GraphAssumption, SlotAssumption DEF NodeTimesInv, InvalidateBuildFile, Proceed, slots
<1>1. TypeOK'
  BY DEF TypeOK, Slots, Looking, Recording, Rewriting
<1>2. OrderInv'
  BY DEF TypeOK, OrderInv
<1>3. TargetInv'
  BY DEF TypeOK, TargetInv, OrderInv, Looking, Recording
<1>4. OwnerInv'
  <2>1. \A u \in Steps : u # s /\ at[u] \in Looking \cup Recording
                           => target[u] # s /\ FileOf(target[u]) # s
    BY Unwatched DEF Rewriting
  <2>2. s = manifest
    BY DEF TargetInv
  <2>3. \A u \in Steps : u # s /\ at[u] \in Looking \cup Recording => target[u] # BuildFileSlot
    BY <2>1, <2>2 DEF FileOf
  <2>. QED  BY <2>3 DEF TypeOK, OwnerInv, Holding, Looking, Recording
<1>5. TimeInv'
  <2>1. s = manifest
    BY DEF TargetInv
  <2>. QED  BY <2>1 DEF TypeOK, TimeInv, FileOf, Recording, Outdated, Slots
<1>6. AnswersCurrent'
  BY DEF TypeOK, AnswersCurrent, TimeInv, FileOf
<1>. QED  BY <1>1, <1>2, <1>3, <1>4, <1>5, <1>6

(* Every action keeps the invariant.                                       *)
LEMMA TimesKept == ManifestMadeFirst /\ NodeTimesInv /\ [TimesNext]_timesVars => NodeTimesInv'
<1>. SUFFICES ASSUME ManifestMadeFirst, NodeTimesInv, [TimesNext]_timesVars
              PROVE  NodeTimesInv'
  OBVIOUS
<1>1. CASE UNCHANGED timesVars
  BY <1>1 DEF NodeTimesInv, TypeOK, OrderInv, TargetInv, OwnerInv, TimeInv, Outdated,
              AnswersCurrent, FileOf, timesVars, slots
<1>2. ASSUME NEW s \in Steps, Process(s) PROVE NodeTimesInv'
  BY <1>2, BeginStep, BeginUncheckedStep, NextInputStep, ChangedStep, UpToDateStep, LoadStep,
     UseStep, StatStep, FillStep, WriteTimeStep, SetReadyStep, AnswerStep, RecordStep,
     CommandStep, InvalidateStep, InvalidateBuildFileStep
     DEF Process
<1>. QED  BY <1>1, <1>2 DEF TimesNext, AllDone

(* NodeTimesInv is an invariant.                                           *)
LEMMA TimesInvariant == ManifestMadeFirst /\ TimesSpec => []NodeTimesInv
<1>. SUFFICES ASSUME ManifestMadeFirst PROVE TimesSpec => []NodeTimesInv
  OBVIOUS
<1>. QED  BY TimesStart, TimesKept, PTL DEF TimesSpec

-----------------------------------------------------------------------------

(***************************************************************************)
(* No thread writes a slot's time while another one writes or reads it     *)
(* (the plain Slot::time of NodeTimes, guarded by Slot::state alone).      *)
(***************************************************************************)
THEOREM SlotsNotRacedFor == ManifestMadeFirst /\ TimesSpec => []SlotsUnshared
<1>1. NodeTimesInv => SlotsUnshared
  BY DEF NodeTimesInv, OwnerInv, SlotsUnshared, Writing, Holding
<1>. QED  BY <1>1, TimesInvariant, PTL

(***************************************************************************)
(* changedSince answers as a stat of the file would, whoever filled the    *)
(* slot, and whatever was rewritten since the run began.                   *)
(***************************************************************************)
THEOREM CachedAnswersAreCurrent == ManifestMadeFirst /\ TimesSpec => []AnswersCurrent
<1>1. NodeTimesInv => AnswersCurrent
  BY DEF NodeTimesInv
<1>. QED  BY <1>1, TimesInvariant, PTL
=============================================================================
