---------------------------- MODULE ServiceProofs ----------------------------
(***************************************************************************)
(* Proofs about what cob asks of the operating system, for any number of   *)
(* paths, workers, link steps, versions and runs: clean's requests to the  *)
(* kernel, the commands that it runs, the response files of links, the     *)
(* cache file and the times of the sources.  The invariant of each is      *)
(* proved of its own module; in the end they are put together.             *)
(***************************************************************************)
EXTENDS Services, RingArithmetic, FiniteSets, FiniteSetTheorems, SequenceTheorems, TLAPS

-----------------------------------------------------------------------------
(***************************************************************************)
(* cob clean.                                                              *)
(***************************************************************************)
CleanAssumption == MaxPaths \in Nat /\ Depth \in Nat \ {0}

(* The paths of the batch that the kernel has been given.                  *)
Given == offset + 1 .. offset + submitted
Answers == Nat \X BOOLEAN
InBatch == cleaning \in {"submit", "wait", "reap"}

CleanTypeOK ==
    /\ paths \in Nat /\ offset \in Nat /\ submitted \in Nat /\ seen \in Nat
    /\ files \subseteq 1 .. paths /\ inKernel \subseteq Nat
    /\ cleaning \in {"init", "prepare", "submit", "wait", "reap", "fallback", "done"}
    /\ completions \in Seq(Answers)

(* The batches that are behind are gone, and the ring has forgotten them.  *)
BehindInv ==
    /\ \A p \in files : p > offset
    /\ cleaning = "done" => files = {}
    /\ cleaning \in {"init", "prepare"} => inKernel = {} /\ completions = <<>>

(* What is prepared is the rest of the batch; a request is with the kernel *)
(* or answered, and a file that it was about is still there only if the    *)
(* answer has not been looked at and is that the request failed.           *)
BatchInv ==
    InBatch =>
      /\ Clean!Count \in Nat /\ submitted <= Clean!Count
      /\ prepared \in Seq(Nat) /\ Len(prepared) = Clean!Count - submitted
      /\ \A i \in 1 .. Len(prepared) : prepared[i] = offset + submitted + i
      /\ cleaning = "reap" => submitted = Clean!Count
      /\ inKernel \subseteq Given
      /\ Cardinality(inKernel) + Len(completions) + seen = submitted
      /\ \A p \in files : p \in Given =>
           \/ p \in inKernel
           \/ \E i \in 1 .. Len(completions) : completions[i] = <<p, TRUE>>

CleanInv == CleanTypeOK /\ BehindInv /\ BatchInv

(* Steps keep the types.                                                   *)
LEMMA CleanTypeStep ==
    ASSUME CleanAssumption, CleanInv, [Clean!CleanNext]_(Clean!cleanVars)
    PROVE  CleanTypeOK'
<1>1. CleanTypeOK /\ Depth \in Nat \ {0}
  BY DEF CleanInv, CleanAssumption
<1>2. CASE UNCHANGED Clean!cleanVars
  <2>1. UNCHANGED <<paths, files, cleaning, offset, submitted, inKernel, completions, seen>>
    BY <1>2 DEF Clean!cleanVars, Clean!ring
  <2> QED
    BY <1>1, <2>1 DEF CleanTypeOK
<1>3. CASE \/ Clean!QueueInit \/ Clean!QueueInitFails \/ Clean!Prepare \/ Clean!Submitted
           \/ Clean!SubmitFails \/ Clean!Wait \/ Clean!WaitFails \/ Clean!QueueExit
  <2>1. /\ UNCHANGED <<paths, files, offset, inKernel, completions>>
        /\ submitted' \in {submitted, 0} /\ seen' \in {seen, 0}
        /\ cleaning' \in {"prepare", "submit", "wait", "reap", "fallback", "done"}
    BY <1>3
       DEF Clean!ring, Clean!QueueInit, Clean!QueueInitFails, Clean!Prepare,
           Clean!Submitted, Clean!SubmitFails, Clean!Wait, Clean!WaitFails, Clean!QueueExit
  <2> QED
    BY <1>1, <2>1 DEF CleanTypeOK
<1>4. CASE Clean!Submit
  <2>1. PICK n \in 1 .. Len(prepared) :
          /\ submitted' = submitted + n
          /\ inKernel' = inKernel \cup {prepared[i] : i \in 1 .. n}
    BY <1>4 DEF Clean!Submit
  <2>2. prepared \in Seq(Nat) /\ \A i \in 1 .. Len(prepared) : prepared[i] \in Nat
    BY <1>4, ElementOfSeq DEF Clean!Submit, InBatch, CleanInv, BatchInv
  <2>3. n \in Nat
    <3>1. Len(prepared) \in Nat
      BY <2>2, LenProperties
    <3> QED
      BY <3>1
  <2>4. inKernel' \subseteq Nat
    <3>1. \A i \in 1 .. n : prepared[i] \in Nat
      BY <2>2
    <3>2. {prepared[i] : i \in 1 .. n} \subseteq Nat
      BY <3>1
    <3> QED
      BY <1>1, <2>1, <3>2 DEF CleanTypeOK
  <2>5. UNCHANGED <<paths, files, cleaning, offset, completions, seen>>
    BY <1>4 DEF Clean!Submit
  <2> QED
    BY <1>1, <2>1, <2>3, <2>4, <2>5, SMTT(30) DEF CleanTypeOK
<1>5. ASSUME NEW path \in inKernel, Clean!Unlink(path) PROVE CleanTypeOK'
  <2>1. PICK refused \in BOOLEAN :
          /\ completions' = Append(completions, <<path, refused>>)
          /\ files' = IF refused THEN files ELSE files \ {path}
    BY <1>5 DEF Clean!Unlink
  <2>2. <<path, refused>> \in Answers
    BY <1>1 DEF CleanTypeOK, Answers
  <2>3. completions' \in Seq(Answers)
    BY <1>1, <2>1, <2>2, AppendProperties DEF CleanTypeOK
  <2> QED
    BY <1>1, <1>5, <2>1, <2>3 DEF CleanTypeOK, Clean!Unlink
<1>6. CASE Clean!Reap
  <2>1. completions' \in Seq(Answers) /\ files' \subseteq files
    BY <1>1, <1>6, HeadTailProperties DEF CleanTypeOK, Clean!Reap
  <2>2. UNCHANGED <<paths, cleaning, offset, submitted, inKernel>> /\ seen' = seen + 1
    BY <1>6 DEF Clean!Reap
  <2> QED
    BY <1>1, <2>1, <2>2 DEF CleanTypeOK
<1>7. CASE Clean!NextBatch
  <2>1. Clean!Count \in Nat
    BY <1>1, <1>7 DEF Clean!NextBatch, CleanTypeOK, InBatch, CleanInv, BatchInv
  <2> QED
    BY <1>1, <1>7, <2>1 DEF CleanTypeOK, Clean!NextBatch, Clean!ring
<1>8. CASE Clean!FallBack
  <2>1. <<>> \in Seq(Answers)
    BY EmptySeq
  <2> QED
    BY <1>1, <1>8, <2>1 DEF CleanTypeOK, Clean!FallBack
<1> QED
  BY <1>2, <1>3, <1>4, <1>5, <1>6, <1>7, <1>8 DEF Clean!CleanNext

(* A batch that is reaped to its end has left nothing: no request is with  *)
(* the kernel, no answer is waiting, and its files are gone.               *)
LEMMA ReapedBatchIsGone ==
    ASSUME CleanAssumption, CleanInv, cleaning = "reap", seen = submitted
    PROVE  /\ inKernel = {} /\ completions = <<>>
           /\ Clean!Count \in Nat
           /\ \A p \in files : p > offset + Clean!Count
<1>1. /\ submitted = Clean!Count /\ submitted \in Nat /\ offset \in Nat
      /\ inKernel \subseteq Given
      /\ Cardinality(inKernel) + Len(completions) + seen = submitted
      /\ completions \in Seq(Answers) /\ files \subseteq 1 .. paths /\ paths \in Nat
  BY DEF CleanInv, CleanTypeOK, BatchInv, InBatch
<1>2. IsFiniteSet(inKernel) /\ Cardinality(inKernel) \in Nat
  <2>1. IsFiniteSet(Given)
    BY <1>1, FS_Interval DEF Given
  <2> QED
    BY <1>1, <2>1, FS_Subset, FS_CardinalityType
<1>3. Len(completions) \in Nat
  BY <1>1, LenProperties
<1>4. Cardinality(inKernel) = 0 /\ Len(completions) = 0
  BY <1>1, <1>2, <1>3
<1>5. inKernel = {} /\ completions = <<>>
  BY <1>1, <1>2, <1>4, FS_EmptySet, EmptySeq
<1>6. \A p \in files : p \notin Given
  BY <1>4, <1>5 DEF CleanInv, BatchInv, InBatch
<1>7. \A p \in files : p \in Nat /\ p > offset
  BY <1>1 DEF CleanInv, BehindInv
<1> QED
  BY <1>1, <1>5, <1>6, <1>7 DEF Given

(* Every action keeps the files behind the offset removed.                 *)
LEMMA BehindStep ==
    ASSUME CleanAssumption, CleanInv, [Clean!CleanNext]_(Clean!cleanVars)
    PROVE  BehindInv'
<1>1. /\ files \subseteq 1 .. paths /\ paths \in Nat /\ offset \in Nat
      /\ \A p \in files : p \in Nat /\ p > offset
      /\ cleaning = "done" => files = {}
      /\ cleaning \in {"init", "prepare"} => inKernel = {} /\ completions = <<>>
  BY DEF CleanInv, CleanTypeOK, BehindInv
<1>2. CASE UNCHANGED Clean!cleanVars
  BY <1>1, <1>2 DEF BehindInv, Clean!cleanVars, Clean!ring
<1>3. CASE \/ Clean!QueueInit \/ Clean!QueueInitFails \/ Clean!Prepare \/ Clean!Submit
           \/ Clean!Submitted \/ Clean!SubmitFails \/ Clean!Wait \/ Clean!WaitFails
  <2>1. /\ UNCHANGED <<files, offset>> /\ cleaning' # "done"
        /\ cleaning' \in {"init", "prepare"}
             => cleaning \in {"init", "prepare"} /\ UNCHANGED <<inKernel, completions>>
    BY <1>3
       DEF Clean!ring, Clean!QueueInit, Clean!QueueInitFails, Clean!Prepare, Clean!Submit,
           Clean!Submitted, Clean!SubmitFails, Clean!Wait, Clean!WaitFails
  <2> QED
    BY <1>1, <2>1 DEF BehindInv
<1>4. ASSUME NEW path \in inKernel, Clean!Unlink(path) PROVE BehindInv'
  <2>1. files' \subseteq files /\ UNCHANGED <<offset, cleaning>>
    BY <1>4 DEF Clean!Unlink
  <2> QED
    BY <1>1, <1>4, <2>1 DEF BehindInv
<1>5. CASE Clean!Reap
  <2>1. files' \subseteq files /\ UNCHANGED <<offset, cleaning>> /\ cleaning = "reap"
    BY <1>5 DEF Clean!Reap
  <2> QED
    BY <1>1, <2>1 DEF BehindInv
<1>6. CASE Clean!NextBatch
  <2>1. /\ cleaning = "reap" /\ seen = submitted /\ offset' = offset + Clean!Count
        /\ UNCHANGED <<files, inKernel, completions>> /\ cleaning' = "prepare"
    BY <1>6 DEF Clean!NextBatch, Clean!ring
  <2> QED
    BY <2>1, ReapedBatchIsGone DEF BehindInv
<1>7. CASE Clean!FallBack
  <2>1. files' = files \ (offset + 1 .. paths) /\ cleaning' = "done" /\ UNCHANGED offset
    BY <1>7 DEF Clean!FallBack
  <2>2. files' = {}
    BY <1>1, <2>1
  <2> QED
    BY <2>1, <2>2 DEF BehindInv
<1>8. CASE Clean!QueueExit
  <2>1. offset >= paths /\ cleaning' = "done" /\ UNCHANGED <<files, offset>>
    BY <1>8 DEF Clean!QueueExit
  <2>2. files = {}
    BY <1>1, <2>1
  <2> QED
    BY <2>1, <2>2 DEF BehindInv
<1> QED
  BY <1>2, <1>3, <1>4, <1>5, <1>6, <1>7, <1>8 DEF Clean!CleanNext

(* The requests that the kernel takes are the next of the batch, and new   *)
(* to it.                                                                  *)
LEMMA SubmitGives ==
    ASSUME CleanAssumption, CleanInv, Clean!Submit
    PROVE  BatchInv'
<1>1. /\ cleaning = "submit" /\ InBatch /\ submitted \in Nat /\ offset \in Nat
      /\ submitted <= Clean!Count
      /\ prepared \in Seq(Nat) /\ Len(prepared) = Clean!Count - submitted
      /\ \A i \in 1 .. Len(prepared) : prepared[i] = offset + submitted + i
      /\ inKernel \subseteq Given
      /\ Cardinality(inKernel) + Len(completions) + seen = submitted
      /\ completions \in Seq(Answers) /\ seen \in Nat
  BY DEF CleanInv, CleanTypeOK, BatchInv, InBatch, Clean!Submit
<1>2. PICK n \in 1 .. Len(prepared) :
        /\ submitted' = submitted + n
        /\ inKernel' = inKernel \cup {prepared[i] : i \in 1 .. n}
        /\ prepared' = SubSeq(prepared, n + 1, Len(prepared))
  BY DEF Clean!Submit
<1>3. UNCHANGED <<paths, files, cleaning, offset, completions, seen, Clean!Count>>
  BY DEF Clean!Submit, Clean!Count
<1> DEFINE l == Len(prepared)
           New == offset + submitted + 1 .. offset + submitted + n
<1>4. /\ l \in Nat /\ n \in Nat /\ n <= l /\ Len(completions) \in Nat
      /\ Clean!Count \in Nat /\ Clean!Count = submitted + l
  <2>1. l \in Nat /\ Len(completions) \in Nat /\ Clean!Count \in Nat
    BY <1>1, LenProperties DEF CleanInv, BatchInv
  <2>2. n \in Nat /\ n <= l
    BY ONLY <2>1, n \in 1 .. l
  <2>3. submitted \in Nat /\ l = Clean!Count - submitted
    BY <1>1
  <2>4. Clean!Count = submitted + l
    BY ONLY <2>1, <2>3
  <2> QED
    BY <2>1, <2>2, <2>4
<1>a. offset \in Nat /\ submitted \in Nat /\ n \in Nat
  BY <1>1, <1>4
<1>5. {prepared[i] : i \in 1 .. n} = New
  <2>1. \A i \in 1 .. n : prepared[i] = offset + submitted + i
    BY <1>1, <1>4
  <2>2. \A i \in 1 .. n : prepared[i] \in New
    BY <1>1, <1>4, <2>1, SMTT(30)
  <2>3. ASSUME NEW p \in New PROVE \E i \in 1 .. n : p = prepared[i]
    <3>1. p - (offset + submitted) \in 1 .. n /\ offset + submitted + (p - (offset + submitted)) = p
      BY ONLY <1>a, p \in New
    <3> QED
      BY <2>1, <3>1
  <2> QED
    BY <2>2, <2>3
<1>6. inKernel \cap New = {} /\ inKernel \cup New \subseteq Given' /\ Given' = Given \cup New
  <2>1. Given = offset + 1 .. offset + submitted /\ Given' = offset + 1 .. offset + (submitted + n)
    BY <1>2, <1>3 DEF Given
  <2>2. Given \cap New = {} /\ Given' = Given \cup New
    BY ONLY <1>a, <2>1
  <2> QED
    BY <1>1, <2>2
<1>7. /\ IsFiniteSet(inKernel) /\ IsFiniteSet(New) /\ Cardinality(New) = n
      /\ Cardinality(inKernel) \in Nat
  <2>1. IsFiniteSet(Given)
    BY <1>1, FS_Interval DEF Given
  <2>2. IsFiniteSet(New) /\ Cardinality(New) = n
    <3> DEFINE a == offset + submitted + 1
               b == offset + submitted + n
    <3>1. a \in Int /\ b \in Int /\ (IF a > b THEN 0 ELSE b - a + 1) = n
      BY <1>1, <1>4
    <3> HIDE DEF a, b
    <3>2. IsFiniteSet(a .. b) /\ Cardinality(a .. b) = n
      BY <3>1, FS_Interval
    <3> QED
      BY <3>2 DEF a, b
  <2> QED
    BY <1>1, <2>1, <2>2, FS_Subset, FS_CardinalityType
<1>8. Cardinality(inKernel') = Cardinality(inKernel) + n
  <2>1. Cardinality(inKernel \cup New) = Cardinality(inKernel) + n - Cardinality({})
    BY <1>6, <1>7, FS_Union
  <2>2. inKernel' = inKernel \cup New
    BY <1>2, <1>5
  <2>3. Cardinality({}) = 0
    BY FS_EmptySet
  <2>4. Cardinality(inKernel) + n - 0 = Cardinality(inKernel) + n
    BY <1>4, <1>7
  <2> HIDE DEF New
  <2> QED
    BY <2>1, <2>2, <2>3, <2>4
<1>9. /\ prepared' \in Seq(Nat) /\ Len(prepared') = l - n
      /\ \A i \in 1 .. l - n : prepared'[i] = prepared[n + i]
  <2>1. \A i \in 1 .. l : prepared[i] \in Nat
    BY <1>1, ElementOfSeq
  <2>2. /\ n + 1 \in Int /\ l \in Int /\ l - (n + 1) + 1 = l - n
        /\ \A i \in n + 1 .. l : prepared[i] \in Nat
        /\ \A i \in 1 .. l - n : (n + 1) + i - 1 = n + i
        /\ (IF n + 1 <= l THEN l - (n + 1) + 1 ELSE 0) = l - n
    BY <1>4, <2>1
  <2> HIDE DEF l
  <2>3. SubSeq(prepared, n + 1, l) \in Seq(Nat)
    BY <2>2, SubSeqProperties
  <2>4. Len(SubSeq(prepared, n + 1, l)) = l - n
    BY <2>2, SubSeqProperties
  <2>5. \A i \in 1 .. l - n : SubSeq(prepared, n + 1, l)[i] = prepared[n + i]
    BY <2>2, SubSeqProperties
  <2> QED
    BY <1>2, <2>3, <2>4, <2>5 DEF l
<1>10. \A i \in 1 .. l - n : prepared'[i] = offset + submitted' + i
  <2>1. \A i \in 1 .. l - n :
            n + i \in 1 .. l /\ offset + submitted + (n + i) = offset + (submitted + n) + i
    BY <1>1, <1>4
  <2> QED
    BY <1>1, <1>2, <1>9, <2>1
<1>11. \A i \in 1 .. Len(prepared') : prepared'[i] = offset' + submitted' + i
  BY <1>3, <1>9, <1>10
<1>12. ASSUME NEW p \in files', p \in Given'
       PROVE  p \in inKernel' \/ \E i \in 1 .. Len(completions') : completions'[i] = <<p, TRUE>>
  <2>1. CASE p \in New
    BY <1>2, <1>5, <2>1
  <2>2. CASE p \in Given
    BY <1>1, <1>2, <1>3, <2>2 DEF CleanInv, BatchInv
  <2> QED
    BY <1>6, <1>12, <2>1, <2>2
<1>13. /\ submitted' <= Clean!Count /\ Len(prepared') = Clean!Count - submitted'
       /\ Cardinality(inKernel') + Len(completions) + seen = submitted'
  <2>1. Cardinality(inKernel) \in Nat /\ Len(prepared') = l - n /\ submitted' = submitted + n
    BY <1>2, <1>7, <1>9
  <2>2. /\ Cardinality(inKernel) + Len(completions) + seen = submitted
        /\ submitted \in Nat /\ seen \in Nat
    BY <1>1
  <2> HIDE DEF l
  <2>3. submitted' <= Clean!Count /\ Len(prepared') = Clean!Count - submitted'
    BY ONLY <1>4, <2>1, <2>2
  <2>4. Cardinality(inKernel') + Len(completions) + seen = submitted'
    <3> DEFINE c == Cardinality(inKernel)
               m == Len(completions)
    <3>1. c \in Nat /\ m \in Nat /\ n \in Nat /\ seen \in Nat /\ c + m + seen = submitted
      BY <1>4, <2>1, <2>2
    <3>2. Cardinality(inKernel') = c + n /\ submitted' = submitted + n
      BY <1>8, <2>1
    <3> HIDE DEF c, m
    <3>3. (c + n) + m + seen = submitted + n
      BY ONLY <3>1
    <3> QED
      BY <3>2, <3>3 DEF m
  <2> QED
    BY <2>3, <2>4
<1>14. inKernel' \subseteq Given'
  BY <1>2, <1>5, <1>6
<1>15. Clean!Count' = Clean!Count /\ cleaning' = "submit"
  BY <1>1, <1>3
<1> HIDE DEF l, New
<1> QED
  BY <1>3, <1>4, <1>9, <1>11, <1>12, <1>13, <1>14, <1>15 DEF BatchInv

(* An answer takes the place of a request that the kernel had.             *)
LEMMA UnlinkAnswers ==
    ASSUME CleanAssumption, CleanInv, NEW path \in inKernel, Clean!Unlink(path)
    PROVE  BatchInv'
<1> SUFFICES ASSUME InBatch PROVE BatchInv'
  BY DEF BatchInv, InBatch, Clean!Unlink
<1>1. /\ inKernel' = inKernel \ {path}
      /\ UNCHANGED <<paths, cleaning, offset, prepared, submitted, seen, Clean!Count, Given>>
  BY DEF Clean!Unlink, Clean!Count, Given
<1>2. PICK refused \in BOOLEAN :
        /\ completions' = Append(completions, <<path, refused>>)
        /\ files' = IF refused THEN files ELSE files \ {path}
  BY DEF Clean!Unlink
<1>3. /\ completions \in Seq(Answers) /\ <<path, refused>> \in Answers
      /\ inKernel \subseteq Given /\ submitted \in Nat /\ offset \in Nat /\ seen \in Nat
      /\ Cardinality(inKernel) + Len(completions) + seen = submitted
  BY DEF CleanInv, CleanTypeOK, BatchInv, Answers
<1> DEFINE m == Len(completions)
<1>4. /\ m \in Nat /\ Len(completions') = m + 1
      /\ \A i \in 1 .. m : completions'[i] = completions[i]
      /\ completions'[m + 1] = <<path, refused>>
  BY <1>2, <1>3, AppendProperties, LenProperties
<1>5. Cardinality(inKernel) \in Nat /\ Cardinality(inKernel') = Cardinality(inKernel) - 1
  <2>1. IsFiniteSet(Given)
    BY <1>3, FS_Interval DEF Given
  <2> QED
    BY <1>1, <1>3, <2>1, FS_Subset, FS_CardinalityType, FS_RemoveElement
<1>6. Cardinality(inKernel') + Len(completions') + seen = submitted
  <2> DEFINE c == Cardinality(inKernel)
  <2>1. c \in Nat /\ m \in Nat /\ seen \in Nat /\ c + m + seen = submitted
    BY <1>3, <1>4, <1>5
  <2>2. Cardinality(inKernel') = c - 1 /\ Len(completions') = m + 1
    BY <1>4, <1>5
  <2> HIDE DEF c, m
  <2>3. (c - 1) + (m + 1) + seen = submitted
    BY ONLY <2>1
  <2> QED
    BY <2>2, <2>3
<1>7. ASSUME NEW p \in files', p \in Given
      PROVE  p \in inKernel' \/ \E i \in 1 .. Len(completions') : completions'[i] = <<p, TRUE>>
  <2>1. p \in files /\ (p = path => refused)
    BY <1>2, <1>7
  <2>2. CASE p = path
    <3>1. completions'[m + 1] = <<p, TRUE>>
      BY <1>4, <2>1, <2>2
    <3>2. m + 1 \in 1 .. Len(completions')
      BY <1>4
    <3> QED
      BY <3>1, <3>2
  <2>3. CASE p # path /\ p \in inKernel
    BY <1>1, <2>3
  <2>4. CASE p \notin inKernel
    <3>1. PICK i \in 1 .. m : completions[i] = <<p, TRUE>>
      BY <1>7, <2>1, <2>4 DEF CleanInv, BatchInv
    <3>2. completions'[i] = <<p, TRUE>>
      BY <1>4, <3>1
    <3>3. m \in Nat /\ Len(completions') = m + 1
      BY <1>4
    <3>4. i \in 1 .. Len(completions')
      BY ONLY <3>3, i \in 1 .. m
    <3> QED
      BY <3>2, <3>4
  <2> QED
    BY <2>2, <2>3, <2>4
<1> QED
  BY <1>1, <1>6, <1>7 DEF CleanInv, BatchInv, InBatch

(* What is looked at is repeated if it failed.                             *)
LEMMA ReapRepeats ==
    ASSUME CleanAssumption, CleanInv, Clean!Reap
    PROVE  BatchInv'
<1>1. /\ UNCHANGED <<paths, cleaning, offset, prepared, submitted, inKernel, Clean!Count, Given>>
      /\ seen' = seen + 1 /\ completions' = Tail(completions) /\ completions # <<>>
      /\ files' = IF Head(completions)[2] THEN files \ {Head(completions)[1]} ELSE files
      /\ InBatch
  BY DEF Clean!Reap, Clean!Count, Given, InBatch
<1>2. /\ completions \in Seq(Answers)
      /\ inKernel \subseteq Given /\ submitted \in Nat /\ offset \in Nat /\ seen \in Nat
      /\ Cardinality(inKernel) + Len(completions) + seen = submitted
  BY <1>1 DEF CleanInv, CleanTypeOK, BatchInv
<1> DEFINE m == Len(completions)
<1>3. /\ m \in Nat /\ m > 0 /\ Head(completions) = completions[1] /\ Len(completions') = m - 1
      /\ \A i \in 1 .. m - 1 : completions'[i] = completions[i + 1]
  BY <1>1, <1>2, HeadTailProperties, LenProperties, EmptySeq
<1>4. Cardinality(inKernel) \in Nat
  <2>1. IsFiniteSet(Given)
    BY <1>2, FS_Interval DEF Given
  <2> QED
    BY <1>2, <2>1, FS_Subset, FS_CardinalityType
<1>5. Cardinality(inKernel) + Len(completions') + seen' = submitted
  <2> DEFINE c == Cardinality(inKernel)
  <2>1. c \in Nat /\ m \in Nat /\ seen \in Nat /\ c + m + seen = submitted
    BY <1>2, <1>3, <1>4
  <2>2. Len(completions') = m - 1 /\ seen' = seen + 1
    BY <1>1, <1>3
  <2> HIDE DEF c, m
  <2>3. c + (m - 1) + (seen + 1) = submitted
    BY ONLY <2>1
  <2> QED
    BY <2>2, <2>3 DEF c
<1>6. ASSUME NEW p \in files', p \in Given
      PROVE  p \in inKernel \/ \E i \in 1 .. Len(completions') : completions'[i] = <<p, TRUE>>
  <2>1. p \in files
    BY <1>1
  <2>2. ASSUME NEW i \in 1 .. m, completions[i] = <<p, TRUE>>
        PROVE  \E j \in 1 .. m - 1 : completions'[j] = <<p, TRUE>>
    <3>1. i # 1
      <4> SUFFICES ASSUME i = 1 PROVE FALSE
        OBVIOUS
      <4> DEFINE answer == Head(completions)
      <4>1. answer = <<p, TRUE>>
        BY <1>3, <2>2
      <4>2. files' = IF answer[2] THEN files \ {answer[1]} ELSE files
        BY <1>1
      <4> HIDE DEF answer
      <4>3. answer[1] = p /\ answer[2]
        BY ONLY <4>1
      <4> QED
        BY <4>2, <4>3
    <3>2. m \in Nat
      BY <1>3
    <3> DEFINE j == i - 1
    <3>3. j \in 1 .. m - 1 /\ j + 1 = i
      BY <3>1, <3>2
    <3> HIDE DEF m, j
    <3>4. completions'[j] = <<p, TRUE>>
      BY <1>3, <2>2, <3>3
    <3> QED
      BY <3>3, <3>4
  <2> QED
    BY <1>1, <1>3, <1>6, <2>1, <2>2 DEF CleanInv, BatchInv
<1> QED
  BY <1>1, <1>5, <1>6 DEF CleanInv, BatchInv, InBatch

(* Every action keeps the accounts of the batch.                           *)
LEMMA BatchStep ==
    ASSUME CleanAssumption, CleanInv, [Clean!CleanNext]_(Clean!cleanVars)
    PROVE  BatchInv'
<1>1. CASE UNCHANGED Clean!cleanVars
  BY <1>1 DEF CleanInv, BatchInv, InBatch, Given, Clean!Count, Clean!cleanVars, Clean!ring
<1>2. CASE cleaning' \notin {"submit", "wait", "reap"}
  BY <1>2 DEF BatchInv, InBatch
<1>3. CASE Clean!Prepare
  <2>1. /\ offset < paths /\ offset \in Nat /\ paths \in Nat /\ Depth \in Nat \ {0}
        /\ prepared' = [i \in 1 .. Clean!Count |-> offset + i] /\ submitted' = 0 /\ seen' = 0
        /\ cleaning' = "submit" /\ inKernel' = {} /\ completions' = <<>>
        /\ UNCHANGED <<paths, files, offset, Clean!Count>>
    BY <1>3 DEF Clean!Prepare, Clean!Count, CleanInv, CleanTypeOK, BehindInv, CleanAssumption
  <2>2. Clean!Count \in Nat
    BY <2>1 DEF Clean!Count, Clean!Smaller
  <2>3. /\ prepared' \in Seq(Nat) /\ Len(prepared') = Clean!Count
        /\ \A i \in 1 .. Clean!Count : prepared'[i] = offset + 0 + i
    <3>1. prepared' \in [1 .. Clean!Count -> Nat] /\ \A i \in 1 .. Clean!Count :
              prepared'[i] = offset + 0 + i
      BY <2>1, <2>2
    <3>2. prepared' \in Seq(Nat)
      BY <2>2, <3>1
    <3> QED
      BY <2>2, <3>1, <3>2, LenProperties
  <2>4. Given' = {} /\ Cardinality({}) = 0 /\ Len(<<>>) = 0
    BY <2>1, FS_EmptySet, EmptySeq DEF Given
  <2> QED
    BY <2>1, <2>2, <2>3, <2>4 DEF BatchInv
<1>4. CASE Clean!Submit
  BY <1>4, SubmitGives
<1>5. CASE Clean!Submitted \/ Clean!SubmitFails \/ Clean!Wait
  <2>1. /\ cleaning \in {"submit", "wait"} /\ (cleaning' = "reap" => submitted = Clean!Count)
        /\ UNCHANGED <<paths, files, offset, Clean!ring, Clean!Count, Given>>
    BY <1>5 DEF Clean!Submitted, Clean!SubmitFails, Clean!Wait, Clean!Count, Given, Clean!ring
  <2> QED
    BY <2>1 DEF CleanInv, BatchInv, InBatch, Clean!ring
<1>6. ASSUME NEW path \in inKernel, Clean!Unlink(path) PROVE BatchInv'
  BY <1>6, UnlinkAnswers
<1>7. CASE Clean!Reap
  BY <1>7, ReapRepeats
<1> QED
  BY <1>1, <1>2, <1>3, <1>4, <1>5, <1>6, <1>7
     DEF Clean!CleanNext, Clean!QueueInit, Clean!QueueInitFails, Clean!WaitFails, Clean!NextBatch,
         Clean!FallBack, Clean!QueueExit

(* No file is left when clean returns, whatever part of the requests the   *)
(* kernel takes, fails or never answers, in whatever order.                *)
LEMMA CleanBatches ==
    ASSUME CleanAssumption
    PROVE  Clean!CleanSpec => []Clean!AllRemoved
<1>1. Clean!CleanInit => CleanInv
  <2> SUFFICES ASSUME Clean!CleanInit PROVE CleanInv
    OBVIOUS
  <2>1. /\ paths \in Nat /\ files \subseteq 1 .. paths /\ cleaning = "init" /\ offset = 0
        /\ submitted = 0 /\ inKernel = {} /\ completions = <<>> /\ seen = 0
    BY DEF Clean!CleanInit, CleanAssumption
  <2>2. completions \in Seq(Answers)
    BY <2>1, EmptySeq
  <2> QED
    BY <2>1, <2>2 DEF CleanInv, CleanTypeOK, BehindInv, BatchInv, InBatch
<1>2. CleanInv /\ [Clean!CleanNext]_(Clean!cleanVars) => CleanInv'
  BY CleanTypeStep, BehindStep, BatchStep DEF CleanInv
<1>3. CleanInv => Clean!AllRemoved
  BY DEF CleanInv, BehindInv, Clean!AllRemoved
<1> QED
  BY <1>1, <1>2, <1>3, PTL DEF Clean!CleanSpec

-----------------------------------------------------------------------------
(***************************************************************************)
(* process_exec.                                                           *)
(***************************************************************************)
ExecAssumption == Outputs \subseteq Nat

ExecTypeOK ==
    /\ pc \in [Workers -> {"call", "fork", "spawn", "close", "drain", "closeRead", "wait", "returned"}]
    /\ capture \in [Workers -> BOOLEAN]
    /\ readEnd \in [Workers -> BOOLEAN] /\ writeEnd \in [Workers -> BOOLEAN]
    /\ child \in [Workers -> {"none", "forked", "running", "zombie", "reaped"}]
    /\ holds \in [Workers -> SUBSET Workers]
    /\ orphan \in [Workers -> BOOLEAN]
    /\ output \in [Workers -> [total : Nat, written : Nat]]
    /\ pipe \in [Workers -> Seq(Nat)]
    /\ captured \in [Workers -> Seq(Nat)]
    /\ failed \in [Workers -> BOOLEAN]

(* How far the call is, what is open and what has become of the child.     *)
PlaceInv(w) ==
    /\ pc[w] = "call" => ~readEnd[w] /\ ~writeEnd[w]
    /\ pc[w] \in {"call", "fork"} => child[w] = "none"
    /\ pc[w] = "spawn" => child[w] = "forked"
    /\ pc[w] \in {"close", "drain", "closeRead", "wait"} => child[w] \in {"running", "zombie"}
    /\ pc[w] = "returned" => child[w] \in {"none", "reaped"}
    /\ pc[w] \in {"fork", "spawn", "close", "drain", "closeRead"} => (readEnd[w] <=> capture[w])
    /\ pc[w] \in {"drain", "closeRead"} => capture[w]
    /\ pc[w] \in {"drain", "closeRead", "wait", "returned"} => ~writeEnd[w]
    /\ pc[w] \in {"wait", "returned"} => ~readEnd[w]

(* The captured output and what is in the pipe are together what the       *)
(* command has written.                                                    *)
Numbered(w) ==
    /\ Len(captured[w]) + Len(pipe[w]) = output[w].written
    /\ \A i \in 1 .. Len(captured[w]) : captured[w][i] = i
    /\ \A i \in 1 .. Len(pipe[w]) : pipe[w][i] = Len(captured[w]) + i

(* A child that ran to its end has written all; the output has not ended   *)
(* before.                                                                 *)
OutputInv(w) ==
    /\ child[w] \in {"none", "forked"} =>
         output[w].written = 0 /\ pipe[w] = <<>> /\ captured[w] = <<>>
    /\ child[w] = "running" => (w \in holds[w] <=> capture[w])
    /\ output[w].written <= output[w].total
    /\ capture[w] => Numbered(w)
    /\ capture[w] /\ ~failed[w] /\ child[w] \in {"zombie", "reaped"} =>
         output[w].written = output[w].total
    /\ capture[w] /\ ~failed[w] /\ pc[w] \in {"closeRead", "wait", "returned"} =>
         pipe[w] = <<>> /\ child[w] \in {"zombie", "reaped"}

ExecInv == ExecTypeOK /\ \A w \in Workers : PlaceInv(w) /\ OutputInv(w)

(* A sequence is cut in two.                                               *)
LEMMA SplitNumbers ==
    ASSUME NEW s \in Seq(Nat), NEW n \in 1 .. Len(s)
    PROVE  /\ SubSeq(s, 1, n) \in Seq(Nat) /\ Len(SubSeq(s, 1, n)) = n
           /\ \A i \in 1 .. n : SubSeq(s, 1, n)[i] = s[i]
           /\ SubSeq(s, n + 1, Len(s)) \in Seq(Nat)
           /\ Len(SubSeq(s, n + 1, Len(s))) = Len(s) - n
           /\ \A i \in 1 .. Len(s) - n : SubSeq(s, n + 1, Len(s))[i] = s[n + i]
<1> DEFINE l == Len(s)
<1>1. l \in Nat /\ (\A i \in 1 .. l : s[i] \in Nat)
  BY LenProperties, ElementOfSeq
<1>2. /\ n \in Int /\ n + 1 \in Int /\ l \in Int
      /\ (IF 1 <= n THEN n - 1 + 1 ELSE 0) = n /\ n - 1 + 1 = n
      /\ (IF n + 1 <= l THEN l - (n + 1) + 1 ELSE 0) = l - n /\ l - (n + 1) + 1 = l - n
      /\ (\A i \in 1 .. n : s[i] \in Nat /\ 1 + i - 1 = i)
      /\ (\A i \in n + 1 .. l : s[i] \in Nat)
      /\ (\A i \in 1 .. l - n : (n + 1) + i - 1 = n + i)
  BY <1>1
<1> HIDE DEF l
<1>3. SubSeq(s, 1, n) \in Seq(Nat) /\ SubSeq(s, n + 1, l) \in Seq(Nat)
  BY <1>2, SubSeqProperties
<1>4. Len(SubSeq(s, 1, n)) = n
  BY <1>2, SubSeqProperties
<1>5. \A i \in 1 .. n : SubSeq(s, 1, n)[i] = s[i]
  BY <1>2, SubSeqProperties
<1>6. Len(SubSeq(s, n + 1, l)) = l - n
  BY <1>2, SubSeqProperties
<1>7. \A i \in 1 .. l - n : SubSeq(s, n + 1, l)[i] = s[n + i]
  BY <1>2, SubSeqProperties
<1> QED
  BY <1>3, <1>4, <1>5, <1>6, <1>7 DEF l

(* Steps keep the types.                                                   *)
LEMMA ExecTypeStep ==
    ASSUME ExecAssumption, ExecTypeOK, [Exec!ProcNext]_(Exec!procVars)
    PROVE  ExecTypeOK'
<1> USE DEF ExecTypeOK, Exec!Goto, Exec!Set
<1>1. CASE UNCHANGED Exec!procVars
  BY <1>1 DEF Exec!procVars
<1>2. ASSUME NEW w \in Workers, Exec!Call(w) PROVE ExecTypeOK'
  <2>1. PICK c \in BOOLEAN, n \in Outputs :
          /\ capture' = [capture EXCEPT ![w] = c]
          /\ readEnd' = [readEnd EXCEPT ![w] = c]
          /\ writeEnd' = [writeEnd EXCEPT ![w] = c]
          /\ output' = [output EXCEPT ![w].total = n]
    BY <1>2 DEF Exec!Call
  <2>2. n \in Nat
    BY DEF ExecAssumption
  <2>3. output' \in [Workers -> [total : Nat, written : Nat]]
    BY <2>1, <2>2
  <2>4. /\ capture' \in [Workers -> BOOLEAN] /\ readEnd' \in [Workers -> BOOLEAN]
        /\ writeEnd' \in [Workers -> BOOLEAN]
    BY <2>1
  <2> QED
    BY <1>2, <2>3, <2>4 DEF Exec!Call
<1>3. ASSUME NEW w \in Workers, Exec!CallFails(w) \/ Exec!SpawnFails(w) PROVE ExecTypeOK'
  <2>1. CASE Exec!CallFails(w)
    BY <2>1 DEF Exec!CallFails, Exec!ReturnError
  <2>2. CASE Exec!SpawnFails(w)
    BY <2>2 DEF Exec!SpawnFails, Exec!ReturnError
  <2> QED
    BY <1>3, <2>1, <2>2
<1>4. ASSUME NEW w \in Workers, Exec!Fork(w) \/ Exec!Spawn(w) PROVE ExecTypeOK'
  <2>1. {v \in Workers : writeEnd[v]} \in SUBSET Workers /\ {w} \in SUBSET Workers
    OBVIOUS
  <2>2. CASE Exec!Fork(w)
    BY <2>1, <2>2 DEF Exec!Fork
  <2>3. CASE Exec!Spawn(w)
    <3>1. (IF capture[w] THEN {w} ELSE {}) \in SUBSET Workers
      BY <2>1
    <3> QED
      BY <2>3, <3>1 DEF Exec!Spawn
  <2> QED
    BY <1>4, <2>2, <2>3
<1>5. ASSUME NEW w \in Workers, Exec!CloseWriteEnd(w) \/ Exec!EndOfOutput(w) PROVE ExecTypeOK'
  <2>1. CASE Exec!CloseWriteEnd(w)
    BY <2>1 DEF Exec!CloseWriteEnd
  <2>2. CASE Exec!EndOfOutput(w)
    BY <2>2 DEF Exec!EndOfOutput
  <2> QED
    BY <1>5, <2>1, <2>2
<1>6. ASSUME NEW w \in Workers, Exec!ReadFails(w) \/ Exec!CloseReadEnd(w) \/ Exec!WaitForProcess(w)
      PROVE  ExecTypeOK'
  BY <1>6, ZenonT(30) DEF Exec!ReadFails, Exec!CloseReadEnd, Exec!WaitForProcess
<1>7. ASSUME NEW w \in Workers, Exec!Read(w) PROVE ExecTypeOK'
  <2>1. PICK n \in 1 .. Len(pipe[w]) :
          /\ captured' = [captured EXCEPT ![w] = @ \o SubSeq(pipe[w], 1, n)]
          /\ pipe' = [pipe EXCEPT ![w] = SubSeq(@, n + 1, Len(@))]
    BY <1>7 DEF Exec!Read
  <2>2. SubSeq(pipe[w], 1, n) \in Seq(Nat) /\ SubSeq(pipe[w], n + 1, Len(pipe[w])) \in Seq(Nat)
    BY <2>1, SplitNumbers
  <2>3. captured[w] \o SubSeq(pipe[w], 1, n) \in Seq(Nat)
    BY <2>2, ConcatProperties
  <2> QED
    BY <1>7, <2>1, <2>2, <2>3 DEF Exec!Read
<1>8. ASSUME NEW w \in Workers, Exec!Exit(w) \/ Exec!LeaveOrphan(w) \/ Exec!OrphanEnds(w)
      PROVE  ExecTypeOK'
  BY <1>8, ZenonT(30) DEF Exec!Exit, Exec!LeaveOrphan, Exec!OrphanEnds
<1>9. ASSUME NEW w \in Workers, Exec!Write(w) PROVE ExecTypeOK'
  <2>1. CASE w \in holds[w] /\ ~readEnd[w]
    BY <1>9, <2>1, ZenonT(30) DEF Exec!Write
  <2>2. CASE ~(w \in holds[w] /\ ~readEnd[w])
    <3>1. output' = [output EXCEPT ![w].written = @ + 1]
      BY <1>9, <2>2 DEF Exec!Write
    <3>2. Append(pipe[w], output'[w].written) \in Seq(Nat)
      BY <3>1, AppendProperties
    <3>3. output' \in [Workers -> [total : Nat, written : Nat]]
      <4> DEFINE n == output[w].written + 1
      <4>1. output' = [output EXCEPT ![w].written = n] /\ n \in Nat
        BY <3>1
      <4> HIDE DEF n
      <4> QED
        BY <4>1, ZenonT(30)
    <3>4. pipe' \in [Workers -> Seq(Nat)]
      <4> DEFINE more == Append(pipe[w], output'[w].written)
      <4>1. pipe' = [pipe EXCEPT ![w] = more] \/ pipe' = pipe
        BY <1>9, <2>2 DEF Exec!Write
      <4> HIDE DEF more
      <4> QED
        BY <3>2, <4>1 DEF more
    <3>5. UNCHANGED <<pc, capture, readEnd, writeEnd, child, holds, orphan, captured, failed>>
      BY <1>9, <2>2 DEF Exec!Write
    <3> QED
      BY <3>3, <3>4, <3>5
  <2> QED
    BY <2>1, <2>2
<1> QED
  BY <1>1, <1>2, <1>3, <1>4, <1>5, <1>6, <1>7, <1>8, <1>9
     DEF Exec!ProcNext, Exec!WorkerStep, Exec!CommandStep, Exec!Mishap

ExecStep(w) ==
    Exec!WorkerStep(w) \/ Exec!CommandStep(w) \/ Exec!OrphanEnds(w) \/ Exec!Mishap(w)

(* A step of one call leaves the others alone.                             *)
Same(u) ==
    /\ pc'[u] = pc[u] /\ capture'[u] = capture[u]
    /\ readEnd'[u] = readEnd[u] /\ writeEnd'[u] = writeEnd[u]
    /\ child'[u] = child[u] /\ holds'[u] = holds[u]
    /\ output'[u] = output[u] /\ pipe'[u] = pipe[u]
    /\ captured'[u] = captured[u] /\ failed'[u] = failed[u]

(* A step of one worker leaves the calls of the others as they are.        *)
LEMMA OthersKept ==
    ASSUME ExecTypeOK, NEW w \in Workers, NEW u \in Workers, u # w, ExecStep(w)
    PROVE  Same(u)
<1> USE DEF ExecTypeOK, Exec!Goto, Exec!Set, Same
<1>1. CASE Exec!Call(w)
  BY <1>1 DEF Exec!Call
<1>2. CASE Exec!CallFails(w) \/ Exec!SpawnFails(w)
  BY <1>2 DEF Exec!CallFails, Exec!SpawnFails, Exec!ReturnError
<1>3. CASE Exec!Fork(w) \/ Exec!Spawn(w)
  BY <1>3 DEF Exec!Fork, Exec!Spawn
<1>4. CASE Exec!CloseWriteEnd(w) \/ Exec!EndOfOutput(w)
  BY <1>4 DEF Exec!CloseWriteEnd, Exec!EndOfOutput
<1>5. CASE Exec!ReadFails(w) \/ Exec!CloseReadEnd(w) \/ Exec!WaitForProcess(w)
  BY <1>5 DEF Exec!ReadFails, Exec!CloseReadEnd, Exec!WaitForProcess
<1>6. CASE Exec!Read(w)
  BY <1>6 DEF Exec!Read
<1>7. CASE Exec!Exit(w) \/ Exec!LeaveOrphan(w) \/ Exec!OrphanEnds(w)
  BY <1>7 DEF Exec!Exit, Exec!LeaveOrphan, Exec!OrphanEnds
<1>8. CASE Exec!Write(w)
  BY <1>8 DEF Exec!Write
<1> QED
  BY <1>1, <1>2, <1>3, <1>4, <1>5, <1>6, <1>7, <1>8
     DEF ExecStep, Exec!WorkerStep, Exec!CommandStep, Exec!Mishap

(* Every action of a call keeps its place consistent.                      *)
LEMMA PlaceStep ==
    ASSUME ExecTypeOK, NEW w \in Workers, PlaceInv(w), ExecStep(w)
    PROVE  PlaceInv(w)'
<1> USE DEF ExecTypeOK, Exec!Goto, Exec!Set, PlaceInv
<1>1. CASE Exec!Call(w)
  BY <1>1 DEF Exec!Call
<1>2. CASE Exec!CallFails(w) \/ Exec!SpawnFails(w)
  BY <1>2 DEF Exec!CallFails, Exec!SpawnFails, Exec!ReturnError
<1>3. CASE Exec!Fork(w) \/ Exec!Spawn(w)
  BY <1>3 DEF Exec!Fork, Exec!Spawn
<1>4. CASE Exec!CloseWriteEnd(w)
  BY <1>4 DEF Exec!CloseWriteEnd
<1>5. CASE Exec!EndOfOutput(w)
  BY <1>5 DEF Exec!EndOfOutput
<1>6. CASE Exec!ReadFails(w) \/ Exec!CloseReadEnd(w) \/ Exec!WaitForProcess(w)
  BY <1>6 DEF Exec!ReadFails, Exec!CloseReadEnd, Exec!WaitForProcess
<1>7. CASE Exec!Read(w)
  BY <1>7 DEF Exec!Read
<1>8. CASE Exec!Exit(w) \/ Exec!LeaveOrphan(w) \/ Exec!OrphanEnds(w)
  BY <1>8 DEF Exec!Exit, Exec!LeaveOrphan, Exec!OrphanEnds
<1>9. CASE Exec!Write(w)
  BY <1>9 DEF Exec!Write
<1> QED
  BY <1>1, <1>2, <1>3, <1>4, <1>5, <1>6, <1>7, <1>8, <1>9
     DEF ExecStep, Exec!WorkerStep, Exec!CommandStep, Exec!Mishap

(* What a read takes out of the pipe it adds to what is captured.          *)
LEMMA ReadMoves ==
    ASSUME ExecTypeOK, NEW w \in Workers, OutputInv(w), Exec!Read(w), capture[w]
    PROVE  Numbered(w)' /\ Len(pipe[w]) > 0
<1>1. PICK n \in 1 .. Len(pipe[w]) :
        /\ captured' = [captured EXCEPT ![w] = @ \o SubSeq(pipe[w], 1, n)]
        /\ pipe' = [pipe EXCEPT ![w] = SubSeq(@, n + 1, Len(@))]
  BY DEF Exec!Read
<1> DEFINE taken == SubSeq(pipe[w], 1, n)
           c == Len(captured[w])
           l == Len(pipe[w])
<1>2. /\ captured[w] \in Seq(Nat) /\ pipe[w] \in Seq(Nat)
      /\ c \in Nat /\ l \in Nat /\ n \in Nat /\ n <= l /\ n > 0
  <2>1. captured[w] \in Seq(Nat) /\ pipe[w] \in Seq(Nat)
    BY DEF ExecTypeOK
  <2>2. c \in Nat /\ l \in Nat
    BY <2>1, LenProperties
  <2> QED
    BY <1>1, <2>1, <2>2
<1>3. /\ taken \in Seq(Nat) /\ Len(taken) = n /\ \A i \in 1 .. n : taken[i] = pipe[w][i]
      /\ Len(SubSeq(pipe[w], n + 1, l)) = l - n
      /\ \A i \in 1 .. l - n : SubSeq(pipe[w], n + 1, l)[i] = pipe[w][n + i]
  BY <1>2, SplitNumbers
<1>4. captured'[w] = captured[w] \o taken /\ pipe'[w] = SubSeq(pipe[w], n + 1, l)
  BY <1>1 DEF ExecTypeOK
<1>5. output'[w] = output[w]
  BY DEF Exec!Read
<1>6. /\ c + l = output[w].written
      /\ \A i \in 1 .. c : captured[w][i] = i
      /\ \A i \in 1 .. l : pipe[w][i] = c + i
  BY DEF OutputInv, Numbered
<1>7. /\ Len(captured[w] \o taken) = c + n
      /\ \A i \in 1 .. c + n :
           (captured[w] \o taken)[i] = IF i <= c THEN captured[w][i] ELSE taken[i - c]
  BY <1>2, <1>3, ConcatProperties
<1> HIDE DEF taken, c, l
<1>a. c \in Nat /\ l \in Nat /\ n \in Nat /\ n <= l
  BY <1>2
<1>8. ASSUME NEW i \in 1 .. c + n PROVE captured'[w][i] = i
  <2>1. CASE i <= c
    BY <1>2, <1>4, <1>6, <1>7, <2>1, SMTT(30)
  <2>2. CASE i > c
    <3>1. i - c \in 1 .. n /\ i - c \in 1 .. l /\ c + (i - c) = i /\ ~(i <= c)
      BY <1>a, <2>2
    <3>2. (captured[w] \o taken)[i] = taken[i - c]
      BY <1>7, <3>1
    <3>3. taken[i - c] = pipe[w][i - c] /\ pipe[w][i - c] = c + (i - c)
      BY <1>3, <1>6, <3>1
    <3> QED
      BY <1>4, <3>1, <3>2, <3>3
  <2> QED
    BY <1>2, <2>1, <2>2
<1>9. ASSUME NEW i \in 1 .. l - n PROVE pipe'[w][i] = (c + n) + i
  <2>1. n + i \in 1 .. l /\ c + (n + i) = (c + n) + i
    BY <1>a
  <2> QED
    BY <1>3, <1>4, <1>6, <2>1
<1>10. Len(captured'[w]) = c + n /\ Len(pipe'[w]) = l - n
  BY <1>3, <1>4, <1>7
<1>11. (c + n) + (l - n) = output'[w].written
  BY <1>2, <1>5, <1>6
<1>12. /\ Len(captured'[w]) + Len(pipe'[w]) = output'[w].written
       /\ \A i \in 1 .. Len(captured'[w]) : captured'[w][i] = i
       /\ \A i \in 1 .. Len(pipe'[w]) : pipe'[w][i] = Len(captured'[w]) + i
  BY <1>8, <1>9, <1>10, <1>11
<1>13. Len(pipe[w]) > 0
  BY <1>2 DEF l
<1> QED
  BY <1>12, <1>13 DEF Numbered

(* What a command writes goes behind what is in the pipe.                  *)
LEMMA WriteAppends ==
    ASSUME ExecTypeOK, NEW w \in Workers, OutputInv(w), capture[w],
           captured'[w] = captured[w],
           output'[w].written = output[w].written + 1,
           pipe'[w] = Append(pipe[w], output'[w].written)
    PROVE  Numbered(w)'
<1> DEFINE c == Len(captured[w])
           l == Len(pipe[w])
<1>1. captured[w] \in Seq(Nat) /\ pipe[w] \in Seq(Nat) /\ output'[w].written \in Nat
  BY DEF ExecTypeOK
<1>2. /\ c \in Nat /\ l \in Nat /\ Len(pipe'[w]) = l + 1
      /\ \A i \in 1 .. l : pipe'[w][i] = pipe[w][i]
      /\ pipe'[w][l + 1] = output'[w].written
  BY <1>1, LenProperties, AppendProperties
<1>3. /\ c + l = output[w].written
      /\ \A i \in 1 .. c : captured[w][i] = i
      /\ \A i \in 1 .. l : pipe[w][i] = c + i
  BY DEF OutputInv, Numbered
<1>4. Len(captured'[w]) = c
  OBVIOUS
<1> HIDE DEF c, l
<1>5. c + (l + 1) = output'[w].written
  BY <1>2, <1>3
<1>6. ASSUME NEW i \in 1 .. l + 1 PROVE pipe'[w][i] = c + i
  <2>1. CASE i = l + 1
    BY <1>2, <1>5, <2>1
  <2>2. CASE i \in 1 .. l
    BY <1>2, <1>3, <2>2
  <2> QED
    BY <1>2, <2>1, <2>2
<1> QED
  BY <1>2, <1>3, <1>4, <1>5, <1>6 DEF Numbered

(* Every action of a call keeps its output in order.                       *)
LEMMA OutputStep ==
    ASSUME ExecAssumption, ExecTypeOK, NEW w \in Workers, PlaceInv(w), OutputInv(w),
           ExecStep(w), PlaceInv(w)'
    PROVE  OutputInv(w)'
<1> USE DEF ExecTypeOK, Exec!Goto, Exec!Set
<1>1. CASE Exec!Call(w)
  <2>1. child[w] = "none" /\ output[w].written = 0 /\ pipe[w] = <<>> /\ captured[w] = <<>>
    BY <1>1 DEF Exec!Call, PlaceInv, OutputInv
  <2>2. PICK n \in Outputs : output' = [output EXCEPT ![w].total = n]
    BY <1>1 DEF Exec!Call
  <2>3. n \in Nat /\ output'[w].written = 0 /\ output'[w].total = n
    BY <2>1, <2>2 DEF ExecAssumption
  <2>4. child'[w] = "none" /\ pipe'[w] = <<>> /\ captured'[w] = <<>> /\ pc'[w] = "fork"
    BY <1>1, <2>1 DEF Exec!Call
  <2>5. Numbered(w)'
    BY <2>3, <2>4, EmptySeq DEF Numbered
  <2> QED
    BY <2>3, <2>4, <2>5 DEF OutputInv
<1>2. CASE Exec!CallFails(w) \/ Exec!SpawnFails(w)
  <2>1. /\ failed'[w] /\ child'[w] \in {"none", "forked"} /\ child[w] \in {"none", "forked"}
        /\ output'[w] = output[w] /\ pipe'[w] = pipe[w] /\ captured'[w] = captured[w]
        /\ capture'[w] = capture[w]
    BY <1>2 DEF Exec!CallFails, Exec!SpawnFails, Exec!ReturnError, PlaceInv
  <2> QED
    BY <2>1 DEF OutputInv, Numbered
<1>3. CASE Exec!Fork(w)
  <2>1. /\ child[w] = "none" /\ child'[w] = "forked" /\ pc'[w] = "spawn"
        /\ output'[w] = output[w] /\ pipe'[w] = pipe[w] /\ captured'[w] = captured[w]
        /\ capture'[w] = capture[w] /\ failed'[w] = failed[w]
    BY <1>3 DEF Exec!Fork, PlaceInv
  <2> QED
    BY <2>1 DEF OutputInv, Numbered
<1>4. CASE Exec!Spawn(w)
  <2>1. /\ child[w] = "forked" /\ child'[w] = "running" /\ pc'[w] = "close"
        /\ w \in holds'[w] <=> capture[w]
        /\ output'[w] = output[w] /\ pipe'[w] = pipe[w] /\ captured'[w] = captured[w]
        /\ capture'[w] = capture[w] /\ failed'[w] = failed[w]
    BY <1>4 DEF Exec!Spawn, PlaceInv
  <2> QED
    BY <2>1 DEF OutputInv, Numbered
<1>5. CASE Exec!CloseWriteEnd(w)
  <2>1. /\ capture[w] => pc'[w] = "drain"
        /\ child'[w] = child[w] /\ holds'[w] = holds[w]
        /\ output'[w] = output[w] /\ pipe'[w] = pipe[w] /\ captured'[w] = captured[w]
        /\ capture'[w] = capture[w] /\ failed'[w] = failed[w]
    BY <1>5 DEF Exec!CloseWriteEnd
  <2> QED
    BY <2>1 DEF OutputInv, Numbered
<1>6. CASE Exec!EndOfOutput(w)
  <2>1. /\ pc[w] = "drain" /\ pipe[w] = <<>> /\ w \notin holds[w]
        /\ child'[w] = child[w] /\ holds'[w] = holds[w]
        /\ output'[w] = output[w] /\ pipe'[w] = pipe[w] /\ captured'[w] = captured[w]
        /\ capture'[w] = capture[w] /\ failed'[w] = failed[w]
    BY <1>6 DEF Exec!EndOfOutput, Exec!Writable
  <2>2. child[w] = "zombie"
    BY <2>1 DEF PlaceInv, OutputInv
  <2>3. Numbered(w)' <=> Numbered(w)
    BY <2>1 DEF Numbered
  <2> QED
    BY <2>1, <2>2, <2>3 DEF OutputInv
<1>7. CASE Exec!ReadFails(w)
  <2>1. /\ failed'[w] /\ child'[w] = child[w] /\ holds'[w] = holds[w]
        /\ output'[w] = output[w] /\ pipe'[w] = pipe[w] /\ captured'[w] = captured[w]
        /\ capture'[w] = capture[w]
    BY <1>7 DEF Exec!ReadFails
  <2> QED
    BY <2>1 DEF OutputInv, Numbered
<1>8. CASE Exec!CloseReadEnd(w) \/ Exec!LeaveOrphan(w) \/ Exec!OrphanEnds(w)
  <2>1. /\ pc'[w] \in {"closeRead", "wait", "returned"} => pc[w] \in {"closeRead", "wait", "returned"}
        /\ child'[w] = child[w] /\ holds'[w] = holds[w]
        /\ output'[w] = output[w] /\ pipe'[w] = pipe[w] /\ captured'[w] = captured[w]
        /\ capture'[w] = capture[w] /\ failed'[w] = failed[w]
    <3>1. CASE Exec!CloseReadEnd(w)
      BY <3>1 DEF Exec!CloseReadEnd
    <3>2. CASE Exec!LeaveOrphan(w) \/ Exec!OrphanEnds(w)
      BY <3>2 DEF Exec!LeaveOrphan, Exec!OrphanEnds
    <3> QED
      BY <1>8, <3>1, <3>2
  <2>2. Numbered(w) => Numbered(w)'
    BY <2>1 DEF Numbered
  <2>3. pc'[w] \in {"closeRead", "wait", "returned"} => pc[w] \in {"closeRead", "wait", "returned"}
    BY <2>1
  <2> QED
    BY <2>1, <2>2, <2>3 DEF OutputInv
<1>9. CASE Exec!WaitForProcess(w)
  <2>1. /\ pc[w] = "wait" /\ child[w] = "zombie" /\ child'[w] = "reaped"
        /\ output'[w] = output[w] /\ pipe'[w] = pipe[w] /\ captured'[w] = captured[w]
        /\ capture'[w] = capture[w] /\ failed'[w] = failed[w]
    BY <1>9 DEF Exec!WaitForProcess
  <2> QED
    BY <2>1 DEF OutputInv, Numbered
<1>10. CASE Exec!Read(w)
  <2>1. /\ pc[w] = "drain" /\ pc'[w] = "drain" /\ child'[w] = child[w] /\ holds'[w] = holds[w]
        /\ output'[w] = output[w] /\ capture'[w] = capture[w] /\ failed'[w] = failed[w]
    BY <1>10 DEF Exec!Read
  <2>2. capture[w] /\ child[w] \in {"running", "zombie"}
    BY <2>1 DEF PlaceInv
  <2>3. Numbered(w)'
    BY <1>10, <2>2, ReadMoves
  <2> QED
    BY <2>1, <2>2, <2>3 DEF OutputInv
<1>11. CASE Exec!Exit(w)
  <2>1. /\ child[w] = "running" /\ child'[w] = "zombie" /\ output[w].written = output[w].total
        /\ pc'[w] = pc[w]
        /\ output'[w] = output[w] /\ pipe'[w] = pipe[w] /\ captured'[w] = captured[w]
        /\ capture'[w] = capture[w] /\ failed'[w] = failed[w]
    BY <1>11 DEF Exec!Exit
  <2> QED
    BY <2>1 DEF OutputInv, Numbered
<1>12. CASE Exec!Write(w)
  <2>1. /\ child[w] = "running" /\ output[w].written < output[w].total
        /\ pc'[w] = pc[w] /\ captured'[w] = captured[w]
        /\ capture'[w] = capture[w] /\ failed'[w] = failed[w]
        /\ w \in holds[w] <=> capture[w]
    BY <1>12 DEF Exec!Write, OutputInv
  <2>2. CASE w \in holds[w] /\ ~readEnd[w]
    <3>1. child'[w] = "zombie" /\ output'[w] = output[w] /\ pipe'[w] = pipe[w]
      BY <1>12, <2>2 DEF Exec!Write
    <3>2. pc[w] \in {"close", "drain", "closeRead", "wait"}
      BY <2>1 DEF PlaceInv
    <3>3. failed[w]
      BY <2>1, <2>2, <3>2 DEF PlaceInv, OutputInv
    <3> QED
      BY <2>1, <3>1, <3>3 DEF OutputInv, Numbered
  <2>3. CASE ~(w \in holds[w] /\ ~readEnd[w])
    <3>1. /\ output' = [output EXCEPT ![w].written = @ + 1]
          /\ pipe' = IF w \in holds[w] THEN [pipe EXCEPT ![w] = Append(@, output'[w].written)] ELSE pipe
          /\ child' = child /\ holds' = holds
      BY <1>12, <2>3 DEF Exec!Write
    <3>2. output'[w].written = output[w].written + 1 /\ output'[w].total = output[w].total
      BY <3>1
    <3>3. output'[w].written <= output'[w].total
      BY <2>1, <3>2
    <3>4. capture[w] => pipe'[w] = Append(pipe[w], output'[w].written)
      BY <2>1, <3>1
    <3>5. capture'[w] => Numbered(w)'
      BY <2>1, <3>2, <3>4, WriteAppends
    <3> QED
      BY <2>1, <3>1, <3>3, <3>5 DEF OutputInv
  <2> QED
    BY <2>2, <2>3
<1> QED
  BY <1>1, <1>2, <1>3, <1>4, <1>5, <1>6, <1>7, <1>8, <1>9, <1>10, <1>11, <1>12
     DEF ExecStep, Exec!WorkerStep, Exec!CommandStep, Exec!Mishap

(* The invariant of the calls.                                             *)
LEMMA ExecInvariant ==
    ASSUME ExecAssumption
    PROVE  Exec!ProcInit /\ [][Exec!ProcNext]_(Exec!procVars) => []ExecInv
<1>1. Exec!ProcInit => ExecInv
  <2> SUFFICES ASSUME Exec!ProcInit PROVE ExecInv
    OBVIOUS
  <2>1. ExecTypeOK
    <3>1. <<>> \in Seq(Nat) /\ [total |-> 0, written |-> 0] \in [total : Nat, written : Nat]
      BY EmptySeq
    <3> QED
      BY <3>1 DEF ExecTypeOK, Exec!ProcInit
  <2>2. ASSUME NEW w \in Workers PROVE PlaceInv(w) /\ OutputInv(w)
    <3>1. /\ pc[w] = "call" /\ ~capture[w] /\ ~readEnd[w] /\ ~writeEnd[w] /\ child[w] = "none"
          /\ output[w] = [total |-> 0, written |-> 0] /\ pipe[w] = <<>> /\ captured[w] = <<>>
      BY DEF Exec!ProcInit
    <3> QED
      BY <3>1 DEF PlaceInv, OutputInv
  <2> QED
    BY <2>1, <2>2 DEF ExecInv
<1>2. ExecInv /\ [Exec!ProcNext]_(Exec!procVars) => ExecInv'
  <2> SUFFICES ASSUME ExecInv, [Exec!ProcNext]_(Exec!procVars) PROVE ExecInv'
    OBVIOUS
  <2>1. ExecTypeOK /\ ExecTypeOK'
    BY ExecTypeStep DEF ExecInv
  <2>2. CASE UNCHANGED Exec!procVars
    <3>1. ASSUME NEW w \in Workers PROVE PlaceInv(w)' /\ OutputInv(w)'
      <4>1. PlaceInv(w)' <=> PlaceInv(w)
        BY <2>2 DEF PlaceInv, Exec!procVars
      <4>2. Numbered(w)' <=> Numbered(w)
        BY <2>2 DEF Numbered, Exec!procVars
      <4>3. OutputInv(w)' <=> OutputInv(w)
        BY <2>2, <4>2 DEF OutputInv, Exec!procVars
      <4> QED
        BY <4>1, <4>3 DEF ExecInv
    <3> QED
      BY <2>1, <3>1 DEF ExecInv
  <2>3. ASSUME NEW w \in Workers, ExecStep(w) PROVE ExecInv'
    <3>1. ASSUME NEW u \in Workers PROVE PlaceInv(u)' /\ OutputInv(u)'
      <4>1. PlaceInv(u) /\ OutputInv(u)
        BY DEF ExecInv
      <4>2. CASE u = w
        BY <2>1, <2>3, <4>1, <4>2, PlaceStep, OutputStep
      <4>3. CASE u # w
        <5>1. Same(u)
          BY <2>1, <2>3, <4>3, OthersKept
        <5>2. PlaceInv(u)'
          BY <4>1, <5>1 DEF PlaceInv, Same
        <5>3. OutputInv(u)'
          <6>1. Numbered(u) => Numbered(u)'
            BY <5>1 DEF Numbered, Same
          <6> QED
            BY <4>1, <5>1, <6>1 DEF OutputInv, Same
        <5> QED
          BY <5>2, <5>3
      <4> QED
        BY <4>2, <4>3
    <3> QED
      BY <2>1, <3>1 DEF ExecInv
  <2> QED
    BY <2>2, <2>3 DEF Exec!ProcNext, ExecStep
<1> QED
  BY <1>1, <1>2, PTL

(* When process_exec has returned, whatever failed, its pipe is closed and *)
(* its child waited for.                                                   *)
LEMMA ExecLeavesNothing ==
    ASSUME ExecAssumption
    PROVE  Exec!ProcInit /\ [][Exec!ProcNext]_(Exec!procVars) => []Exec!NothingLeft
<1>1. ExecInv => Exec!NothingLeft
  BY DEF ExecInv, PlaceInv, Exec!NothingLeft, Exec!Returned
<1> QED
  BY <1>1, ExecInvariant, PTL

(* A capture that succeeds has all that the command has written, in order, *)
(* although other children hold the write end for a while and descendants  *)
(* of the command may outlive it.                                          *)
LEMMA ExecCapturesAll ==
    ASSUME ExecAssumption
    PROVE  Exec!ProcInit /\ [][Exec!ProcNext]_(Exec!procVars) => []Exec!OutputComplete
<1>1. ExecInv => Exec!OutputComplete
  <2> SUFFICES ASSUME ExecInv, NEW w \in Workers,
                      pc[w] = "returned", ~failed[w], capture[w]
               PROVE  captured[w] = [i \in 1 .. output[w].total |-> i]
    BY DEF Exec!OutputComplete, Exec!Returned
  <2>1. /\ pipe[w] = <<>> /\ output[w].written = output[w].total
        /\ Len(captured[w]) + Len(pipe[w]) = output[w].written
        /\ \A i \in 1 .. Len(captured[w]) : captured[w][i] = i
    BY DEF ExecInv, PlaceInv, OutputInv, Numbered
  <2>2. captured[w] \in Seq(Nat) /\ Len(captured[w]) \in Nat /\ Len(<<>>) = 0
    BY LenProperties, EmptySeq DEF ExecInv, ExecTypeOK
  <2>3. Len(captured[w]) = output[w].total
    BY <2>1, <2>2
  <2>4. /\ DOMAIN captured[w] = 1 .. output[w].total
        /\ captured[w] = [i \in DOMAIN captured[w] |-> captured[w][i]]
    BY <2>2, <2>3, LenProperties
  <2> QED
    BY <2>1, <2>3, <2>4
<1> QED
  BY <1>1, ExecInvariant, PTL

-----------------------------------------------------------------------------
(***************************************************************************)
(* Response files.                                                         *)
(***************************************************************************)
(* No two link steps have their response file under one name, and no run   *)
(* is killed while it writes one.                                          *)
RspAssumption ==
    /\ \A k, l \in Links : Rsp[k] = Rsp[l] => k = l
    /\ TornWrites = FALSE

Contents == [time : Nat, inputs : {<<>>} \cup (Links \X Nat)]

RspTypeOK ==
    /\ clock \in Nat /\ mtime \in Nat /\ mtime <= clock
    /\ version \in Nat /\ version > 0
    /\ graph \in {0, version}
    /\ rsp \in [{Rsp[l] : l \in Links} -> Contents]
    /\ linked \in [Links -> Contents]
    /\ linking \in [Links -> {"idle", "check", "args", "write", "inline", "file", "done"}]

(* Whatever is newer than the manifest has the inputs of this version,     *)
(* unless it is being written; a step that has come to its response file   *)
(* finds them there.                                                       *)
StepInv(l) ==
    /\ linking[l] # "idle" => graph = version
    /\ linked[l].time <= clock
    /\ rsp[Rsp[l]].time <= clock
    /\ mtime < linked[l].time => linked[l].inputs = <<l, version>>
    /\ linking[l] # "write" /\ mtime < rsp[Rsp[l]].time => rsp[Rsp[l]].inputs = <<l, version>>
    /\ linking[l] = "file" => rsp[Rsp[l]].inputs = <<l, version>>
    /\ linking[l] = "done" => linked[l].inputs = <<l, version>>

RspInv == RspTypeOK /\ \A l \in Links : StepInv(l)

(* One link step of a run.                                                 *)
LinkStep(l) ==
    \/ Response!UpToDate(l) \/ Response!NeedsRebuild(l) \/ Response!UseFile(l)
    \/ Response!ListInputs(l) \/ Response!OpenFile(l) \/ Response!WriteFile(l) \/ Response!Link(l)

(* What a link step does to itself and leaves alone of the others.         *)
LEMMA LinkStepEffect ==
    ASSUME RspAssumption, RspTypeOK, NEW l \in Links, LinkStep(l), graph = version
    PROVE  /\ UNCHANGED <<clock, version, mtime, graph>>
           /\ RspTypeOK'
           /\ \A u \in Links : u # l =>
                /\ linking'[u] = linking[u] /\ linked'[u] = linked[u]
                /\ rsp'[Rsp[u]] = rsp[Rsp[u]]
<1> DEFINE Cell(inputs) == [time |-> clock, inputs |-> inputs]
<1>1. Cell(<<>>) \in Contents /\ Cell(<<l, version>>) \in Contents
  BY DEF RspTypeOK, Contents
<1>2. Response!Inputs(l) = <<l, version>>
  BY DEF Response!Inputs
<1>3. rsp[Rsp[l]] \in Contents /\ Cell(rsp[Rsp[l]].inputs) \in Contents
  <2>1. rsp[Rsp[l]] \in Contents
    BY DEF RspTypeOK
  <2>2. rsp[Rsp[l]].inputs \in {<<>>} \cup (Links \X Nat)
    BY <2>1 DEF Contents
  <2> QED
    BY <2>1, <2>2 DEF RspTypeOK, Contents
<1>4. /\ UNCHANGED <<clock, version, mtime, graph>>
      /\ rsp' = rsp \/ \E c \in Contents : rsp' = [rsp EXCEPT ![Rsp[l]] = c]
      /\ linked' = linked \/ \E c \in Contents : linked' = [linked EXCEPT ![l] = c]
      /\ \E label \in {"args", "write", "inline", "file", "done"} :
             linking' = [linking EXCEPT ![l] = label]
  <2>1. CASE \/ Response!UpToDate(l) \/ Response!NeedsRebuild(l)
             \/ Response!UseFile(l) \/ Response!ListInputs(l)
    BY <2>1 DEF Response!UpToDate, Response!NeedsRebuild, Response!UseFile, Response!ListInputs,
        Response!Goto
  <2>2. CASE Response!OpenFile(l)
    BY <1>1, <2>2 DEF Response!OpenFile, Response!Goto, Response!File
  <2>3. CASE Response!WriteFile(l)
    BY <1>1, <1>2, <2>3 DEF Response!WriteFile, Response!Goto, Response!File
  <2>4. CASE Response!Link(l)
    <3>1. \E c \in Contents : linked' = [linked EXCEPT ![l] = c]
      <4>1. CASE linking[l] = "inline"
        BY <1>1, <1>2, <2>4, <4>1 DEF Response!Link, Response!File
      <4>2. CASE linking[l] # "inline"
        BY <1>3, <2>4, <4>2 DEF Response!Link, Response!File
      <4> QED
        BY <4>1, <4>2
    <3> QED
      BY <2>4, <3>1 DEF Response!Link, Response!Goto
  <2> QED
    BY <2>1, <2>2, <2>3, <2>4 DEF LinkStep
<1>5. RspTypeOK'
  BY <1>4, ZenonT(30) DEF RspTypeOK
<1>6. ASSUME NEW u \in Links, u # l
      PROVE  /\ linking'[u] = linking[u] /\ linked'[u] = linked[u]
             /\ rsp'[Rsp[u]] = rsp[Rsp[u]]
  <2>1. Rsp[u] # Rsp[l] /\ Rsp[u] \in {Rsp[k] : k \in Links}
    BY <1>6 DEF RspAssumption
  <2>2. rsp'[Rsp[u]] = rsp[Rsp[u]]
    BY <1>4, <2>1 DEF RspTypeOK
  <2>3. linking'[u] = linking[u] /\ linked'[u] = linked[u]
    BY <1>4, <1>6 DEF RspTypeOK
  <2> QED
    BY <2>2, <2>3
<1> QED
  BY <1>4, <1>5, <1>6

(* A link step keeps its own invariant.                                    *)
LEMMA LinkStepKeeps ==
    ASSUME RspAssumption, RspTypeOK, NEW l \in Links, LinkStep(l), StepInv(l)
    PROVE  StepInv(l)'
<1> USE DEF RspTypeOK, Response!Goto
<1>1. graph = version /\ UNCHANGED <<clock, version, mtime, graph>>
  BY DEF LinkStep, StepInv, Response!UpToDate, Response!NeedsRebuild, Response!UseFile,
         Response!ListInputs, Response!OpenFile, Response!WriteFile, Response!Link
<1>2. Response!Inputs(l) = <<l, version>>
  BY <1>1 DEF Response!Inputs
<1>3. CASE Response!UpToDate(l)
  <2>1. /\ UNCHANGED <<rsp, linked>> /\ linking[l] = "check" /\ linking'[l] = "done"
        /\ mtime < linked[l].time
    BY <1>3 DEF Response!UpToDate
  <2> QED
    BY <1>1, <2>1 DEF StepInv
<1>4. CASE Response!NeedsRebuild(l) \/ Response!ListInputs(l)
  <2>1. /\ UNCHANGED <<rsp, linked>> /\ linking[l] \in {"check", "args"}
        /\ linking'[l] \in {"args", "inline"}
    BY <1>4 DEF Response!NeedsRebuild, Response!ListInputs
  <2> QED
    BY <1>1, <2>1 DEF StepInv
<1>5. CASE Response!UseFile(l)
  <2>1. /\ UNCHANGED <<rsp, linked>> /\ linking[l] = "args" /\ linking'[l] = "file"
        /\ mtime < rsp[Rsp[l]].time
    <3>1. rsp[Rsp[l]].time \in Nat
      BY DEF Contents
    <3> QED
      BY <1>5, <3>1 DEF Response!UseFile, Response!Reusable
  <2> QED
    BY <1>1, <2>1 DEF StepInv
<1>6. CASE Response!OpenFile(l)
  <2>1. /\ linked' = linked /\ linking[l] = "args" /\ linking'[l] = "write"
        /\ rsp'[Rsp[l]] = [time |-> clock, inputs |-> <<>>]
    BY <1>6 DEF Response!OpenFile, Response!File
  <2> QED
    BY <1>1, <2>1 DEF StepInv
<1>7. CASE Response!WriteFile(l)
  <2>1. /\ linked' = linked /\ linking[l] = "write" /\ linking'[l] = "file"
        /\ rsp'[Rsp[l]] = [time |-> clock, inputs |-> <<l, version>>]
    BY <1>2, <1>7, ZenonT(30) DEF Response!WriteFile, Response!File, RspAssumption
  <2> QED
    BY <1>1, <2>1 DEF StepInv
<1>8. CASE Response!Link(l)
  <2>1. /\ rsp' = rsp /\ linking[l] \in {"inline", "file"} /\ linking'[l] = "done"
        /\ linked'[l] = [time |-> clock,
                         inputs |-> IF linking[l] = "inline" THEN <<l, version>> ELSE rsp[Rsp[l]].inputs]
    BY <1>2, <1>8 DEF Response!Link, Response!File
  <2>2. linked'[l] = [time |-> clock, inputs |-> <<l, version>>]
    BY <2>1 DEF StepInv
  <2> QED
    BY <1>1, <2>1, <2>2 DEF StepInv
<1> QED
  BY <1>3, <1>4, <1>5, <1>6, <1>7, <1>8 DEF LinkStep

(* A link step that is done was linked from its own inputs of this version *)
(* of the manifest, although a response file that is newer than the        *)
(* manifest is passed on unread.                                           *)
LEMMA ResponseFilesFit ==
    ASSUME RspAssumption
    PROVE  Response!RspSpec => []Response!LinkedFromItsInputs
<1>1. Response!RspInit => RspInv
  <2> SUFFICES ASSUME Response!RspInit PROVE RspInv
    OBVIOUS
  <2>1. Response!None = [time |-> 0, inputs |-> <<>>] /\ Response!None \in Contents
    BY DEF Response!None, Contents
  <2>2. RspTypeOK
    BY <2>1 DEF RspTypeOK, Response!RspInit
  <2>3. ASSUME NEW l \in Links PROVE StepInv(l)
    <3>1. /\ linked[l] = [time |-> 0, inputs |-> <<>>] /\ rsp[Rsp[l]] = [time |-> 0, inputs |-> <<>>]
          /\ linking[l] = "idle" /\ clock = 1 /\ mtime = 1
      BY <2>1 DEF Response!RspInit
    <3> QED
      BY <3>1 DEF StepInv
  <2> QED
    BY <2>2, <2>3 DEF RspInv
<1>2. RspInv /\ [Response!RspNext]_(Response!rspVars) => RspInv'
  <2> SUFFICES ASSUME RspInv, [Response!RspNext]_(Response!rspVars) PROVE RspInv'
    OBVIOUS
  <2>1. RspTypeOK /\ \A l \in Links : StepInv(l)
    BY DEF RspInv
  <2>2. \A l \in Links : linked[l].time \in Nat /\ rsp[Rsp[l]].time \in Nat
    BY <2>1 DEF RspTypeOK, Contents
  <2>3. CASE UNCHANGED Response!rspVars
    BY <2>1, <2>3 DEF RspInv, RspTypeOK, StepInv, Response!rspVars
  <2>4. CASE Response!Tick
    BY <2>1, <2>2, <2>4 DEF RspInv, RspTypeOK, StepInv, Response!Tick
  <2>5. CASE Response!EditManifest
    <3>1. /\ graph = 0 /\ version' = version + 1 /\ mtime' = clock
          /\ UNCHANGED <<clock, rsp, linked, graph, linking>>
      BY <2>5 DEF Response!EditManifest
    <3>2. \A l \in Links : linking[l] = "idle"
      BY <2>1, <3>1 DEF RspTypeOK, StepInv
    <3> QED
      BY <2>1, <2>2, <3>1, <3>2 DEF RspInv, RspTypeOK, StepInv
  <2>6. CASE Response!Clean
    <3>1. /\ graph = 0 /\ linked' = [l \in Links |-> Response!None]
          /\ UNCHANGED <<clock, version, mtime, rsp, graph, linking>>
      BY <2>6 DEF Response!Clean
    <3>2. \A l \in Links : linking[l] = "idle"
      BY <2>1, <3>1 DEF RspTypeOK, StepInv
    <3>3. Response!None = [time |-> 0, inputs |-> <<>>] /\ Response!None \in Contents
      BY DEF Response!None, Contents
    <3>4. RspTypeOK'
      BY <2>1, <3>1, <3>3 DEF RspTypeOK
    <3>5. ASSUME NEW l \in Links PROVE StepInv(l)'
      <4>1. linked'[l].time = 0
        BY <3>1, <3>3
      <4> QED
        BY <2>1, <3>1, <3>2, <4>1 DEF StepInv, RspTypeOK
    <3> QED
      BY <3>4, <3>5 DEF RspInv
  <2>7. CASE Response!Start
    <3>1. /\ graph' = version /\ linking' = [l \in Links |-> "check"] /\ graph = 0
          /\ UNCHANGED <<clock, version, mtime, rsp, linked>>
      BY <2>7 DEF Response!Start
    <3>2. \A l \in Links : linking[l] = "idle"
      BY <2>1, <3>1 DEF RspTypeOK, StepInv
    <3> QED
      BY <2>1, <3>1, <3>2 DEF RspInv, RspTypeOK, StepInv
  <2>8. CASE Response!End
    <3>1. /\ graph' = 0 /\ linking' = [l \in Links |-> "idle"]
          /\ UNCHANGED <<clock, version, mtime, rsp, linked>>
      BY <2>8 DEF Response!End
    <3>2. \A l \in Links : linking[l] # "write"
      BY <2>8 DEF Response!End, RspAssumption
    <3> QED
      BY <2>1, <3>1, <3>2 DEF RspInv, RspTypeOK, StepInv
  <2>9. ASSUME NEW l \in Links, LinkStep(l) PROVE RspInv'
    <3>1. graph = version
      BY <2>1, <2>9
         DEF LinkStep, StepInv, Response!UpToDate, Response!NeedsRebuild, Response!UseFile,
             Response!ListInputs, Response!OpenFile, Response!WriteFile, Response!Link
    <3>2. /\ UNCHANGED <<clock, version, mtime, graph>> /\ RspTypeOK'
          /\ \A u \in Links : u # l =>
               /\ linking'[u] = linking[u] /\ linked'[u] = linked[u]
               /\ rsp'[Rsp[u]] = rsp[Rsp[u]]
      BY <2>1, <2>9, <3>1, LinkStepEffect
    <3>3. ASSUME NEW u \in Links PROVE StepInv(u)'
      <4>1. CASE u = l
        BY <2>1, <2>9, <4>1, LinkStepKeeps
      <4>2. CASE u # l
        BY <2>1, <3>2, <4>2 DEF StepInv
      <4> QED
        BY <4>1, <4>2
    <3> QED
      BY <3>2, <3>3 DEF RspInv
  <2> QED
    BY <2>3, <2>4, <2>5, <2>6, <2>7, <2>8, <2>9 DEF Response!RspNext, LinkStep
<1>3. RspInv => Response!LinkedFromItsInputs
  <2> SUFFICES ASSUME RspInv, NEW l \in Links, linking[l] = "done"
               PROVE  linked[l].inputs = Response!Inputs(l)
    BY DEF Response!LinkedFromItsInputs
  <2> QED
    BY DEF RspInv, StepInv, Response!Inputs
<1> QED
  BY <1>1, <1>2, <1>3, PTL DEF Response!RspSpec

-----------------------------------------------------------------------------
(***************************************************************************)
(* The cache file.                                                         *)
(*                                                                         *)
(* The argument has two halves.  Of one run: what is written and what the  *)
(* buffers still hold together are the image, so that a file is whole when *)
(* it is renamed (SavingInv).  Of all runs: whatever is or can come back   *)
(* under the name of the cache are remains of one image (DiskInv), and     *)
(* remains that the checksum accepts are the image itself (HoldsRemains).  *)
(***************************************************************************)
(* The caches have sizes; the header of an empty one is written all the    *)
(* same.                                                                   *)
SizeAssumption == PayloadSize \in Seq(Nat)

Size(r) == Cache!HeaderSize + PayloadSize[r]
Runs == 1 .. Len(PayloadSize)
Bytes == {<<r, i>> : r \in Runs, i \in Nat} \cup {Cache!Hole}

(* The inductive invariant.                                                *)
CacheTypeOK ==
    /\ run \in 0 .. Len(PayloadSize)
    /\ saving \in {"idle", "building", "write", "close", "rename", "remove"}
    /\ saving # "idle" => run > 0
    /\ cuts \in Nat

(* A part of the image from its start, in which bytes may be missing.      *)
Remains(content, r) ==
    /\ content \in Seq(Bytes)
    /\ Len(content) <= Size(r)
    /\ \A i \in 1 .. Len(content) : content[i] \in {<<r, i>>, Cache!Hole}

(* What can be read under the name of the cache, now or after a power cut. *)
DiskInv ==
    /\ bin \in unsynced
    /\ \A content \in unsynced :
         content = Cache!Missing \/ \E r \in 1 .. run : Remains(content, r)

(* The places from the one after first on, in their order.                 *)
Continues(content, first) ==
    /\ content \in Seq(Bytes)
    /\ \A i \in 1 .. Len(content) : content[i] = <<run, first + i>>

(* What is written, and what is still to be written.                       *)
Left == IF next = 1 THEN buffers[1] ELSE <<>>
SavingInv ==
    /\ saving = "write" =>
         /\ next \in {1, 2}
         /\ DOMAIN buffers = {1, 2}
         /\ Continues(tmp, 0)
         /\ Continues(Left, Len(tmp))
         /\ Continues(buffers[2], Len(tmp) + Len(Left))
         /\ Len(tmp) + Len(Left) + Len(buffers[2]) = Size(run)
    /\ saving \in {"close", "rename"} => tmp = Cache!Image(run)

CacheInv == CacheTypeOK /\ DiskInv /\ SavingInv

(* The image of a run has its bytes in their places.                       *)
LEMMA ImageProperties ==
    ASSUME SizeAssumption, NEW r \in Runs
    PROVE  /\ Size(r) \in Nat /\ Size(r) >= 2
           /\ Cache!Image(r) \in Seq(Bytes)
           /\ Len(Cache!Image(r)) = Size(r)
           /\ \A i \in 1 .. Size(r) : Cache!Image(r)[i] = <<r, i>>
<1>1. PayloadSize[r] \in Nat
  BY ElementOfSeq DEF SizeAssumption, Runs
<1>2. Size(r) \in Nat /\ Size(r) >= 2
  BY <1>1 DEF Size, Cache!HeaderSize
<1>3. Cache!Image(r) = [i \in 1 .. Size(r) |-> <<r, i>>]
  BY DEF Cache!Image, Size
<1>4. \A i \in 1 .. Size(r) : <<r, i>> \in Bytes
  BY <1>2 DEF Bytes
<1>5. Cache!Image(r) \in [1 .. Size(r) -> Bytes]
  BY <1>3, <1>4
<1>6. Cache!Image(r) \in Seq(Bytes)
  BY <1>2, <1>5
<1>7. Len(Cache!Image(r)) = Size(r)
  BY <1>2, <1>5, <1>6, LenProperties
<1> QED
  BY <1>2, <1>3, <1>6, <1>7

(* A run is a number, so its bytes are not the hole.                       *)
LEMMA BytesAreNotHoles == \A r \in Runs : \A i \in Nat : <<r, i>> # Cache!Hole /\ <<r, i>>[1] = r
BY DEF Runs, Cache!Hole

(* Remains that the checksum accepts are the whole image; and the image is *)
(* accepted.                                                               *)
LEMMA HoldsRemains ==
    ASSUME SizeAssumption, NEW r \in Runs, NEW content, Remains(content, r)
    PROVE  Cache!Holds(content) \in {0, r}
<1> SUFFICES ASSUME Cache!Accepts(content) PROVE Cache!Holds(content) = r
  BY DEF Cache!Holds
<1>1. /\ content \in Seq(Bytes) /\ Len(content) \in Nat
      /\ DOMAIN content = 1 .. Len(content) /\ Len(content) >= 2
  BY LenProperties DEF Remains, Cache!Accepts, Cache!HeaderSize
<1>2. content[2] = <<r, 2>>
  BY <1>1 DEF Remains, Cache!Accepts
<1>3. content[2][1] = r
  BY <1>2
<1>4. Cache!Sum(Cache!Image(r)) = Cache!Sum(content)
  BY <1>3 DEF Cache!Accepts
<1>5. DOMAIN Cache!Image(r) = 1 .. Size(r)
  BY ImageProperties, LenProperties
<1>6. DOMAIN content = 1 .. Size(r)
  <2>1. DOMAIN Cache!Sum(Cache!Image(r)) = DOMAIN Cache!Image(r)
          /\ DOMAIN Cache!Sum(content) = DOMAIN content
    BY DEF Cache!Sum
  <2> QED
    BY <1>4, <1>5, <2>1
<1>7. ASSUME NEW i \in 1 .. Size(r) PROVE content[i] = Cache!Image(r)[i]
  <2>1. CASE i = 2
    BY <1>2, <2>1, ImageProperties
  <2>2. CASE i # 2
    <3>1. Cache!Sum(content)[i] = content[i]
      BY <1>6, <2>2 DEF Cache!Sum
    <3>2. Cache!Sum(Cache!Image(r))[i] = Cache!Image(r)[i]
      BY <1>5, <2>2 DEF Cache!Sum
    <3> QED
      BY <1>4, <3>1, <3>2
  <2> QED
    BY <2>1, <2>2
<1>8. Cache!Image(r) \in Seq(Bytes) /\ Len(Cache!Image(r)) = Size(r) /\ Size(r) \in Nat
  BY ImageProperties
<1>9. Len(content) = Size(r)
  BY <1>1, <1>6, <1>8
<1>10. content = Cache!Image(r)
  BY <1>1, <1>7, <1>8, <1>9, SeqEqual
<1> QED
  BY <1>3, <1>10 DEF Cache!Holds

(* Read back, the image of a run is that run.                              *)
LEMMA HoldsImage ==
    ASSUME SizeAssumption, NEW r \in Runs
    PROVE  Cache!Holds(Cache!Image(r)) = r
<1>1. /\ Cache!Image(r)[1] = <<r, 1>> /\ Cache!Image(r)[2] = <<r, 2>>
        /\ Len(Cache!Image(r)) >= Cache!HeaderSize
  BY ImageProperties DEF Cache!HeaderSize
<1>2. Cache!Image(r)[1] # Cache!Hole /\ Cache!Image(r)[2] # Cache!Hole /\ Cache!Image(r)[2][1] = r
  BY <1>1, BytesAreNotHoles
<1> QED
  BY <1>1, <1>2 DEF Cache!Holds, Cache!Accepts

(* An empty file holds nothing.                                            *)
LEMMA HoldsMissing == Cache!Holds(Cache!Missing) = 0
BY EmptySeq, LenProperties DEF Cache!Holds, Cache!Accepts, Cache!Missing, Cache!HeaderSize

(* Nothing is left of an empty file.                                       *)
LEMMA DamagedMissing ==
    ASSUME NEW content, content = Cache!Missing, NEW left, left \in Cache!Damaged(content)
    PROVE  left = Cache!Missing
<1>1. Len(content) = 0
  BY EmptySeq DEF Cache!Missing
<1>2. PICK kept \in SUBSET DOMAIN content, n \in 0 .. Len(content) :
        left = SubSeq(Cache!Holed(content, kept), 1, n)
  <2> DEFINE Cut(kept, n) == SubSeq(Cache!Holed(content, kept), 1, n)
  <2>1. Cache!Damaged(content) = {Cut(kept, n) : kept \in SUBSET DOMAIN content, n \in 0 .. Len(content)}
    BY DEF Cache!Damaged
  <2> HIDE DEF Cut
  <2>2. \E kept \in SUBSET DOMAIN content, n \in 0 .. Len(content) : left = Cut(kept, n)
    BY <2>1
  <2> QED
    BY <2>2 DEF Cut
<1>3. SubSeq(Cache!Holed(content, kept), 1, 0) = <<>>
  BY SubSeqEmpty
<1> QED
  BY <1>1, <1>2, <1>3 DEF Cache!Missing

(* A power cut leaves remains of remains.                                  *)
LEMMA DamagedRemains ==
    ASSUME SizeAssumption, NEW r \in Runs, NEW content, Remains(content, r),
           NEW left, left \in Cache!Damaged(content)
    PROVE  Remains(left, r)
<1>1. PICK kept \in SUBSET DOMAIN content, n \in 0 .. Len(content) :
        left = SubSeq(Cache!Holed(content, kept), 1, n)
  <2> DEFINE Cut(kept, n) == SubSeq(Cache!Holed(content, kept), 1, n)
  <2>1. Cache!Damaged(content) = {Cut(kept, n) : kept \in SUBSET DOMAIN content, n \in 0 .. Len(content)}
    BY DEF Cache!Damaged
  <2> HIDE DEF Cut
  <2>2. \E kept \in SUBSET DOMAIN content, n \in 0 .. Len(content) : left = Cut(kept, n)
    BY <2>1
  <2> QED
    BY <2>2 DEF Cut
<1>2. content \in Seq(Bytes) /\ Len(content) \in Nat /\ DOMAIN content = 1 .. Len(content)
  BY LenProperties DEF Remains
<1>3. \A i \in 1 .. n : Cache!Holed(content, kept)[i] \in Bytes
        /\ Cache!Holed(content, kept)[i] \in {<<r, i>>, Cache!Hole}
  <2>1. \A i \in 1 .. n : i \in DOMAIN content /\ i \in 1 .. Len(content)
    BY <1>2
  <2>2. \A i \in 1 .. n : Cache!Holed(content, kept)[i] \in {<<r, i>>, Cache!Hole}
    BY <2>1 DEF Remains, Cache!Holed
  <2>3. \A i \in 1 .. n : <<r, i>> \in Bytes /\ Cache!Hole \in Bytes
    BY DEF Bytes
  <2> QED
    BY <2>2, <2>3
<1>4. /\ left \in Seq(Bytes) /\ Len(left) = n
      /\ \A i \in 1 .. n : left[i] = Cache!Holed(content, kept)[i]
  <2>1. n \in Nat /\ n - 1 + 1 = n /\ \A i \in 1 .. n : 1 + i - 1 = i
    BY <1>2
  <2>2. SubSeq(Cache!Holed(content, kept), 1, n) \in Seq(Bytes)
    BY <1>3, <2>1, SubSeqProperties
  <2>3. Len(SubSeq(Cache!Holed(content, kept), 1, n)) = n
    BY <1>3, <2>1, SubSeqProperties
  <2>4. \A i \in 1 .. n : SubSeq(Cache!Holed(content, kept), 1, n)[i] = Cache!Holed(content, kept)[i]
    BY <1>3, <2>1, SubSeqProperties
  <2> QED
    BY <1>1, <2>2, <2>3, <2>4
<1>5. Len(content) <= Size(r) /\ n <= Len(content) /\ Size(r) \in Nat
  BY <1>2, ImageProperties DEF Remains
<1> QED
  BY <1>2, <1>3, <1>4, <1>5 DEF Remains

-----------------------------------------------------------------------------
(***************************************************************************)
(* Every step keeps the invariant.                                         *)
(***************************************************************************)
(* Bytes that continue each other do so as one sequence, and so do the     *)
(* rest of a sequence and what is cut off at its start.                    *)
LEMMA Appended ==
    ASSUME NEW left, NEW first \in Nat, NEW right,
           Continues(left, first), Continues(right, first + Len(left))
    PROVE  Continues(left \o right, first) /\ Len(left \o right) = Len(left) + Len(right)
<1>1. /\ left \in Seq(Bytes) /\ right \in Seq(Bytes)
      /\ Len(left) \in Nat /\ Len(right) \in Nat
  BY LenProperties DEF Continues
<1>2. /\ left \o right \in Seq(Bytes)
      /\ Len(left \o right) = Len(left) + Len(right)
      /\ \A i \in 1 .. Len(left) + Len(right) :
           (left \o right)[i] = IF i <= Len(left) THEN left[i] ELSE right[i - Len(left)]
  BY <1>1, ConcatProperties
<1>3. ASSUME NEW i \in 1 .. Len(left) + Len(right)
      PROVE  (left \o right)[i] = <<run, first + i>>
  <2>1. CASE i <= Len(left)
    BY <1>1, <1>2, <2>1 DEF Continues
  <2>2. CASE i > Len(left)
    <3>1. /\ i - Len(left) \in 1 .. Len(right) /\ (first + Len(left)) + (i - Len(left)) = first + i
          /\ ~(i <= Len(left))
      <4> DEFINE l == Len(left)
                 r == Len(right)
      <4>1. l \in Nat /\ r \in Nat /\ i \in 1 .. l + r /\ i > l /\ first \in Nat
        BY <1>1, <2>2
      <4> HIDE DEF l, r
      <4>2. i - l \in 1 .. r /\ (first + l) + (i - l) = first + i /\ ~(i <= l)
        BY ONLY <4>1
      <4> QED
        BY <4>2 DEF l, r
    <3>2. (left \o right)[i] = right[i - Len(left)]
      BY <1>2, <3>1
    <3> QED
      BY <3>1, <3>2 DEF Continues
  <2>3. i \in Nat /\ Len(left) \in Nat
    BY <1>1
  <2>4. i <= Len(left) \/ i > Len(left)
    BY ONLY <2>3
  <2> QED
    BY <2>1, <2>2, <2>4
<1> QED
  BY <1>2, <1>3 DEF Continues

(* What a writev takes of a continuing content continues it too.           *)
LEMMA Taken ==
    ASSUME NEW content, NEW first \in Nat, Continues(content, first),
           NEW n \in 0 .. Len(content)
    PROVE  /\ Continues(SubSeq(content, 1, n), first)
           /\ Len(SubSeq(content, 1, n)) = n
           /\ Continues(SubSeq(content, n + 1, Len(content)), first + n)
           /\ Len(SubSeq(content, n + 1, Len(content))) = Len(content) - n
<1>1. content \in Seq(Bytes) /\ Len(content) \in Nat
        /\ \A i \in 1 .. Len(content) : content[i] \in Bytes
  BY LenProperties, ElementOfSeq DEF Continues
<1>2. /\ SubSeq(content, 1, n) \in Seq(Bytes)
      /\ Len(SubSeq(content, 1, n)) = n
      /\ \A i \in 1 .. n : SubSeq(content, 1, n)[i] = content[i]
  <2>1. n \in Nat /\ n - 1 + 1 = n /\ (\A i \in 1 .. n : 1 + i - 1 = i /\ content[i] \in Bytes)
    BY <1>1
  <2>2. SubSeq(content, 1, n) \in Seq(Bytes)
    BY <2>1, SubSeqProperties
  <2>3. Len(SubSeq(content, 1, n)) = n
    BY <2>1, SubSeqProperties
  <2>4. \A i \in 1 .. n : SubSeq(content, 1, n)[i] = content[i]
    BY <2>1, SubSeqProperties
  <2> QED
    BY <2>2, <2>3, <2>4
<1>3. /\ SubSeq(content, n + 1, Len(content)) \in Seq(Bytes)
      /\ Len(SubSeq(content, n + 1, Len(content))) = Len(content) - n
      /\ \A i \in 1 .. Len(content) - n : SubSeq(content, n + 1, Len(content))[i] = content[n + i]
  <2> DEFINE l == Len(content)
  <2>1. /\ n \in Nat /\ l \in Nat /\ l - (n + 1) + 1 = l - n
        /\ \A i \in n + 1 .. l : content[i] \in Bytes
        /\ \A i \in 1 .. l - n : (n + 1) + i - 1 = n + i
        /\ (IF n + 1 <= l THEN l - (n + 1) + 1 ELSE 0) = l - n
    BY <1>1
  <2> HIDE DEF l
  <2>2. SubSeq(content, n + 1, l) \in Seq(Bytes)
    BY <2>1, SubSeqProperties
  <2>3. Len(SubSeq(content, n + 1, l)) = l - n
    BY <2>1, SubSeqProperties
  <2>4. \A i \in 1 .. l - n : SubSeq(content, n + 1, l)[i] = content[n + i]
    BY <2>1, SubSeqProperties
  <2> QED
    BY <2>2, <2>3, <2>4 DEF l
<1>4. \A i \in 1 .. n : content[i] = <<run, first + i>>
  BY <1>1 DEF Continues
<1>5. \A i \in 1 .. Len(content) - n : content[n + i] = <<run, (first + n) + i>>
  <2>1. \A i \in 1 .. Len(content) - n : n + i \in 1 .. Len(content)
          /\ first + (n + i) = (first + n) + i
    BY <1>1
  <2> QED
    BY <2>1 DEF Continues
<1> QED
  BY <1>2, <1>3, <1>4, <1>5 DEF Continues

(* The buffer that the byte after the n-th is in.                          *)
LEMMA BufferAfter ==
    ASSUME next \in {1, 2}, NEW n \in Nat, NEW a \in Nat, NEW b \in Nat,
           Cache!UpTo(0) = 0, Cache!UpTo(1) = a, Cache!UpTo(2) = b, a <= b, n <= b, next = 2 => a = 0
    PROVE  Cache!NextBuffer(n) = IF n < a THEN 1 ELSE IF n < b THEN 2 ELSE 3
<1> DEFINE Ends(i) == Cache!UpTo(i - 1) <= n /\ (i = 3 \/ n < Cache!UpTo(i))
           which == IF n < a THEN 1 ELSE IF n < b THEN 2 ELSE 3
<1>1. Cache!NextBuffer(n) = CHOOSE i \in next .. 3 : Ends(i)
  BY DEF Cache!NextBuffer
<1>2. Ends(1) <=> n < a
  <2>1. 1 - 1 = 0 /\ 1 # 3 /\ 0 <= n
    OBVIOUS
  <2> QED
    BY <2>1
<1>3. Ends(2) <=> a <= n /\ n < b
  <2>1. 2 - 1 = 1 /\ 2 # 3
    OBVIOUS
  <2> QED
    BY <2>1
<1>4. Ends(3) <=> b <= n
  <2>1. 3 - 1 = 2
    OBVIOUS
  <2> QED
    BY <2>1
<1> HIDE DEF Ends
<1>5. next .. 3 \subseteq {1, 2, 3} /\ which \in next .. 3
  OBVIOUS
<1>6. ASSUME NEW i \in {1, 2, 3} PROVE Ends(i) <=> i = which
  BY <1>2, <1>3, <1>4
<1> HIDE DEF which
<1>7. (CHOOSE i \in next .. 3 : Ends(i)) = which
  BY <1>5, <1>6
<1> QED
  BY <1>1, <1>7 DEF which

(* A step of the run that writes keeps what is written and what is left    *)
(* together the image: whatever part of a buffer writev takes, the next    *)
(* call starts behind it.                                                  *)
LEMMA WriteKeepsImage ==
    ASSUME SizeAssumption, CacheInv, Cache!Write
    PROVE  SavingInv'
<1> DEFINE rest == Left \o buffers[2]
<1>1. /\ saving = "write" /\ run \in Runs /\ UNCHANGED run
      /\ next \in {1, 2} /\ DOMAIN buffers = {1, 2}
      /\ Continues(tmp, 0) /\ Continues(Left, Len(tmp))
          /\ Continues(buffers[2], Len(tmp) + Len(Left))
      /\ Len(tmp) + Len(Left) + Len(buffers[2]) = Size(run)
  BY DEF CacheInv, CacheTypeOK, SavingInv, Cache!Write, Runs
<1>2. Size(run) \in Nat /\ Len(tmp) \in Nat /\ Len(Left) \in Nat /\ Len(buffers[2]) \in Nat
  BY <1>1, ImageProperties, LenProperties DEF Continues
<1>3. Continues(rest, Len(tmp)) /\ Len(rest) = Len(Left) + Len(buffers[2])
  BY <1>1, <1>2, Appended
<1>4. Cache!UpTo(0) = 0 /\ Cache!UpTo(1) = Len(Left) /\ Cache!UpTo(2) = Len(rest)
        /\ (next = 2 => Len(Left) = 0)
  <2>1. CASE next = 1
    BY ONLY <1>2, <1>3, <2>1 DEF Cache!UpTo, Left
  <2>2. CASE next = 2
    <3>1. Len(Left) = 0
      BY <2>2, EmptySeq DEF Left
    <3> QED
      BY ONLY <1>2, <1>3, <2>2, <3>1 DEF Cache!UpTo
  <2> QED
    BY <1>1, <2>1, <2>2
<1>5. PICK n \in 1 .. Len(rest) :
        /\ tmp' = tmp \o SubSeq(rest, 1, n)
        /\ next' = Cache!NextBuffer(n)
        /\ buffers' = Cache!Advanced(n)
        /\ saving' = IF next' = 3 THEN "close" ELSE "write"
  BY <1>4 DEF Cache!Write, Left
<1> HIDE DEF rest
<1>a. next \in {1, 2}
  BY <1>1
<1>6. n \in 0 .. Len(rest) /\ n \in Nat /\ n > 0
  BY <1>2, <1>3
<1>b. /\ Len(Left) \in Nat /\ Len(rest) \in Nat /\ Len(Left) <= Len(rest) /\ n <= Len(rest)
    /\ n \in Nat
      /\ n > 0 /\ (next = 2 => Len(Left) = 0)
  <2>1. Len(Left) \in Nat /\ Len(buffers[2]) \in Nat /\ Len(rest) = Len(Left) + Len(buffers[2])
    BY <1>2, <1>3
  <2>2. Len(rest) \in Nat /\ Len(Left) <= Len(rest)
    BY ONLY <2>1
  <2>3. n <= Len(rest) /\ n \in Nat /\ n > 0
    BY ONLY <1>6, <2>2
  <2> QED
    BY <1>4, <2>1, <2>2, <2>3
<1>c. Cache!NextBuffer(n) = IF n < Len(Left) THEN 1 ELSE IF n < Len(rest) THEN 2 ELSE 3
  BY <1>a, <1>b, <1>4, BufferAfter
<1>7. /\ Continues(SubSeq(rest, 1, n), 0 + Len(tmp)) /\ Len(SubSeq(rest, 1, n)) = n
  BY <1>2, <1>3, <1>6, Taken
<1>8. Continues(tmp', 0) /\ Len(tmp') = Len(tmp) + n
  BY <1>1, <1>5, <1>7, Appended
<1>9. CASE n < Len(Left)
  <2>1. next = 1 /\ Cache!NextBuffer(n) = 1
    BY <1>a, <1>b, <1>c, <1>9
  <2>2. Cache!Advanced(n) = [buffers EXCEPT ![1] = SubSeq(buffers[1], n + 1, Len(buffers[1]))]
    <3>1. Cache!UpTo(1 - 1) = 0 /\ n - Cache!UpTo(1 - 1) + 1 = n + 1 /\ 1 # 3
      BY <1>2, <1>4, <1>6
    <3> QED
      BY ONLY <2>1, <3>1 DEF Cache!Advanced
  <2>3. /\ next' = 1 /\ saving' = "write" /\ DOMAIN buffers' = {1, 2}
        /\ buffers'[1] = SubSeq(buffers[1], n + 1, Len(buffers[1])) /\ buffers'[2] = buffers[2]
    BY <1>1, <1>5, <2>1, <2>2
  <2>4. Left = buffers[1] /\ Left' = SubSeq(Left, n + 1, Len(Left)) /\ buffers'[2] = buffers[2]
    BY <2>1, <2>3 DEF Left
  <2>5. Continues(Left', Len(tmp) + n) /\ Len(Left') = Len(Left) - n
    <3>1. n \in 0 .. Len(Left)
      BY <1>2, <1>6, <1>9
    <3> QED
      BY <1>1, <1>2, <2>4, <3>1, Taken
  <2>6. Len(tmp') + Len(Left') = Len(tmp) + Len(Left)
    BY <1>2, <1>6, <1>8, <2>5
  <2>7. /\ Continues(buffers'[2], Len(tmp') + Len(Left'))
        /\ Len(tmp') + Len(Left') + Len(buffers'[2]) = Size(run)
    BY <1>1, <2>4, <2>6
  <2> QED
    BY <1>1, <1>8, <2>3, <2>5, <2>7 DEF SavingInv, Continues, Size
<1>10. CASE Len(Left) <= n /\ n < Len(rest)
  <2> DEFINE m == n - Len(Left)
  <2>1. Cache!NextBuffer(n) = 2
    BY <1>b, <1>c, <1>10
  <2>2. Cache!Advanced(n) = [buffers EXCEPT ![2] = SubSeq(buffers[2], m + 1, Len(buffers[2]))]
    <3>0. 2 - 1 = 1 /\ 2 # 3
      OBVIOUS
    <3>1. Cache!UpTo(2 - 1) = Len(Left) /\ n - Cache!UpTo(2 - 1) + 1 = m + 1 /\ 2 # 3
      BY ONLY <1>4, <3>0 DEF m
    <3> QED
      BY ONLY <2>1, <3>1 DEF Cache!Advanced
  <2>3. /\ next' = 2 /\ saving' = "write" /\ DOMAIN buffers' = {1, 2}
        /\ buffers'[2] = SubSeq(buffers[2], m + 1, Len(buffers[2]))
    BY <1>1, <1>5, <2>1, <2>2
  <2>4. Left' = <<>> /\ Len(Left') = 0 /\ Continues(Left', Len(tmp'))
    BY <2>3, EmptySeq, LenProperties DEF Left, Continues
  <2>5. /\ Continues(buffers'[2], (Len(tmp) + Len(Left)) + m)
        /\ Len(buffers'[2]) = Len(buffers[2]) - m
    <3>1. m \in 0 .. Len(buffers[2]) /\ Len(tmp) + Len(Left) \in Nat
      BY <1>2, <1>3, <1>6, <1>10
    <3>2. buffers'[2] = SubSeq(buffers[2], m + 1, Len(buffers[2]))
      BY <2>3
    <3>3. /\ Continues(SubSeq(buffers[2], m + 1, Len(buffers[2])), (Len(tmp) + Len(Left)) + m)
          /\ Len(SubSeq(buffers[2], m + 1, Len(buffers[2]))) = Len(buffers[2]) - m
      <4> HIDE DEF m
      <4> QED
        BY <1>1, <3>1, Taken
    <3> QED
      BY <3>2, <3>3
  <2>6. /\ (Len(tmp) + Len(Left)) + m = Len(tmp') + Len(Left')
        /\ Len(tmp') + Len(Left') + Len(buffers'[2]) = Size(run)
    BY <1>1, <1>2, <1>6, <1>8, <2>4, <2>5
  <2> QED
    BY <1>1, <1>8, <2>3, <2>4, <2>5, <2>6, ZenonT(40) DEF SavingInv, Continues, Size
<1>11. CASE n = Len(rest)
  <2>1. Cache!NextBuffer(n) = 3
    BY <1>b, <1>c, <1>11
  <2>2. saving' = "close"
    BY <1>5, <2>1
  <2>3. Len(tmp') = Size(run)
    BY <1>1, <1>2, <1>3, <1>8, <1>11
  <2>4. tmp' = Cache!Image(run)
    <3>1. Cache!Image(run) \in Seq(Bytes) /\ Len(Cache!Image(run)) = Size(run)
            /\ \A i \in 1 .. Size(run) : Cache!Image(run)[i] = <<run, i>>
      BY <1>1, ImageProperties
    <3>2. tmp' \in Seq(Bytes) /\ \A i \in 1 .. Size(run) : tmp'[i] = <<run, 0 + i>>
      BY <1>8, <2>3 DEF Continues
    <3>3. \A i \in 1 .. Size(run) : 0 + i = i
      BY <1>2
    <3> QED
      BY <2>3, <3>1, <3>2, <3>3, SeqEqual
  <2> QED
    BY <1>1, <2>2, <2>4 DEF SavingInv, Cache!Image
<1>12. n < Len(Left) \/ (Len(Left) <= n /\ n < Len(rest)) \/ n = Len(rest)
  BY ONLY <1>b
<1> QED
  BY <1>9, <1>10, <1>11, <1>12

(* What is on disk, or can come back, are remains of an image: a rename    *)
(* adds the image of the run, and a power cut damages what there is.       *)
LEMMA DiskStep ==
    ASSUME SizeAssumption, CacheInv, [Cache!CacheNext]_(Cache!cacheVars)
    PROVE  DiskInv'
<1>1. run \in 0 .. Len(PayloadSize) /\ bin \in unsynced /\ Len(PayloadSize) \in Nat
  BY LenProperties DEF CacheInv, CacheTypeOK, DiskInv, SizeAssumption
<1>2. \A content \in unsynced : content = Cache!Missing \/ \E r \in 1 .. run : Remains(content, r)
  BY DEF CacheInv, DiskInv
<1>3. CASE UNCHANGED <<bin, unsynced>> /\ run' \in {run, run + 1}
  <2>1. \A r \in 1 .. run : r \in 1 .. run'
    BY <1>1, <1>3
  <2> QED
    BY <1>1, <1>2, <1>3, <2>1 DEF DiskInv, Remains, Size
<1>4. CASE Cache!Rename
  <2>1. /\ tmp = Cache!Image(run) /\ run \in Runs /\ run \in 1 .. run
        /\ bin' = tmp /\ unsynced' = unsynced \cup {tmp} /\ UNCHANGED run
    BY <1>1, <1>4 DEF CacheInv, CacheTypeOK, SavingInv, Cache!Rename, Runs
  <2>2. Remains(tmp, run)
    <3>1. /\ tmp \in Seq(Bytes) /\ Len(tmp) = Size(run) /\ Size(run) \in Nat
          /\ \A i \in 1 .. Size(run) : tmp[i] = <<run, i>>
      BY <2>1, ImageProperties
    <3>2. Len(tmp) <= Size(run)
      BY ONLY <3>1
    <3>3. \A i \in 1 .. Len(tmp) : tmp[i] \in {<<run, i>>, Cache!Hole}
      BY ONLY <3>1
    <3> QED
      BY <3>1, <3>2, <3>3 DEF Remains
  <2> QED
    BY <1>2, <2>1, <2>2 DEF DiskInv, Remains, Size
<1>5. CASE Cache!PowerCut
  <2>1. UNCHANGED run /\ unsynced' = {bin'}
          /\ bin' \in UNION {Cache!Damaged(content) : content \in unsynced}
    BY <1>5 DEF Cache!PowerCut
  <2>2. PICK content \in unsynced : bin' \in Cache!Damaged(content)
    BY <2>1
  <2>3. bin' = Cache!Missing \/ \E r \in 1 .. run : Remains(bin', r)
    <3>1. CASE content = Cache!Missing
      BY <2>2, <3>1, DamagedMissing
    <3>2. ASSUME NEW r \in 1 .. run, Remains(content, r)
          PROVE  Remains(bin', r)
      <4>1. r \in Runs
        BY <1>1 DEF Runs
      <4> QED
        BY <2>2, <3>2, <4>1, DamagedRemains
    <3> QED
      BY <1>2, <3>1, <3>2
  <2> QED
    BY <2>1, <2>3 DEF DiskInv, Remains, Size
<1> QED
  BY <1>3, <1>4, <1>5
     DEF Cache!CacheNext, Cache!cacheVars, Cache!Start, Cache!Leave, Cache!Open, Cache!Write,
         Cache!Close, Cache!CallFails, Cache!RenameFails, Cache!Remove, Cache!Kill

(* Every action keeps the temporary file a prefix of the image.            *)
LEMMA SavingStep ==
    ASSUME SizeAssumption, CacheInv, [Cache!CacheNext]_(Cache!cacheVars)
    PROVE  SavingInv'
<1>1. CASE saving' \notin {"write", "close", "rename"}
  BY <1>1 DEF SavingInv
<1>2. CASE UNCHANGED Cache!cacheVars
  BY <1>2 DEF CacheInv, SavingInv, Continues, Left, Cache!Image, Size, Cache!cacheVars, Cache!writer
<1>3. CASE Cache!Open
  <2>1. /\ run \in Runs /\ UNCHANGED run /\ saving' = "write" /\ tmp' = <<>> /\ next' = 1
        /\ buffers' = <<SubSeq(Cache!Image(run), 1, Cache!HeaderSize),
                        SubSeq(Cache!Image(run), Cache!HeaderSize + 1, Len(Cache!Image(run)))>>
    BY <1>3 DEF Cache!Open, CacheInv, CacheTypeOK, Runs, Cache!Missing
  <2>2. /\ DOMAIN buffers' = {1, 2}
        /\ Left' = SubSeq(Cache!Image(run), 1, Cache!HeaderSize)
        /\ buffers'[2] = SubSeq(Cache!Image(run), Cache!HeaderSize + 1, Len(Cache!Image(run)))
    <3> DEFINE header == SubSeq(Cache!Image(run), 1, Cache!HeaderSize)
               payload == SubSeq(Cache!Image(run), Cache!HeaderSize + 1, Len(Cache!Image(run)))
    <3>1. next' = 1 /\ buffers' = <<header, payload>>
      BY <2>1
    <3> HIDE DEF header, payload
    <3>2. DOMAIN buffers' = {1, 2} /\ buffers'[1] = header /\ buffers'[2] = payload
      BY <3>1
    <3> QED
      BY <3>1, <3>2 DEF Left, header, payload
  <2>3. /\ Size(run) \in Nat /\ Size(run) >= 2
        /\ Continues(Cache!Image(run), 0) /\ Len(Cache!Image(run)) = Size(run)
    <3>1. \A i \in Nat : 0 + i = i
      OBVIOUS
    <3> QED
      BY <2>1, <3>1, ImageProperties DEF Continues
  <2>4. /\ Continues(Left', 0) /\ Len(Left') = 2
        /\ Continues(buffers'[2], 0 + 2) /\ Len(buffers'[2]) = Size(run) - 2
    <3>1. 2 \in 0 .. Len(Cache!Image(run)) /\ Cache!HeaderSize = 2
      BY <2>3 DEF Cache!HeaderSize
    <3> QED
      BY <2>2, <2>3, <3>1, Taken
  <2>5. Len(tmp') = 0 /\ Continues(tmp', 0)
    BY <2>1, EmptySeq DEF Continues
  <2>6. /\ Continues(Left', Len(tmp')) /\ Continues(buffers'[2], Len(tmp') + Len(Left'))
        /\ Len(tmp') + Len(Left') + Len(buffers'[2]) = Size(run)
    BY <2>3, <2>4, <2>5
  <2> QED
    BY <2>1, <2>2, <2>5, <2>6, ZenonT(40) DEF SavingInv, Continues, Size
<1>4. CASE Cache!Write
  BY <1>4, WriteKeepsImage
<1>5. CASE Cache!Close
  BY <1>5 DEF CacheInv, SavingInv, Cache!Close, Cache!Image
<1> QED
  BY <1>1, <1>2, <1>3, <1>4, <1>5
     DEF Cache!CacheNext, Cache!Start, Cache!Leave, Cache!CallFails, Cache!Rename,
         Cache!RenameFails, Cache!Remove, Cache!Kill, Cache!PowerCut

(* The invariant of the saves.                                             *)
LEMMA CacheInvariant ==
    ASSUME SizeAssumption
    PROVE  Cache!CacheSpec => []CacheInv
<1>1. Cache!CacheInit => CacheInv
  BY LenProperties DEF Cache!CacheInit, CacheInv, CacheTypeOK, DiskInv, SavingInv, SizeAssumption
<1>2. CacheInv /\ [Cache!CacheNext]_(Cache!cacheVars) => CacheInv'
  <2> SUFFICES ASSUME CacheInv, [Cache!CacheNext]_(Cache!cacheVars) PROVE CacheInv'
    OBVIOUS
  <2>1. CacheTypeOK'
    <3>1. Len(PayloadSize) \in Nat /\ CacheTypeOK
      BY LenProperties DEF CacheInv, SizeAssumption
    <3>2. CASE UNCHANGED Cache!cacheVars
      BY <3>1, <3>2 DEF CacheTypeOK, Cache!cacheVars, Cache!writer
    <3>3. CASE Cache!Start
      BY <3>1, <3>3 DEF CacheTypeOK, Cache!Start
    <3>4. CASE Cache!PowerCut
      BY <3>1, <3>4 DEF CacheTypeOK, Cache!PowerCut
    <3>5. CASE Cache!Write
      BY <3>1, <3>5 DEF CacheTypeOK, Cache!Write
    <3>6. CASE Cache!Leave \/ Cache!Open \/ Cache!Close \/ Cache!Rename \/ Cache!CallFails
                 \/ Cache!RenameFails \/ Cache!Remove \/ Cache!Kill
      BY <3>1, <3>6
         DEF CacheTypeOK, Cache!Leave, Cache!Open, Cache!Close, Cache!Rename, Cache!CallFails,
             Cache!RenameFails, Cache!Remove, Cache!Kill
    <3> QED
      BY <3>2, <3>3, <3>4, <3>5, <3>6 DEF Cache!CacheNext
  <2> QED
    BY <2>1, DiskStep, SavingStep DEF CacheInv
<1> QED
  BY <1>1, <1>2, PTL DEF Cache!CacheSpec

-----------------------------------------------------------------------------
(* The cache file implements the atomic cell: between partial writes,      *)
(* failing calls, kills and power cuts, what a run reads is the whole of   *)
(* what one run saved, the latest unless the power went, or nothing.       *)
LEMMA CacheFileIsAtomic ==
    ASSUME SizeAssumption
    PROVE  Cache!CacheSpec => Cache!CacheIsAtomic
<1>1. Cache!CacheInit => Cache!Atomic!Init
  BY HoldsMissing DEF Cache!CacheInit, Cache!Atomic!Init
<1>2. CacheInv /\ CacheInv' /\ [Cache!CacheNext]_(Cache!cacheVars)
        => [Cache!Atomic!Next]_<<Cache!Holds(bin), loaded, run, cuts>>
  <2> SUFFICES ASSUME CacheInv, CacheInv', [Cache!CacheNext]_(Cache!cacheVars)
               PROVE  Cache!Atomic!Next \/ UNCHANGED <<Cache!Holds(bin), loaded, run, cuts>>
    OBVIOUS
  <2>1. CASE UNCHANGED <<bin, loaded, run, cuts>>
    BY <2>1
  <2>2. CASE Cache!Start
    BY <2>2 DEF Cache!Start, Cache!Atomic!Next, Cache!Atomic!Start
  <2>3. CASE Cache!Rename
    <3>1. /\ run \in Runs /\ bin' = Cache!Image(run) /\ UNCHANGED <<loaded, run, cuts>>
      BY <2>3 DEF Cache!Rename, CacheInv, CacheTypeOK, SavingInv, Runs
    <3>2. Cache!Holds(bin') = run
      BY <3>1, HoldsImage
    <3> QED
      BY <3>1, <3>2 DEF Cache!Atomic!Next, Cache!Atomic!Save
  <2>4. CASE Cache!PowerCut
    <3>1. UNCHANGED <<loaded, run>> /\ cuts' = cuts + 1
      BY <2>4 DEF Cache!PowerCut
    <3>2. Cache!Holds(bin') \in 0 .. run
      <4>1. run \in Nat /\ run <= Len(PayloadSize) /\ Len(PayloadSize) \in Nat
        BY LenProperties DEF CacheInv, CacheTypeOK, SizeAssumption
      <4>2. bin' = Cache!Missing \/ \E r \in 1 .. run : Remains(bin', r)
        BY <3>1 DEF CacheInv, DiskInv, Remains, Size
      <4>3. CASE bin' = Cache!Missing
        BY <4>1, <4>3, HoldsMissing
      <4>4. ASSUME NEW r \in 1 .. run, Remains(bin', r)
            PROVE  Cache!Holds(bin') \in 0 .. run
        <5>1. r \in Runs
          BY <4>1 DEF Runs
        <5>2. Cache!Holds(bin') \in {0, r}
          BY <4>4, <5>1, HoldsRemains
        <5> QED
          BY <4>1, <5>2
      <4> QED
        BY <4>2, <4>3, <4>4
    <3> QED
      BY <3>1, <3>2 DEF Cache!Atomic!Next, Cache!Atomic!LosePower
  <2> QED
    BY <2>1, <2>2, <2>3, <2>4
       DEF Cache!CacheNext, Cache!cacheVars, Cache!Leave, Cache!Open, Cache!Write, Cache!Close,
           Cache!CallFails, Cache!RenameFails, Cache!Remove, Cache!Kill
<1> QED
  BY <1>1, <1>2, CacheInvariant, PTL DEF Cache!CacheSpec, Cache!CacheIsAtomic, Cache!Atomic!Spec

-----------------------------------------------------------------------------
(***************************************************************************)
(* The times of the sources.                                               *)
(***************************************************************************)
(* Edges lead to what steps make.                                          *)
SourcesAssumption ==
    /\ Graphs \subseteq Seq([out : Seq(Nat), produced : BOOLEAN])
    /\ \A g \in Graphs : \A u \in DOMAIN g : \A e \in DOMAIN g[u].out :
         g[u].out[e] \in DOMAIN g /\ g[g[u].out[e]].produced
    /\ Times \subseteq Nat \ {0} /\ ThreadCounts \subseteq Nat /\ StatsPerThread \in Nat \ {0}

SummaryType == [newest : Nat, missing : BOOLEAN, any : BOOLEAN]
Nodes == DOMAIN vertices

SourceTypeOK ==
    /\ vertices \in Graphs /\ file \in [Nodes -> Times \cup {0}]
    /\ at \in Nat \ {0} /\ edge \in Nat
    /\ sources \in [Nodes -> SummaryType]
    /\ producedIn \in [Nodes -> Seq(Nodes)]
    /\ stage = "ready" => at \notin Nodes

(* A source has been looked at when its summary is its file's time.        *)
IsRead(n) == sources[n].newest = file[n] /\ (sources[n].missing <=> file[n] = 0)

(* Every source that is pending was looked at, or some thread will.        *)
Ahead(t, i) == ranges[t][1] < i /\ i <= ranges[t][2]
StatInv ==
    stage = "stat" =>
        /\ pending \in Seq(Nodes)
        /\ \A i \in DOMAIN pending : Sources!IsSource(pending[i])
        /\ \A n \in Nodes : Sources!IsSource(n) => \E i \in DOMAIN pending : pending[i] = n
        /\ \A t \in DOMAIN ranges : ranges[t] \in Nat \X Nat /\ ranges[t][2] <= Len(pending)
        /\ \A i \in DOMAIN pending : IsRead(pending[i]) \/ \E t \in DOMAIN ranges : Ahead(t, i)
ReadInv == stage \in {"summarise", "ready"} => \A n \in Nodes : Sources!IsSource(n) => IsRead(n)

(* What a summary says is what the edges passed so far lead to.            *)
Passed(u, e) == u < at \/ (u = at /\ e <= edge)
Into(u, n) == \E e \in DOMAIN vertices[u].out : vertices[u].out[e] = n /\ Passed(u, e)
SourcesInto(n) == {u \in Nodes : ~vertices[u].produced /\ Into(u, n)}
StepsInto(n) == {u \in Nodes : vertices[u].produced /\ Into(u, n)}
Sums(n) ==
    /\ sources[n].any <=> SourcesInto(n) # {}
    /\ sources[n].missing <=> \E u \in SourcesInto(n) : file[u] = 0
    /\ \A time \in Times : sources[n].newest >= time <=> \E u \in SourcesInto(n) : file[u] >= time
    /\ \A u \in Nodes : (\E i \in DOMAIN producedIn[n] : producedIn[n][i] = u) <=> u \in StepsInto(n)
SumInv == \A n \in Nodes : vertices[n].produced => Sums(n)

SourceInv == SourceTypeOK /\ StatInv /\ ReadInv /\ SumInv

(* Division by a chunk rounds down.                                        *)
LEMMA Quotient ==
    ASSUME NEW a \in Nat, NEW c \in Nat, c > 0
    PROVE  /\ a \div c \in Nat
           /\ c * (a \div c) <= a /\ a < c * (a \div c) + c
<1> DEFINE q == a \div c
           r == a % c
<1>1. a = c * q + r /\ r \in 0 .. c - 1 /\ q \in Int
  OBVIOUS
<1> HIDE DEF q, r
<1>2. c * q \in Int /\ c * q <= a /\ a < c * q + c
  BY <1>1
<1>3. q >= 0
  <2> SUFFICES ASSUME q <= -1 PROVE FALSE
    BY <1>1
  <2>1. c * q <= c * (-1)
    BY <1>1
  <2> QED
    BY <1>1, <1>2, <2>1
<1> QED
  BY <1>1, <1>2, <1>3 DEF q

(* Chunks cover the list, and none goes past its end.                      *)
LEMMA ChunksCover ==
    ASSUME NEW total \in Nat, NEW workers \in Nat, workers <= total
    PROVE  /\ \A t \in DOMAIN Sources!Ranges(total, workers) :
                 /\ Sources!Ranges(total, workers)[t] \in Nat \X Nat
                 /\ Sources!Ranges(total, workers)[t][2] <= total
           /\ \A i \in 1 .. total : \E t \in DOMAIN Sources!Ranges(total, workers) :
                 Sources!Ranges(total, workers)[t][1] < i /\ i <= Sources!Ranges(total, workers)[t][2]
<1>1. CASE workers <= 1
  <2>1. Sources!Ranges(total, workers) = <<<<0, total>>>>
    BY <1>1 DEF Sources!Ranges
  <2> QED
    BY <2>1
<1>2. CASE workers > 1
  <2> DEFINE c == Sources!ChunkSize(total, workers)
             k == Sources!ChunkSize(total, c)
             R == [t \in 1 .. k |-> <<(t - 1) * c, Sources!Smaller(t * c, total)>>]
  <2>1. Sources!Ranges(total, workers) = R
    BY <1>2 DEF Sources!Ranges
  <2>2. c \in Nat /\ c > 0 /\ total > 0
    <3>1. total + workers - 1 \in Nat /\ workers > 0
      BY <1>2
    <3>2. c \in Nat /\ workers * c <= total + workers - 1 /\ total + workers - 1 < workers * c + workers
      BY <3>1, Quotient DEF Sources!ChunkSize
    <3> HIDE DEF c
    <3>3. total > 0 /\ c # 0
      BY <1>2, <3>1, <3>2
    <3> QED
      BY <3>2, <3>3
  <2> HIDE DEF c
  <2>3. QED
    <3>1. k \in Nat /\ total + c - 1 < c * k + c
      <4>1. total + c - 1 \in Nat /\ c > 0
        BY <2>2
      <4> QED
        BY <2>2, <4>1, Quotient DEF Sources!ChunkSize
    <3> HIDE DEF k
    <3>2. ASSUME NEW t \in 1 .. k
          PROVE  /\ R[t] = <<(t - 1) * c, Sources!Smaller(t * c, total)>> /\ (t - 1) * c \in Nat
                 /\ t * c \in Nat
      BY <2>2, <3>1
    <3>3. ASSUME NEW t \in 1 .. k PROVE R[t] \in Nat \X Nat /\ R[t][2] <= total
      BY <3>2 DEF Sources!Smaller
    <3>4. ASSUME NEW i \in 1 .. total PROVE \E t \in 1 .. k : R[t][1] < i /\ i <= R[t][2]
      <4> DEFINE q == (i - 1) \div c
      <4>1. q \in Nat /\ c * q <= i - 1 /\ i - 1 < c * q + c
        BY <2>2, Quotient
      <4> HIDE DEF q
      <4>2. q + 1 <= k
        <5> SUFFICES ASSUME q >= k PROVE FALSE
          BY <3>1, <4>1
        <5>1. c * q >= c * k
          BY <2>2, <3>1, <4>1
        <5> QED
          BY <2>2, <3>1, <4>1, <5>1
      <4>3. q + 1 \in 1 .. k
        BY <3>1, <4>1, <4>2
      <4>4. PICK t \in 1 .. k : t = q + 1
        BY <4>3
      <4>5. (t - 1) * c = c * q /\ t * c = c * q + c
        BY <2>2, <4>1, <4>4
      <4>6. R[t] = <<(t - 1) * c, Sources!Smaller(t * c, total)>>
        OBVIOUS
      <4> HIDE DEF R
      <4>7. R[t] = <<c * q, Sources!Smaller(c * q + c, total)>>
        BY ONLY <4>5, <4>6
      <4>8. c * q < i /\ i <= Sources!Smaller(c * q + c, total)
        BY <2>2, <4>1 DEF Sources!Smaller
      <4> QED
        BY <4>7, <4>8
    <3> QED
      BY <2>1, <3>3, <3>4
<1> QED
  BY <1>1, <1>2

(* The list of the sources to look at.                                     *)
LEMMA PendingLists ==
    ASSUME SourcesAssumption, vertices \in Graphs
    PROVE  /\ Sources!Pending \in Seq(Nodes)
           /\ \A i \in DOMAIN Sources!Pending : Sources!IsSource(Sources!Pending[i])
           /\ \A n \in Nodes : Sources!IsSource(n)
                  => \E i \in DOMAIN Sources!Pending : Sources!Pending[i] = n
<1> DEFINE N == Len(vertices)
           S == Seq(Nodes)
           Body(f) == [n \in 0 .. N |->
                          IF n = 0 THEN <<>>
                          ELSE IF Sources!IsSource(n) THEN Append(f[n - 1], n) ELSE f[n - 1]]
           upTo == CHOOSE f : f = Body(f)
           step == [n \in 1 .. N |-> [s \in S |-> IF Sources!IsSource(n) THEN Append(s, n) ELSE s]]
<1>1. N \in Nat /\ Nodes = 1 .. N
  BY DEF SourcesAssumption, Nodes
<1>2. <<>> \in S /\ \A s \in S : \A n \in Nodes : Append(s, n) \in S
  OBVIOUS
<1> HIDE DEF N, S
<1>3. step \in [1 .. N -> [S -> S]]
  BY <1>1, <1>2
<1>4. PICK f \in [0 .. N -> S] : Iterates(f, N, <<>>, step)
  <2> HIDE DEF step
  <2> QED
    BY ONLY <1>1, <1>2, <1>3, StepsExist
<1>5. f = Body(f)
  <2>1. ASSUME NEW n \in 0 .. N
        PROVE  (IF n = 0 THEN <<>> ELSE step[n][f[n - 1]])
                 = IF n = 0 THEN <<>>
                   ELSE IF Sources!IsSource(n) THEN Append(f[n - 1], n) ELSE f[n - 1]
    <3>1. CASE n = 0
      BY <3>1
    <3>2. CASE n # 0
      <4>1. n \in 1 .. N /\ f[n - 1] \in S
        BY <1>1, <1>4, <3>2
      <4> QED
        BY <3>2, <4>1
    <3> QED
      BY <3>1, <3>2
  <2> HIDE DEF step
  <2> QED
    BY <1>4, <2>1 DEF Iterates
<1>6. upTo = Body(upTo)
  <2> HIDE DEF Body
  <2> QED
    BY <1>5
<1>7. Sources!Pending = upTo[N]
  BY DEF Sources!Pending, N
<1> HIDE DEF upTo
<1>8. upTo[0] = <<>> /\ \A n \in 1 .. N :
        upTo[n] = IF Sources!IsSource(n) THEN Append(upTo[n - 1], n) ELSE upTo[n - 1]
  <2>1. \A n \in 0 .. N : upTo[n] = Body(upTo)[n]
    <3> HIDE DEF Body
    <3> QED
      BY <1>6
  <2>2. 0 \in 0 .. N /\ \A n \in 1 .. N : n \in 0 .. N /\ n # 0
    BY <1>1
  <2> QED
    BY <2>1, <2>2
<1> HIDE DEF Body
<1> DEFINE Lists(n) ==
             /\ upTo[n] \in S
             /\ \A i \in DOMAIN upTo[n] : Sources!IsSource(upTo[n][i])
             /\ \A m \in 1 .. n : Sources!IsSource(m) => \E i \in DOMAIN upTo[n] : upTo[n][i] = m
           Bad == {n \in 0 .. N : ~Lists(n)}
<1>9. ASSUME NEW n \in 1 .. N, Lists(n - 1) PROVE Lists(n)
  <2> DEFINE s == upTo[n - 1]
  <2>1. n \in Nodes /\ s \in S /\ n - 1 \in Nat
    BY <1>1, <1>9
  <2>2. CASE ~Sources!IsSource(n)
    <3>1. upTo[n] = s
      BY <1>8, <2>2
    <3>2. ASSUME NEW m \in 1 .. n, Sources!IsSource(m) PROVE m \in 1 .. n - 1
      BY <2>1, <2>2, <3>2
    <3> QED
      BY <1>9, <2>1, <3>1, <3>2
  <2>3. CASE Sources!IsSource(n)
    <3>1. upTo[n] = Append(s, n)
      BY <1>8, <2>3
    <3> HIDE DEF s
    <3>2. /\ Append(s, n) \in S
          /\ DOMAIN Append(s, n) = 1 .. Len(s) + 1 /\ DOMAIN s = 1 .. Len(s) /\ Len(s) \in Nat
          /\ Append(s, n)[Len(s) + 1] = n
          /\ \A i \in 1 .. Len(s) : Append(s, n)[i] = s[i]
      BY <2>1 DEF S
    <3>3. /\ \A i \in DOMAIN s : Sources!IsSource(s[i])
          /\ \A m \in 1 .. n - 1 : Sources!IsSource(m) => \E i \in DOMAIN s : s[i] = m
      BY <1>9 DEF s
    <3>4. ASSUME NEW i \in DOMAIN upTo[n] PROVE Sources!IsSource(upTo[n][i])
      BY <2>3, <3>1, <3>2, <3>3
    <3>5. ASSUME NEW m \in 1 .. n, Sources!IsSource(m)
          PROVE  \E i \in DOMAIN upTo[n] : upTo[n][i] = m
      <4>1. CASE m = n
        BY <3>1, <3>2, <4>1
      <4>2. CASE m # n
        <5>1. m \in 1 .. n - 1
          BY <2>1, <4>2
        <5>2. PICK i \in DOMAIN s : s[i] = m
          BY <3>3, <3>5, <5>1
        <5> QED
          BY <3>1, <3>2, <5>2
      <4> QED
        BY <4>1, <4>2
    <3> QED
      BY <3>1, <3>2, <3>4, <3>5
  <2> QED
    BY <2>2, <2>3
<1>10. Lists(0)
  BY <1>2, <1>8
<1>11. Bad = {}
  <2> SUFFICES ASSUME Bad # {} PROVE FALSE
    OBVIOUS
  <2>1. PICK n \in Bad : \A k \in Bad : n <= k
    <3>1. Bad \subseteq Nat
      OBVIOUS
    <3> HIDE DEF Bad
    <3> QED
      BY <3>1, LeastNumber
  <2>2. n \in 0 .. N /\ ~Lists(n)
    BY <2>1
  <2> HIDE DEF Lists
  <2>3. n # 0
    BY <1>10, <2>2
  <2>4. n \in 1 .. N /\ n - 1 \in 0 .. N /\ n - 1 < n
    BY <1>1, <2>2, <2>3
  <2>5. Lists(n - 1)
    BY <2>1, <2>4
  <2> QED
    BY <1>9, <2>2, <2>4, <2>5
<1>12. Lists(N)
  <2> HIDE DEF Lists
  <2>1. N \in 0 .. N
    BY <1>1
  <2> QED
    BY <1>11, <2>1
<1> QED
  BY <1>1, <1>7, <1>12 DEF S

-----------------------------------------------------------------------------
(* What the graphs are.                                                    *)
LEMMA GraphShape ==
    ASSUME SourcesAssumption, vertices \in Graphs
    PROVE  /\ Len(vertices) \in Nat /\ Nodes = 1 .. Len(vertices)
           /\ \A u \in Nodes :
                /\ vertices[u].produced \in BOOLEAN
                /\ Len(vertices[u].out) \in Nat
                /\ DOMAIN vertices[u].out = 1 .. Len(vertices[u].out)
                /\ (vertices[u].out = <<>> <=> Len(vertices[u].out) = 0)
                /\ \A e \in DOMAIN vertices[u].out :
                     vertices[u].out[e] \in Nodes /\ vertices[vertices[u].out[e]].produced
<1>1. vertices \in Seq([out : Seq(Nat), produced : BOOLEAN])
  BY DEF SourcesAssumption
<1>2. \A u \in Nodes : vertices[u] \in [out : Seq(Nat), produced : BOOLEAN]
  <2> DEFINE T == [out : Seq(Nat), produced : BOOLEAN]
  <2>1. vertices \in Seq(T)
    BY <1>1
  <2> HIDE DEF T
  <2>2. \A u \in Nodes : vertices[u] \in T
    BY <2>1, ElementOfSeq, LenProperties DEF Nodes
  <2> QED
    BY <2>2 DEF T
<1>3. \A u \in Nodes : vertices[u].out \in Seq(Nat) /\ vertices[u].produced \in BOOLEAN
  BY <1>2
<1>4. \A u \in Nodes : \A e \in DOMAIN vertices[u].out :
         vertices[u].out[e] \in Nodes /\ vertices[vertices[u].out[e]].produced
  BY DEF SourcesAssumption, Nodes
<1>5. Len(vertices) \in Nat /\ Nodes = 1 .. Len(vertices)
  BY <1>1, LenProperties DEF Nodes
<1> QED
  BY <1>3, <1>4, <1>5

(* No edge is passed at first.                                             *)
LEMMA SourceInvInit ==
    ASSUME SourcesAssumption, Sources!SourceInit
    PROVE  SourceInv
<1>1. /\ vertices \in Graphs /\ file \in [Nodes -> Times \cup {0}]
      /\ stage = "divide" /\ at = 1 /\ edge = 0
      /\ sources = [n \in Nodes |-> Sources!NoSummary]
      /\ producedIn = [n \in Nodes |-> <<>>]
  BY DEF Sources!SourceInit, Nodes
<1>2. SourceTypeOK
  <2>1. Sources!NoSummary \in SummaryType /\ <<>> \in Seq(Nodes)
    BY DEF Sources!NoSummary, SummaryType
  <2> QED
    BY <1>1, <2>1 DEF SourceTypeOK
<1>3. ASSUME NEW n \in Nodes PROVE Sums(n)
  <2>1. SourcesInto(n) = {} /\ StepsInto(n) = {}
    <3>1. \A u \in Nodes : ~Into(u, n)
      <4>1. \A u \in Nodes : u \in Nat /\ u > 0 /\ \A e \in DOMAIN vertices[u].out : e \in Nat /\ e > 0
        BY <1>1, GraphShape
      <4> QED
        BY <1>1, <4>1 DEF Into, Passed
    <3> QED
      BY <3>1 DEF SourcesInto, StepsInto
  <2>2. sources[n] = Sources!NoSummary /\ producedIn[n] = <<>>
    BY <1>1
  <2>3. \A time \in Times : ~(Sources!NoSummary.newest >= time)
    BY DEF SourcesAssumption, Sources!NoSummary
  <2> QED
    BY <2>1, <2>2, <2>3 DEF Sums, Sources!NoSummary
<1> QED
  BY <1>1, <1>2, <1>3 DEF SourceInv, StatInv, ReadInv, SumInv

(* Sums are about the edges passed, the summaries and the times of files.  *)
LEMMA SumsStay ==
    ASSUME SumInv, UNCHANGED <<vertices, file, at, edge, producedIn>>,
           \A n \in Nodes : vertices[n].produced => sources'[n] = sources[n]
    PROVE  SumInv'
<1>1. Nodes' = Nodes
  BY DEF Nodes
<1>2. \A n : SourcesInto(n)' = SourcesInto(n) /\ StepsInto(n)' = StepsInto(n)
  BY DEF SourcesInto, StepsInto, Into, Passed, Nodes
<1>3. ASSUME NEW n \in Nodes, vertices[n].produced PROVE Sums(n)'
  <2>1. Sums(n) /\ sources'[n] = sources[n]
    BY <1>3 DEF SumInv
  <2> QED
    BY <1>1, <1>2, <2>1 DEF Sums
<1> QED
  BY <1>1, <1>3 DEF SumInv

(* The division.                                                           *)
LEMMA DivideKeeps ==
    ASSUME SourcesAssumption, SourceInv, Sources!Divide
    PROVE  SourceInv'
<1>1. /\ vertices \in Graphs /\ UNCHANGED <<vertices, file, at, edge, sources, producedIn>>
      /\ stage' = "stat"
  BY DEF SourceInv, SourceTypeOK, Sources!Divide
<1>2. SourceTypeOK' /\ ReadInv'
  BY <1>1 DEF SourceInv, SourceTypeOK, ReadInv, Nodes
<1>3. SumInv'
  BY <1>1, SumsStay DEF SourceInv
<1>4. Len(Sources!Pending) \in Nat
  BY <1>1, PendingLists
<1>5. PICK threads \in ThreadCounts :
         ranges' = Sources!Ranges(Len(Sources!Pending),
                     Sources!Smaller(threads, Len(Sources!Pending) \div StatsPerThread))
  BY DEF Sources!Divide
<1> DEFINE most == Len(Sources!Pending) \div StatsPerThread
           workers == Sources!Smaller(threads, most)
<1>6. workers \in Nat /\ workers <= Len(Sources!Pending)
  <2>1. StatsPerThread \in Nat /\ StatsPerThread > 0 /\ threads \in Nat
    BY DEF SourcesAssumption
  <2>2. most \in Nat /\ StatsPerThread * most <= Len(Sources!Pending)
    BY <1>4, <2>1, Quotient
  <2> HIDE DEF most
  <2>3. most <= StatsPerThread * most
    BY <2>1, <2>2
  <2>4. most <= Len(Sources!Pending)
    BY <1>4, <2>1, <2>2, <2>3
  <2> QED
    BY <2>1, <2>2, <2>4 DEF Sources!Smaller
<1> HIDE DEF workers
<1>7. ranges' = Sources!Ranges(Len(Sources!Pending), workers) /\ pending' = Sources!Pending
  BY <1>5 DEF Sources!Divide, workers
<1>8. StatInv'
  <2> DEFINE R == Sources!Ranges(Len(Sources!Pending), workers)
  <2>1. /\ \A t \in DOMAIN R : R[t] \in Nat \X Nat /\ R[t][2] <= Len(Sources!Pending)
        /\ \A i \in 1 .. Len(Sources!Pending) : \E t \in DOMAIN R : R[t][1] < i /\ i <= R[t][2]
    BY <1>4, <1>6, ChunksCover
  <2>2. DOMAIN Sources!Pending = 1 .. Len(Sources!Pending)
    BY <1>1, PendingLists
  <2> HIDE DEF R
  <2>3. ranges' = R
    BY <1>7 DEF R
  <2>4. Nodes' = Nodes /\ \A n : Sources!IsSource(n)' <=> Sources!IsSource(n)
    BY <1>1 DEF Nodes, Sources!IsSource
  <2>5. \A i \in DOMAIN Sources!Pending : \E t \in DOMAIN R : Ahead(t, i)'
    BY <2>1, <2>2, <2>3 DEF Ahead
  <2> QED
    BY <1>1, <1>7, <2>1, <2>3, <2>4, <2>5, PendingLists DEF StatInv
<1> QED
  BY <1>2, <1>3, <1>8 DEF SourceInv

(* A thread looks at its next source.                                      *)
LEMMA StatKeeps ==
    ASSUME SourcesAssumption, SourceInv, NEW t \in DOMAIN ranges, Sources!StatNext(t)
    PROVE  SourceInv'
<1>1. SourceTypeOK /\ StatInv /\ SumInv
  BY DEF SourceInv
<1>2. UNCHANGED <<vertices, file, stage, at, edge, pending, producedIn>>
      /\ stage = "stat" /\ ranges[t][1] < ranges[t][2]
  BY DEF Sources!StatNext
<1>3. Nodes' = Nodes /\ \A m : Sources!IsSource(m)' <=> Sources!IsSource(m)
  BY <1>2 DEF Nodes, Sources!IsSource
<1>4. PICK i \in DOMAIN pending, n \in Nodes :
         i = ranges[t][1] + 1 /\ n = pending[i] /\ Sources!IsSource(n) /\ i \in Nat
  <2> DEFINE j == ranges[t][1] + 1
  <2>1. pending \in Seq(Nodes) /\ ranges[t] \in Nat \X Nat /\ ranges[t][2] <= Len(pending)
    BY <1>1, <1>2 DEF StatInv
  <2>2. j \in Nat /\ j > 0 /\ j <= Len(pending)
    BY <1>2, <2>1
  <2>3. j \in DOMAIN pending
    BY <2>1, <2>2
  <2> HIDE DEF j
  <2>4. pending[j] \in Nodes /\ Sources!IsSource(pending[j])
    BY <1>1, <1>2, <2>1, <2>3 DEF StatInv
  <2> QED
    BY <2>2, <2>3, <2>4 DEF j
<1> DEFINE new == [sources[n] EXCEPT !.newest = file[n], !.missing = file[n] = 0]
<1>5. new \in SummaryType /\ new.newest = file[n] /\ (new.missing <=> file[n] = 0)
  <2>1. sources[n] \in SummaryType
    BY <1>1 DEF SourceTypeOK
  <2>2. file[n] \in Nat
    <3>1. file \in [Nodes -> Times \cup {0}]
      BY <1>1 DEF SourceTypeOK
    <3>2. Times \cup {0} \subseteq Nat
      BY DEF SourcesAssumption
    <3> QED
      BY ONLY <3>1, <3>2
  <2> QED
    BY <2>1, <2>2 DEF SummaryType
<1>6. sources' = [sources EXCEPT ![n] = new]
  BY <1>4 DEF Sources!StatNext
<1>7. ranges' = [ranges EXCEPT ![t] = <<i, ranges[t][2]>>]
  <2>1. ranges[t] \in Nat \X Nat
    BY <1>1, <1>2 DEF StatInv
  <2>2. [ranges[t] EXCEPT ![1] = ranges[t][1] + 1] = <<i, ranges[t][2]>>
    BY <1>4, <2>1
  <2>3. ranges' = [ranges EXCEPT ![t] = [ranges[t] EXCEPT ![1] = ranges[t][1] + 1]]
    BY DEF Sources!StatNext
  <2> QED
    BY <2>2, <2>3
<1>a. sources'[n] = new
  BY <1>1, <1>6 DEF SourceTypeOK
<1> HIDE DEF new
<1>8. SourceTypeOK' /\ ReadInv'
  <2>1. sources' \in [Nodes -> SummaryType]
    BY <1>1, <1>5, <1>6 DEF SourceTypeOK
  <2> QED
    BY <1>1, <1>2, <1>3, <2>1 DEF SourceTypeOK, ReadInv
<1>9. \A m \in Nodes : m # n => sources'[m] = sources[m]
  BY <1>1, <1>6 DEF SourceTypeOK
<1>10. IsRead(n)' /\ \A m \in Nodes : IsRead(m) => IsRead(m)'
  <2>2. IsRead(n)'
    BY <1>2, <1>5, <1>a DEF IsRead
  <2>3. ASSUME NEW m \in Nodes, IsRead(m), m # n PROVE IsRead(m)'
    BY <1>2, <1>9, <2>3 DEF IsRead
  <2> QED
    BY <2>2, <2>3
<1>11. SumInv'
  <2>1. \A m \in Nodes : vertices[m].produced => sources'[m] = sources[m]
    BY <1>4, <1>9 DEF Sources!IsSource
  <2> QED
    BY <1>1, <1>2, <2>1, SumsStay
<1>12. StatInv'
  <2>1. DOMAIN ranges' = DOMAIN ranges /\ ranges'[t] = <<i, ranges[t][2]>>
        /\ \A s \in DOMAIN ranges : s # t => ranges'[s] = ranges[s]
    BY <1>7
  <2>2. ASSUME NEW s \in DOMAIN ranges PROVE ranges'[s] \in Nat \X Nat /\ ranges'[s][2] <= Len(pending)
    <3>1. ranges[s] \in Nat \X Nat /\ ranges[s][2] <= Len(pending)
      BY <1>1, <1>2 DEF StatInv
    <3> QED
      BY <1>4, <2>1, <3>1
  <2>3. ASSUME NEW k \in DOMAIN pending
        PROVE  IsRead(pending[k])' \/ \E s \in DOMAIN ranges : Ahead(s, k)'
    <3>1. pending[k] \in Nodes
      BY <1>1, <1>2 DEF StatInv
    <3>2. CASE IsRead(pending[k])
      BY <1>2, <1>10, <3>1, <3>2 DEF IsRead
    <3>3. CASE k = i
      <4>1. pending'[k] = n
        BY <1>2, <1>4, <3>3
      <4> QED
        BY <1>10, <4>1 DEF IsRead
    <3>4. CASE k # i /\ ~IsRead(pending[k])
      <4>1. PICK s \in DOMAIN ranges : Ahead(s, k)
        BY <1>1, <1>2, <3>4 DEF StatInv
      <4>2. CASE s = t
        <5>1. k \in Nat /\ ranges[t] \in Nat \X Nat
          BY <1>1, <1>2 DEF StatInv
        <5>2. i < k
          BY <1>4, <3>4, <4>1, <4>2, <5>1 DEF Ahead
        <5> QED
          BY <2>1, <4>1, <4>2, <5>2 DEF Ahead
      <4>3. CASE s # t
        BY <2>1, <4>1, <4>3 DEF Ahead
      <4> QED
        BY <4>2, <4>3
    <3> QED
      BY <3>2, <3>3, <3>4
  <2> QED
    BY <1>1, <1>2, <1>3, <2>1, <2>2, <2>3 DEF StatInv
<1> QED
  BY <1>8, <1>11, <1>12 DEF SourceInv

(* When every range is at its end, every source was looked at.             *)
LEMMA JoinKeeps ==
    ASSUME SourcesAssumption, SourceInv, Sources!Join
    PROVE  SourceInv'
<1>1. UNCHANGED <<vertices, file, at, edge, pending, ranges, sources, producedIn>>
      /\ stage = "stat" /\ stage' = "summarise"
  BY DEF Sources!Join
<1>2. SourceTypeOK' /\ StatInv'
  BY <1>1 DEF SourceInv, SourceTypeOK, StatInv, Nodes
<1>3. SumInv'
  BY <1>1, SumsStay DEF SourceInv
<1>4. ASSUME NEW n \in Nodes, Sources!IsSource(n) PROVE IsRead(n)
  <2>1. StatInv
    BY DEF SourceInv
  <2>2. PICK i \in DOMAIN pending : pending[i] = n
    BY <1>1, <1>4, <2>1 DEF StatInv
  <2>3. ASSUME NEW t \in DOMAIN ranges PROVE ~Ahead(t, i)
    <3>1. ranges[t][1] = ranges[t][2] /\ ranges[t] \in Nat \X Nat /\ i \in Nat
      BY <1>1, <2>1 DEF Sources!Join, StatInv
    <3> QED
      BY <3>1 DEF Ahead
  <2> QED
    BY <1>1, <2>1, <2>2, <2>3 DEF StatInv
<1>5. ReadInv'
  BY <1>1, <1>4 DEF ReadInv, Nodes, Sources!IsSource, IsRead
<1> QED
  BY <1>2, <1>3, <1>5 DEF SourceInv

(* An edge is passed: its node counts for the step it leads to.            *)
LEMMA SummariseKeeps ==
    ASSUME SourcesAssumption, SourceInv, Sources!Summarise
    PROVE  SourceInv'
<1>1. SourceTypeOK /\ ReadInv /\ SumInv
  BY DEF SourceInv
<1>2. /\ UNCHANGED <<vertices, file, stage, at, pending, ranges>>
      /\ stage = "summarise" /\ at \in Nodes /\ edge' = edge + 1 /\ edge < Len(vertices[at].out)
  BY DEF Sources!Summarise, Nodes
<1>3. Nodes' = Nodes /\ \A m : Sources!IsSource(m)' <=> Sources!IsSource(m)
  BY <1>2 DEF Nodes, Sources!IsSource
<1>4. at \in Nat /\ edge \in Nat /\ Nodes \subseteq Nat
      /\ \A u \in Nodes : DOMAIN vertices[u].out \subseteq Nat
  BY <1>1, GraphShape DEF SourceTypeOK
<1>5. PICK v \in Nodes : v = vertices[at].out[edge + 1] /\ vertices[v].produced
  <2>1. edge + 1 \in DOMAIN vertices[at].out
    BY <1>1, <1>2, <1>4, GraphShape DEF SourceTypeOK
  <2> QED
    BY <1>1, <1>2, <2>1, GraphShape, ZenonT(30) DEF SourceTypeOK
<1>6. edge + 1 \in DOMAIN vertices[at].out
  BY <1>1, <1>2, <1>4, GraphShape DEF SourceTypeOK
<1>7. ASSUME NEW u \in Nodes, NEW m \in Nodes PROVE Into(u, m)' <=> Into(u, m) \/ (u = at /\ m = v)
  <2>1. ASSUME NEW e \in DOMAIN vertices[u].out
        PROVE  Passed(u, e)' <=> Passed(u, e) \/ (u = at /\ e = edge + 1)
    <3>1. e \in Nat /\ u \in Nat
      BY <1>4
    <3> QED
      BY <1>2, <1>4, <3>1 DEF Passed
  <2>2. Into(u, m)' <=> \E e \in DOMAIN vertices[u].out : vertices[u].out[e] = m /\ Passed(u, e)'
    BY <1>2 DEF Into
  <2> QED
    BY <1>5, <1>6, <2>1, <2>2 DEF Into
<1>8. ASSUME NEW m \in Nodes, m # v
      PROVE  SourcesInto(m)' = SourcesInto(m) /\ StepsInto(m)' = StepsInto(m)
  BY <1>2, <1>3, <1>7, <1>8 DEF SourcesInto, StepsInto
<1>9. CASE vertices[at].produced
  <2>1. /\ producedIn' = [producedIn EXCEPT ![v] = Append(producedIn[v], at)]
        /\ sources' = sources
    BY <1>5, <1>9 DEF Sources!Summarise
  <2>2. SourcesInto(v)' = SourcesInto(v) /\ StepsInto(v)' = StepsInto(v) \cup {at}
    BY <1>2, <1>3, <1>7, <1>9 DEF SourcesInto, StepsInto
  <2>3. producedIn[v] \in Seq(Nodes) /\ producedIn \in [Nodes -> Seq(Nodes)]
    BY <1>1 DEF SourceTypeOK
  <2> DEFINE s == producedIn[v]
  <2>4. /\ Append(s, at) \in Seq(Nodes)
        /\ DOMAIN Append(s, at) = 1 .. Len(s) + 1 /\ DOMAIN s = 1 .. Len(s) /\ Len(s) \in Nat
        /\ Append(s, at)[Len(s) + 1] = at
        /\ \A i \in 1 .. Len(s) : Append(s, at)[i] = s[i]
    BY <1>2, <2>3
  <2> HIDE DEF s
  <2>5. producedIn'[v] = Append(s, at) /\ \A m \in Nodes : m # v => producedIn'[m] = producedIn[m]
    BY <2>1, <2>3 DEF s
  <2>6. SourceTypeOK'
    <3>1. producedIn' \in [Nodes -> Seq(Nodes)]
      BY <2>1, <2>3, <2>4 DEF s
    <3>2. edge' \in Nat
      BY <1>2, <1>4
    <3> QED
      BY <1>1, <1>2, <1>3, <2>1, <3>1, <3>2 DEF SourceTypeOK
  <2>7. ASSUME NEW u \in Nodes
        PROVE  (\E i \in DOMAIN Append(s, at) : Append(s, at)[i] = u)
                  <=> (\E i \in DOMAIN s : s[i] = u) \/ u = at
    <3>1. Len(s) + 1 \in DOMAIN Append(s, at) /\ DOMAIN s \subseteq DOMAIN Append(s, at)
      BY <2>4
    <3>2. \A i \in DOMAIN Append(s, at) : i = Len(s) + 1 \/ i \in DOMAIN s
      BY <2>4
    <3> QED
      BY <2>4, <3>1, <3>2
  <2>8. ASSUME NEW m \in Nodes, vertices[m].produced PROVE Sums(m)'
    <3>1. Sums(m) /\ sources'[m] = sources[m]
      BY <1>1, <2>1, <2>8 DEF SumInv
    <3>2. CASE m = v
      <4>1. \A u \in Nodes : (\E i \in DOMAIN producedIn'[m] : producedIn'[m][i] = u)
                               <=> u \in StepsInto(m)'
        BY <2>2, <2>5, <2>7, <3>1, <3>2, SMTT(30) DEF Sums, s
      <4>2. SourcesInto(m)' = SourcesInto(m)
        BY <2>2, <3>2
      <4> QED
        BY <1>2, <1>3, <3>1, <4>1, <4>2 DEF Sums
    <3>3. CASE m # v
      <4>1. SourcesInto(m)' = SourcesInto(m) /\ StepsInto(m)' = StepsInto(m)
            /\ producedIn'[m] = producedIn[m]
        BY <1>8, <2>5, <3>3
      <4> QED
        BY <1>2, <1>3, <3>1, <4>1 DEF Sums
    <3> QED
      BY <3>2, <3>3
  <2>9. ReadInv' /\ StatInv'
    BY <1>1, <1>2, <1>3, <2>1 DEF ReadInv, StatInv, IsRead
  <2> QED
    BY <1>2, <1>3, <2>6, <2>8, <2>9 DEF SourceInv, SumInv
<1>10. CASE ~vertices[at].produced
  <2>1. /\ sources' = [sources EXCEPT ![v] = Sources!AddTime(sources[v], sources[at])]
        /\ producedIn' = producedIn
    BY <1>5, <1>10 DEF Sources!Summarise
  <2>2. SourcesInto(v)' = SourcesInto(v) \cup {at} /\ StepsInto(v)' = StepsInto(v)
    BY <1>2, <1>3, <1>7, <1>10 DEF SourcesInto, StepsInto
  <2>3. at # v /\ Sources!IsSource(at)
    <3>1. vertices[at].out # <<>>
      BY <1>1, <1>2, <1>4, GraphShape DEF SourceTypeOK
    <3> QED
      BY <1>5, <1>10, <3>1 DEF Sources!IsSource
  <2>4. sources[at].newest = file[at] /\ (sources[at].missing <=> file[at] = 0)
    BY <1>1, <1>2, <2>3 DEF ReadInv, IsRead
  <2> DEFINE s == sources[v]
             new == Sources!AddTime(s, sources[at])
  <2>5. /\ s \in SummaryType /\ file[at] \in Nat /\ sources \in [Nodes -> SummaryType]
        /\ \A time \in Times : time \in Nat /\ time > 0
    <3>1. file \in [Nodes -> Times \cup {0}] /\ sources \in [Nodes -> SummaryType]
      BY <1>1 DEF SourceTypeOK
    <3>2. Times \cup {0} \subseteq Nat /\ \A time \in Times : time \in Nat /\ time > 0
      BY DEF SourcesAssumption
    <3> QED
      BY <1>2, <3>1, <3>2
  <2>6. /\ new \in SummaryType
        /\ new.any
        /\ new.missing <=> s.missing \/ file[at] = 0
        /\ \A time \in Times : new.newest >= time <=> s.newest >= time \/ file[at] >= time
    <3>1. CASE sources[at].missing
      <4>1. new = [s EXCEPT !.missing = TRUE, !.any = TRUE]
        BY <3>1 DEF Sources!AddTime
      <4> HIDE DEF s, new
      <4>2. new \in SummaryType /\ new.any /\ new.missing /\ new.newest = s.newest
        BY <2>5, <4>1 DEF SummaryType
      <4>3. file[at] = 0
        BY <2>4, <3>1
      <4> QED
        BY <2>5, <4>2, <4>3
    <3>2. CASE ~sources[at].missing
      <4>1. new = [s EXCEPT !.newest = IF s.newest < file[at] THEN file[at] ELSE s.newest, !.any = TRUE]
        BY <2>4, <3>2 DEF Sources!AddTime
      <4> HIDE DEF s, new
      <4>2. new \in SummaryType /\ new.any /\ (new.missing <=> s.missing)
            /\ new.newest = IF s.newest < file[at] THEN file[at] ELSE s.newest
        BY <2>5, <4>1 DEF SummaryType
      <4>3. file[at] # 0 /\ s.newest \in Nat
        BY <2>4, <2>5, <3>2 DEF SummaryType
      <4> QED
        BY <2>5, <4>2, <4>3
    <3> QED
      BY <3>1, <3>2
  <2>7. sources' = [sources EXCEPT ![v] = new]
    BY <2>1
  <2> HIDE DEF s, new
  <2>8. sources'[v] = new /\ \A m \in Nodes : m # v => sources'[m] = sources[m]
    BY <2>5, <2>7
  <2>9. SourceTypeOK'
    <3>1. sources' \in [Nodes -> SummaryType]
      BY <2>5, <2>6, <2>7
    <3>2. edge' \in Nat
      BY <1>2, <1>4
    <3> QED
      BY <1>1, <1>2, <1>3, <2>1, <3>1, <3>2 DEF SourceTypeOK
  <2>10. ASSUME NEW m \in Nodes, vertices[m].produced PROVE Sums(m)'
    <3>1. Sums(m)
      BY <1>1, <2>10 DEF SumInv
    <3>2. CASE m = v
      <4>1. /\ new.any <=> SourcesInto(m)' # {}
            /\ new.missing <=> \E u \in SourcesInto(m)' : file[u] = 0
            /\ \A time \in Times : new.newest >= time <=> \E u \in SourcesInto(m)' : file[u] >= time
        BY <2>2, <2>6, <3>1, <3>2 DEF Sums, s
      <4>2. StepsInto(m)' = StepsInto(m)
        BY <2>2, <3>2
      <4> QED
        BY <1>2, <1>3, <2>1, <2>8, <3>1, <3>2, <4>1, <4>2 DEF Sums
    <3>3. CASE m # v
      <4>1. SourcesInto(m)' = SourcesInto(m) /\ StepsInto(m)' = StepsInto(m)
            /\ sources'[m] = sources[m]
        BY <1>8, <2>8, <3>3
      <4> QED
        BY <1>2, <1>3, <2>1, <3>1, <4>1 DEF Sums
    <3> QED
      BY <3>2, <3>3
  <2>11. ReadInv' /\ StatInv'
    <3>1. ASSUME NEW m \in Nodes, Sources!IsSource(m) PROVE IsRead(m)'
      <4>1. m # v /\ IsRead(m)
        BY <1>1, <1>2, <1>5, <3>1 DEF ReadInv, Sources!IsSource
      <4> QED
        BY <1>2, <2>8, <4>1 DEF IsRead
    <3> QED
      BY <1>2, <1>3, <3>1 DEF ReadInv, StatInv
  <2> QED
    BY <1>2, <1>3, <2>9, <2>10, <2>11 DEF SourceInv, SumInv
<1> QED
  BY <1>9, <1>10

(* Between two nodes nothing is passed.                                    *)
LEMMA NextNodeKeeps ==
    ASSUME SourcesAssumption, SourceInv, Sources!NextNode
    PROVE  SourceInv'
<1>1. SourceTypeOK /\ ReadInv /\ SumInv
  BY DEF SourceInv
<1>2. /\ UNCHANGED <<vertices, file, stage, pending, ranges, sources, producedIn>>
      /\ stage = "summarise" /\ at \in Nodes /\ edge = Len(vertices[at].out)
      /\ at' = at + 1 /\ edge' = 0
  BY DEF Sources!NextNode, Nodes
<1>3. Nodes' = Nodes /\ \A m : Sources!IsSource(m)' <=> Sources!IsSource(m)
  BY <1>2 DEF Nodes, Sources!IsSource
<1>4. ASSUME NEW u \in Nodes, NEW m PROVE Into(u, m)' <=> Into(u, m)
  <2>1. ASSUME NEW e \in DOMAIN vertices[u].out PROVE Passed(u, e)' <=> Passed(u, e)
    <3>1. u \in Nat /\ at \in Nat /\ e \in 1 .. Len(vertices[u].out) /\ Len(vertices[u].out) \in Nat
      BY <1>1, GraphShape DEF SourceTypeOK
    <3>2. CASE u = at
      BY <1>2, <3>1, <3>2 DEF Passed
    <3>3. CASE u # at
      BY <1>2, <3>1, <3>3 DEF Passed
    <3> QED
      BY <3>2, <3>3
  <2> QED
    BY <1>2, <2>1 DEF Into
<1>5. \A m : SourcesInto(m)' = SourcesInto(m) /\ StepsInto(m)' = StepsInto(m)
  BY <1>2, <1>3, <1>4 DEF SourcesInto, StepsInto
<1>6. ASSUME NEW m \in Nodes, vertices[m].produced PROVE Sums(m)'
  <2>1. Sums(m)
    BY <1>1, <1>6 DEF SumInv
  <2> QED
    BY <1>2, <1>3, <1>5, <2>1 DEF Sums
<1>7. SourceTypeOK' /\ ReadInv' /\ StatInv'
  BY <1>1, <1>2, <1>3 DEF SourceTypeOK, ReadInv, StatInv, IsRead
<1> QED
  BY <1>2, <1>3, <1>6, <1>7 DEF SourceInv, SumInv

(* Every step keeps the invariant.                                         *)
LEMMA SourceInvNext ==
    ASSUME SourcesAssumption, SourceInv, [Sources!SourceNext]_(Sources!sourceVars)
    PROVE  SourceInv'
<1>1. CASE Sources!Divide
  BY <1>1, DivideKeeps
<1>2. ASSUME NEW t \in DOMAIN ranges, Sources!StatNext(t) PROVE SourceInv'
  BY <1>2, StatKeeps
<1>3. CASE Sources!Join
  BY <1>3, JoinKeeps
<1>4. CASE Sources!Summarise
  BY <1>4, SummariseKeeps
<1>5. CASE Sources!NextNode
  BY <1>5, NextNodeKeeps
<1>6. CASE Sources!Summarised
  <2>1. UNCHANGED <<vertices, file, at, edge, pending, ranges, sources, producedIn>>
        /\ stage = "summarise" /\ stage' = "ready" /\ at \notin Nodes
    BY <1>6 DEF Sources!Summarised, Nodes
  <2>2. SumInv'
    BY <2>1, SumsStay DEF SourceInv
  <2> QED
    BY <2>1, <2>2 DEF SourceInv, SourceTypeOK, StatInv, ReadInv, IsRead, Sources!IsSource, Nodes
<1>7. CASE UNCHANGED Sources!sourceVars
  <2>1. UNCHANGED <<vertices, file, stage, at, edge, pending, ranges, sources, producedIn>>
    BY <1>7 DEF Sources!sourceVars
  <2>2. SumInv'
    BY <2>1, SumsStay DEF SourceInv
  <2> QED
    BY <2>1, <2>2
       DEF SourceInv, SourceTypeOK, StatInv, ReadInv, IsRead, Sources!IsSource, Nodes, Ahead
<1> QED
  BY <1>1, <1>2, <1>3, <1>4, <1>5, <1>6, <1>7 DEF Sources!SourceNext

(* When all edges are passed, a summary is of all inputs.                  *)
LEMMA SummariesAnswer ==
    ASSUME SourcesAssumption, SourceInv
    PROVE  Sources!SummaryAnswers
<1> SUFFICES ASSUME stage = "ready", NEW n \in DOMAIN vertices, vertices[n].produced, NEW time \in Times
             PROVE  Sources!InputsChangedSince(n, time)
                      <=> \E u \in DOMAIN vertices :
                            /\ \E e \in DOMAIN vertices[u].out : vertices[u].out[e] = n
                            /\ file[u] = 0 \/ file[u] >= time
  BY DEF Sources!SummaryAnswers
<1>1. SourceTypeOK /\ Sums(n) /\ n \in Nodes
  BY DEF SourceInv, SumInv, Nodes
<1>2. ASSUME NEW u \in Nodes
      PROVE  Into(u, n) <=> \E e \in DOMAIN vertices[u].out : vertices[u].out[e] = n
  <2>1. u < at
    BY <1>1, GraphShape DEF SourceTypeOK
  <2> QED
    BY <2>1 DEF Into, Passed
<1>3. \A u \in Nodes : vertices[u].produced \in BOOLEAN
  BY <1>1, GraphShape DEF SourceTypeOK
<1>4. (\E i \in DOMAIN producedIn[n] :
         LET u == producedIn[n][i] IN file[u] = 0 \/ file[u] >= time)
        <=> \E u \in StepsInto(n) : file[u] = 0 \/ file[u] >= time
  <2>1. \A i \in DOMAIN producedIn[n] : producedIn[n][i] \in Nodes
    <3>1. producedIn[n] \in Seq(Nodes)
      BY <1>1 DEF SourceTypeOK
    <3> QED
      BY <3>1
  <2>2. StepsInto(n) \subseteq Nodes
    BY DEF StepsInto
  <2> QED
    BY <1>1, <2>1, <2>2 DEF Sums
<1>5. sources[n].any /\ (sources[n].missing \/ sources[n].newest >= time)
        <=> \E u \in SourcesInto(n) : file[u] = 0 \/ file[u] >= time
  BY <1>1 DEF Sums
<1>6. Sources!InputsChangedSince(n, time)
        <=> \E u \in SourcesInto(n) \cup StepsInto(n) : file[u] = 0 \/ file[u] >= time
  BY <1>4, <1>5 DEF Sources!InputsChangedSince
<1>7. SourcesInto(n) \cup StepsInto(n)
        = {u \in Nodes : \E e \in DOMAIN vertices[u].out : vertices[u].out[e] = n}
  BY <1>2, <1>3 DEF SourcesInto, StepsInto
<1> QED
  BY <1>6, <1>7 DEF Nodes

(* The constructor's invariant, and what it says of the summaries.         *)
LEMMA SourcesInvariant ==
    ASSUME SourcesAssumption
    PROVE  Sources!SourceInit /\ [][Sources!SourceNext]_(Sources!sourceVars) => []Sources!SummaryAnswers
<1>1. Sources!SourceInit => SourceInv
  BY SourceInvInit
<1>2. SourceInv /\ [Sources!SourceNext]_(Sources!sourceVars) => SourceInv'
  BY SourceInvNext
<1>3. SourceInv => Sources!SummaryAnswers
  BY SummariesAnswer
<1> QED
  BY <1>1, <1>2, <1>3, PTL

-----------------------------------------------------------------------------
(***************************************************************************)
(* The services together: a behaviour of Services is one of each of its    *)
(* modules, most of which do nothing in it.                                *)
(***************************************************************************)
(* The part that runs takes a step of its own; it is none of the others.   *)
LEMMA EachPartRunsItsModule ==
    /\ Init => /\ Cache!CacheInit /\ Clean!CleanInit /\ Response!RspInit /\ Exec!ProcInit
               /\ Sources!SourceInit
    /\ [Next]_vars => /\ [Cache!CacheNext]_(Cache!cacheVars)
                      /\ [Clean!CleanNext]_(Clean!cleanVars)
                      /\ [Response!RspNext]_(Response!rspVars)
                      /\ [Exec!ProcNext]_(Exec!procVars)
                      /\ [Sources!SourceNext]_(Sources!sourceVars)
<1>1. UNCHANGED cacheState => UNCHANGED Cache!cacheVars
  BY DEF cacheState, Cache!cacheVars, Cache!writer
<1>2. UNCHANGED cleanState => UNCHANGED Clean!cleanVars
  BY DEF cleanState, Clean!cleanVars, Clean!ring
<1>3. UNCHANGED rspState => UNCHANGED Response!rspVars
  BY DEF rspState, Response!rspVars
<1>4. UNCHANGED procState => UNCHANGED Exec!procVars
  BY DEF procState, Exec!procVars
<1>5. UNCHANGED timesState => UNCHANGED Sources!sourceVars
  BY DEF timesState, Sources!sourceVars
<1>6. UNCHANGED vars => UNCHANGED <<cacheState, cleanState, rspState, procState, timesState>>
  BY DEF vars
<1>7. Next => /\ Cache!CacheNext \/ UNCHANGED cacheState
              /\ Clean!CleanNext \/ UNCHANGED cleanState
              /\ Response!RspNext \/ UNCHANGED rspState
              /\ Exec!ProcNext \/ UNCHANGED procState
              /\ Sources!SourceNext \/ UNCHANGED timesState
  BY DEF Next
<1> QED
  BY <1>1, <1>2, <1>3, <1>4, <1>5, <1>6, <1>7 DEF Init

(* cob clean leaves no file, whatever part of its requests the kernel      *)
(* takes, fails or never answers.                                          *)
THEOREM CleanLeavesNothing ==
    ASSUME CleanAssumption
    PROVE  Spec => []AllRemoved
<1>1. Spec => Clean!CleanSpec
  BY EachPartRunsItsModule, PTL DEF Spec, Clean!CleanSpec
<1>2. Clean!AllRemoved => AllRemoved
  BY DEF AllRemoved
<1> QED
  BY <1>1, <1>2, CleanBatches, PTL

(* When process_exec has returned, whatever failed, its pipe is closed and *)
(* its child waited for.                                                   *)
THEOREM CallsLeaveNothing ==
    ASSUME ExecAssumption
    PROVE  Spec => []NothingLeft
<1>1. Spec => Exec!ProcInit /\ [][Exec!ProcNext]_(Exec!procVars)
  BY EachPartRunsItsModule, PTL DEF Spec
<1>2. Exec!NothingLeft => NothingLeft
  BY DEF NothingLeft
<1> QED
  BY <1>1, <1>2, ExecLeavesNothing, PTL

(* A capture that succeeds has all that the command has written, in order, *)
(* although other children hold the write end of its pipe for a while.     *)
THEOREM CapturesAreComplete ==
    ASSUME ExecAssumption
    PROVE  Spec => []OutputComplete
<1>1. Spec => Exec!ProcInit /\ [][Exec!ProcNext]_(Exec!procVars)
  BY EachPartRunsItsModule, PTL DEF Spec
<1>2. Exec!OutputComplete => OutputComplete
  BY DEF OutputComplete
<1> QED
  BY <1>1, <1>2, ExecCapturesAll, PTL

(* A link step that is done, or taken for up to date, was linked from the  *)
(* inputs that its manifest gives it, although a response file that is     *)
(* there is passed on unread.                                              *)
THEOREM LinksReadTheirInputs ==
    ASSUME RspAssumption
    PROVE  Spec => []LinkedFromItsInputs
<1>1. Spec => Response!RspSpec
  BY EachPartRunsItsModule, PTL DEF Spec, Response!RspSpec
<1>2. Response!LinkedFromItsInputs => LinkedFromItsInputs
  BY DEF LinkedFromItsInputs
<1> QED
  BY <1>1, <1>2, ResponseFilesFit, PTL

(* The cache file is a cell that changes as a whole: between partial       *)
(* writes, failing calls, kills and power cuts, what a run reads is the    *)
(* whole of what one run saved, the latest unless the power went, or       *)
(* nothing.  Services implements AtomicCache.                              *)
THEOREM CacheChangesAsAWhole ==
    ASSUME SizeAssumption
    PROVE  Spec => CacheIsAtomic
<1>1. Spec => Cache!CacheSpec
  BY EachPartRunsItsModule, PTL DEF Spec, Cache!CacheSpec
<1> QED
  BY <1>1, CacheFileIsAtomic, PTL DEF CacheIsAtomic

(* However many threads look at the sources, and in whatever order, the    *)
(* summary says of every output whether one of its inputs is missing or    *)
(* not older: chunks cover the sources, and edges are passed once each.    *)
THEOREM SummariesAreOfAllInputs ==
    ASSUME SourcesAssumption
    PROVE  Spec => []SummaryAnswers
<1>1. Spec => Sources!SourceInit /\ [][Sources!SourceNext]_(Sources!sourceVars)
  BY EachPartRunsItsModule, PTL DEF Spec
<1>2. Sources!SummaryAnswers => SummaryAnswers
  BY DEF SummaryAnswers
<1> QED
  BY <1>1, <1>2, SourcesInvariant, PTL
=============================================================================
