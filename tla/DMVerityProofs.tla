--------------------------- MODULE DMVerityProofs ----------------------------
(***************************************************************************)
(* Proofs about DMVerity, for any set of layers and any order of calls,    *)
(* failures and cancellations.                                             *)
(***************************************************************************)
EXTENDS DMVerity, TLAPS

(* Each call takes its own steps, and only mkfs.erofs has an input. *)
StepsInv ==
  /\ (op = "none") = (step = "none")
  /\ op = "CreateErofsImage" => step \in {"version", "mkfs"}
  /\ op = "CreateHashImageFile" => step \in {"truncate", "veritysetup"}
  /\ op = "ComputeVerityRootHashForLayerFile" => step = "veritysetup"

(* A child belongs to a step that runs a tool; without one, nothing is left *)
(* of the last one.                                                         *)
ProcessInv ==
  /\ child # "none" => step \in Tools
  /\ child = "none" => ~signalled /\ ~overrun /\ ~fed /\ copier = "none"

(* The temporary directory lives as long as its call, or cannot be removed. *)
TempInv ==
  /\ op \notin {"CalculateDMVerityRootHash", "none"} =>
       ~tmpDir /\ ~stuck /\ files["tmp"] = NoFiles
  /\ op = "none" => stuck \/ (~tmpDir /\ files["tmp"] = NoFiles)

(* What a step that is going to succeed has made, and what later steps rely *)
(* on: the image is the layer's, the tree is the image's.                   *)
MadeInv ==
  /\ child = "ok" /\ step = "mkfs" /\ ~signalled /\ copier # "failed" =>
       files[Dir].image = layer
  /\ child = "ok" /\ step = "veritysetup" /\ ~signalled =>
       files[Dir].tree = files[Dir].image
  /\ op = "CalculateDMVerityRootHash" /\ step \in {"truncate", "veritysetup"} =>
       files["tmp"].image = layer

(* Half an image in the caller's file: its making failed, or goes on. *)
PartialInv ==
  files["caller"].image = Partial =>
    ~imageMade \/ (op = "CreateErofsImage" /\ step = "mkfs" /\ child # "none")

IInv == /\ TypeOK /\ StepsInv /\ ProcessInv /\ TempInv /\ MadeInv /\ PartialInv
        /\ HashOfWholeLayer /\ TreeOfImage

LEMMA InitIInv == Init => IInv
<1> SUFFICES ASSUME Init PROVE IInv
  OBVIOUS
<1>1. TypeOK
  BY DEF Init, TypeOK, NoFiles, Images
<1>2. StepsInv /\ ProcessInv /\ TempInv /\ MadeInv
  BY DEF Init, StepsInv, ProcessInv, TempInv, MadeInv
<1>3. PartialInv
  BY DEF Init, PartialInv
<1>4. HashOfWholeLayer /\ TreeOfImage
  BY DEF Init, HashOfWholeLayer, TreeOfImage, Returned
<1> QED  BY <1>1, <1>2, <1>3, <1>4 DEF IInv

(* The three ways in which a call goes on. *)
LEMMA StepIInv == IInv /\ [Next]_vars => IInv'
<1> SUFFICES ASSUME IInv, [Next]_vars PROVE IInv'
  OBVIOUS
<1> USE FilesAssumption DEF IInv, process
<1>1. ASSUME NEW o \in Ops, NEW l \in Layers, Begin(o, l) PROVE IInv'
  <2>1. TypeOK'
    BY <1>1 DEF Begin, TypeOK, FirstStep, Ops, Tools, Images, NoFiles
  <2>2. StepsInv' /\ ProcessInv'
    BY <1>1 DEF Begin, StepsInv, ProcessInv, FirstStep, Ops, Tools
  <2>3. TempInv' /\ MadeInv' /\ PartialInv'
    BY <1>1 DEF Begin, TempInv, MadeInv, PartialInv, ProcessInv, StepsInv,
                FirstStep, Ops, Tools, Dir, TypeOK, NoFiles
  <2>4. HashOfWholeLayer' /\ TreeOfImage'
    BY <1>1 DEF Begin, HashOfWholeLayer, TreeOfImage, Returned, Ops
  <2> QED  BY <2>1, <2>2, <2>3, <2>4
<1>2. CASE Cancel
  BY <1>2 DEF Cancel, TypeOK, StepsInv, ProcessInv, TempInv, MadeInv, PartialInv,
              HashOfWholeLayer, TreeOfImage, Returned, Dir
<1>3. CASE FailStart
  <2>1. op # "none" /\ step \in Tools /\ child = "none"
    BY <1>3 DEF FailStart, StepsInv, Tools
  <2>2. TypeOK'
    BY <1>3, <2>1 DEF FailStart, Return, TypeOK, NoFiles, Images
  <2>3. StepsInv' /\ ProcessInv' /\ TempInv' /\ MadeInv'
    BY <1>3, <2>1 DEF FailStart, Return, StepsInv, ProcessInv, TempInv, MadeInv,
                      TypeOK, NoFiles
  <2>4. PartialInv'
    BY <1>3, <2>1 DEF FailStart, Return, PartialInv, TypeOK
  <2>5. HashOfWholeLayer' /\ TreeOfImage'
    BY <1>3, <2>1 DEF FailStart, Return, HashOfWholeLayer, TreeOfImage, Returned
  <2> QED  BY <2>2, <2>3, <2>4, <2>5
<1>4. CASE Start
  <2>1. op # "none" /\ op \in Ops
    BY <1>4 DEF Start, StepsInv, TypeOK, Tools
  <2>2. Dir \in {"tmp", "caller"} /\ Dir' = Dir
    BY <1>4 DEF Dir, Start
  <2>3. TypeOK'
    BY <1>4, <2>2 DEF Start, TypeOK, Images, Tools
  <2>4. StepsInv' /\ ProcessInv'
    BY <1>4 DEF Start, StepsInv, ProcessInv
  <2>5. TempInv'
    BY <1>4 DEF Start, TempInv, Dir, TypeOK
  <2>6. MadeInv'
    BY <1>4, <2>2 DEF Start, MadeInv, TypeOK, Tools, Dir
  <2>7. PartialInv'
    BY <1>4, <2>1 DEF Start, PartialInv, TypeOK, Tools, Dir, StepsInv, Ops
  <2>8. HashOfWholeLayer' /\ TreeOfImage'
    BY <1>4, <2>1 DEF Start, HashOfWholeLayer, TreeOfImage, Returned
  <2> QED  BY <2>3, <2>4, <2>5, <2>6, <2>7, <2>8
<1>5. CASE Deliver
  BY <1>5 DEF Deliver, TypeOK, StepsInv, ProcessInv, TempInv, MadeInv, PartialInv,
              HashOfWholeLayer, TreeOfImage, Returned, Dir
<1>6. CASE CopierDone
  BY <1>6 DEF CopierDone, TypeOK, StepsInv, ProcessInv, TempInv, MadeInv,
              PartialInv, HashOfWholeLayer, TreeOfImage, Returned, Dir
<1>7. CASE CopierFails
  BY <1>7 DEF CopierFails, TypeOK, StepsInv, ProcessInv, TempInv, MadeInv,
              PartialInv, HashOfWholeLayer, TreeOfImage, Returned, Dir
<1>8. CASE ExitOK
  <2>1. op # "none" /\ op \in Ops /\ step \in Tools
    BY <1>8 DEF ExitOK, StepsInv, ProcessInv, TypeOK, Tools
  <2>2. Dir \in {"tmp", "caller"} /\ Dir' = Dir
    BY <1>8 DEF Dir, ExitOK
  <2>3. Built \subseteq Layers \cup {Partial}
    BY DEF Built, TypeOK
  <2>4. TypeOK'
    BY <1>8, <2>2, <2>3 DEF ExitOK, TypeOK, Images
  <2>5. StepsInv' /\ ProcessInv'
    BY <1>8, <2>1 DEF ExitOK, StepsInv, ProcessInv
  <2>6. TempInv'
    BY <1>8 DEF ExitOK, TempInv, Dir, TypeOK
  <2>7. MadeInv'
    <3>1. CASE step = "mkfs"
      BY <1>8, <2>2, <3>1 DEF ExitOK, MadeInv, TypeOK, Built
    <3>2. CASE step = "veritysetup"
      <4>1. PICK t \in {files[Dir].image} \cup (IF signalled THEN {Blank} ELSE {}) :
               files' = [files EXCEPT ![Dir].tree = t]
        BY <1>8, <3>2 DEF ExitOK
      <4>2. /\ ~signalled => files'[Dir].tree = files[Dir].image
            /\ \A d \in {"tmp", "caller"} : files'[d].image = files[d].image
        BY <2>2, <4>1 DEF TypeOK
      <4>3. UNCHANGED <<op, step, layer, signalled>>
        BY <1>8 DEF ExitOK
      <4> QED  BY <2>2, <3>2, <4>2, <4>3 DEF MadeInv
    <3>3. CASE step = "version"
      BY <1>8, <3>3 DEF ExitOK, MadeInv
    <3> QED  BY <2>1, <3>1, <3>2, <3>3 DEF Tools
  <2>8. PartialInv'
    <3>1. UNCHANGED <<op, step, imageMade>> /\ child # "none" /\ child' # "none"
      BY <1>8 DEF ExitOK
    <3>2. CASE step = "mkfs" /\ op = "CreateErofsImage"
      BY <3>1, <3>2 DEF PartialInv
    <3>3. CASE step = "mkfs" /\ op # "CreateErofsImage"
      <4>1. Dir = "tmp"
        BY <2>1, <3>3 DEF StepsInv, Ops, Dir
      <4>2. files'["caller"] = files["caller"]
        BY <1>8, <3>3, <4>1 DEF ExitOK, TypeOK
      <4> QED  BY <3>1, <3>3, <4>2 DEF PartialInv
    <3>4. CASE step # "mkfs"
      <4>1. files'["caller"].image = files["caller"].image
        BY <1>8, <2>2, <3>4 DEF ExitOK, TypeOK
      <4> QED  BY <3>1, <3>4, <4>1 DEF PartialInv
    <3> QED  BY <3>2, <3>3, <3>4
  <2>9. HashOfWholeLayer' /\ TreeOfImage'
    BY <1>8, <2>1 DEF ExitOK, HashOfWholeLayer, TreeOfImage, Returned
  <2> QED  BY <2>4, <2>5, <2>6, <2>7, <2>8, <2>9
<1>9. CASE ExitBad
  BY <1>9 DEF ExitBad, TypeOK, StepsInv, ProcessInv, TempInv, MadeInv, PartialInv,
              HashOfWholeLayer, TreeOfImage, Returned, Dir
<1>10. CASE Signal
  BY <1>10 DEF Signal, TypeOK, StepsInv, ProcessInv, TempInv, MadeInv, PartialInv,
               HashOfWholeLayer, TreeOfImage, Returned, Dir
<1>11. CASE Overrun
  BY <1>11 DEF Overrun, TypeOK, StepsInv, ProcessInv, TempInv, MadeInv,
               PartialInv, HashOfWholeLayer, TreeOfImage, Returned, Dir
<1>12. CASE Wait
  <2>1. op # "none" /\ op \in Ops /\ step \in Tools
    BY <1>12 DEF Wait, StepsInv, ProcessInv, TypeOK, Tools
  <2>2. PICK recognized \in BOOLEAN :
          /\ step = "mkfs" => recognized
          /\ StepEnds(RunOK /\ recognized, files)
    BY <1>12 DEF Wait
  <2>3. /\ child' = "none" /\ ~signalled' /\ ~overrun' /\ copier' = "none" /\ ~fed'
        /\ signalled' \in BOOLEAN /\ overrun' \in BOOLEAN /\ fed' \in BOOLEAN
        /\ UNCHANGED <<layer, cancelled, stuck>>
    BY <1>12 DEF Wait
  <2>4. CASE RunOK /\ recognized /\ step # LastStep(op)
    <3>1. /\ step' = StepAfter[step] /\ files' = files
          /\ UNCHANGED <<op, tmpDir, ret, imageMade>>
      BY <2>2, <2>4 DEF StepEnds
    <3>2. /\ step = "version" => step' = "mkfs"
          /\ step = "mkfs" => step' = "truncate"
          /\ step # "veritysetup"
      BY <2>1, <2>4, <3>1 DEF StepAfter, LastStep, Tools, StepsInv, Ops
    <3>3. TypeOK' /\ StepsInv' /\ ProcessInv' /\ TempInv'
      BY <2>1, <2>3, <2>4, <3>1, <3>2 DEF TypeOK, StepsInv, ProcessInv, TempInv,
                                      Tools, LastStep
    <3>4. MadeInv'
      BY <2>1, <2>3, <2>4, <3>1, <3>2 DEF MadeInv, RunOK, Tools, Dir
    <3>5. PartialInv'
      BY <2>1, <2>3, <2>4, <3>1, <3>2 DEF PartialInv, LastStep, Tools
    <3>6. HashOfWholeLayer' /\ TreeOfImage'
      BY <2>1, <2>3, <3>1 DEF HashOfWholeLayer, TreeOfImage, Returned
    <3> QED  BY <3>3, <3>4, <3>5, <3>6
  <2>5. CASE ~(RunOK /\ recognized /\ step # LastStep(op))
    <3> DEFINE ok == RunOK /\ recognized
    <3>1. Return(ok, files)
      BY <2>2, <2>5 DEF StepEnds
    <3>2. ok \in BOOLEAN /\ (ok => step = LastStep(op))
      BY <2>5 DEF RunOK
    <3>3. /\ step' = "none" /\ op' = "none" /\ tmpDir' = (tmpDir /\ stuck)
          /\ files' = IF stuck THEN files ELSE [files EXCEPT !["tmp"] = NoFiles]
          /\ imageMade' = IF op = "CreateErofsImage" THEN ok ELSE imageMade
          /\ ret'.op = op /\ ret'.ok = ok
      BY <3>1 DEF Return
    <3>4. ok /\ op \in Hashing => ret'.hash = files[Dir].image
      BY <3>1 DEF Return
    <3>5. TypeOK'
      <4>1. ret' \in [op : Ops \cup {"none"}, ok : BOOLEAN,
                      hash : Images \cup {Blank}]
        BY <2>1, <3>1, <3>2 DEF Return, TypeOK, Dir
      <4>2. imageMade' \in BOOLEAN
        BY <3>2, <3>3 DEF TypeOK
      <4>3. files' \in [{"tmp", "caller"} ->
                          [image : Images, tree : Images \cup {Blank}]]
        BY <3>3 DEF TypeOK, NoFiles, Images
      <4> QED  BY <2>3, <3>3, <4>1, <4>2, <4>3 DEF TypeOK
    <3>6. StepsInv' /\ ProcessInv' /\ TempInv'
      BY <2>3, <3>3 DEF StepsInv, ProcessInv, TempInv, TypeOK
    <3>7. MadeInv'
      BY <2>3, <3>3 DEF MadeInv
    <3>8. PartialInv'
      <4>1. files'["caller"] = files["caller"]
        BY <3>3 DEF TypeOK
      <4>2. CASE op = "CreateErofsImage" /\ ok
        <5>1. step = "mkfs" /\ child = "ok" /\ ~signalled /\ copier # "failed"
          BY <3>2, <4>2 DEF LastStep, RunOK
        <5>2. files["caller"].image = layer
          BY <4>2, <5>1 DEF MadeInv, Dir
        <5> QED  BY <4>1, <5>2 DEF PartialInv, TypeOK
      <4>3. CASE op = "CreateErofsImage" /\ ~ok
        BY <3>3, <4>3 DEF PartialInv
      <4>4. CASE op # "CreateErofsImage"
        BY <3>3, <4>1, <4>4 DEF PartialInv
      <4> QED  BY <4>2, <4>3, <4>4
    <3>9. HashOfWholeLayer'
      <4> SUFFICES ASSUME ok, op = "CalculateDMVerityRootHash"
                   PROVE  ret'.hash = layer'
        BY <3>3 DEF HashOfWholeLayer, Returned
      <4>1. step = "veritysetup"
        BY <3>2 DEF LastStep
      <4> QED  BY <2>3, <3>4, <4>1 DEF MadeInv, Dir, Hashing
    <3>10. TreeOfImage'
      <4> SUFFICES ASSUME ok, op \in {"CreateHashImageFile",
                                      "ComputeVerityRootHashForLayerFile"}
                   PROVE  /\ files'["caller"].tree = files'["caller"].image
                          /\ op \in Hashing => ret'.hash = files'["caller"].image
        BY <3>3 DEF TreeOfImage, Returned, Hashing
      <4>1. step = "veritysetup" /\ Dir = "caller"
        BY <3>2 DEF LastStep, Dir
      <4>2. files'["caller"] = files["caller"]
        BY <3>3 DEF TypeOK
      <4>3. files["caller"].tree = files["caller"].image
        BY <4>1 DEF MadeInv, RunOK
      <4> QED  BY <3>4, <4>1, <4>2, <4>3
    <3> QED  BY <3>5, <3>6, <3>7, <3>8, <3>9, <3>10
  <2> QED  BY <2>4, <2>5
<1>13. CASE Truncate
  <2>1. /\ step = "truncate" /\ op # "none" /\ op \in Ops /\ child = "none"
        /\ op \in {"CalculateDMVerityRootHash", "CreateHashImageFile"}
    BY <1>13 DEF Truncate, StepsInv, ProcessInv, TypeOK, Tools, Ops
  <2>2. UNCHANGED <<layer, cancelled, child, signalled, overrun, copier, fed, stuck>>
    BY <1>13 DEF Truncate
  <2>3. Dir \in {"tmp", "caller"}
    BY DEF Dir
  <2>4. step # LastStep(op)
    BY <2>1 DEF LastStep
  <2> DEFINE blank == [files EXCEPT ![Dir].tree = Blank]
  <2>5. /\ blank \in [{"tmp", "caller"} -> [image : Images, tree : Images \cup {Blank}]]
        /\ \A d \in {"tmp", "caller"} : blank[d].image = files[d].image
        /\ Dir = "tmp" => blank["caller"] = files["caller"]
        /\ Dir = "caller" => blank["tmp"] = files["tmp"]
    BY <2>3 DEF TypeOK
  <2>6. CASE StepEnds(TRUE, blank)
    <3>1. /\ step' = "veritysetup" /\ files' = blank
          /\ UNCHANGED <<op, tmpDir, ret, imageMade>>
      BY <2>1, <2>4, <2>6 DEF StepEnds, StepAfter
    <3>2. TypeOK'
      BY <2>2, <2>5, <3>1 DEF TypeOK, Tools
    <3>3. StepsInv' /\ ProcessInv' /\ TempInv'
      BY <2>1, <2>2, <2>5, <3>1 DEF StepsInv, ProcessInv, TempInv, Dir
    <3>4. MadeInv' /\ PartialInv'
      BY <2>1, <2>2, <2>5, <3>1 DEF MadeInv, PartialInv
    <3>5. HashOfWholeLayer' /\ TreeOfImage'
      BY <2>1, <3>1 DEF HashOfWholeLayer, TreeOfImage, Returned
    <3> QED  BY <3>2, <3>3, <3>4, <3>5
  <2>7. ASSUME NEW fs \in {blank, files}, StepEnds(FALSE, fs) PROVE IInv'
    <3>1. Return(FALSE, fs)
      BY <2>7 DEF StepEnds
    <3>2. /\ fs \in [{"tmp", "caller"} -> [image : Images, tree : Images \cup {Blank}]]
          /\ fs["caller"].image = files["caller"].image
      BY <2>5, <2>7 DEF TypeOK
    <3>3. /\ step' = "none" /\ op' = "none" /\ tmpDir' = (tmpDir /\ stuck)
          /\ files' = IF stuck THEN fs ELSE [fs EXCEPT !["tmp"] = NoFiles]
          /\ imageMade' = imageMade
          /\ ret' = [op |-> op, ok |-> FALSE, hash |-> Blank]
      BY <2>1, <3>1 DEF Return
    <3>4. TypeOK'
      BY <2>1, <2>2, <3>2, <3>3 DEF TypeOK, NoFiles, Images
    <3>5. StepsInv' /\ ProcessInv' /\ TempInv'
      BY <2>1, <2>2, <3>2, <3>3 DEF StepsInv, ProcessInv, TempInv
    <3>6. MadeInv'
      BY <2>1, <2>2, <3>3 DEF MadeInv
    <3>7. PartialInv'
      BY <2>1, <3>2, <3>3 DEF PartialInv
    <3>8. HashOfWholeLayer' /\ TreeOfImage'
      BY <3>3 DEF HashOfWholeLayer, TreeOfImage, Returned
    <3> QED  BY <3>4, <3>5, <3>6, <3>7, <3>8
  <2> QED  BY <1>13, <2>6, <2>7 DEF Truncate
<1>14. CASE UNCHANGED vars
  BY <1>14 DEF vars, TypeOK, StepsInv, ProcessInv, TempInv, MadeInv, PartialInv,
               HashOfWholeLayer, TreeOfImage, Returned, Dir
<1> QED
  BY <1>1, <1>2, <1>3, <1>4, <1>5, <1>6, <1>7, <1>8, <1>9, <1>10, <1>11, <1>12,
     <1>13, <1>14 DEF Next

LEMMA Invariance == Spec => []IInv
BY InitIInv, StepIInv, PTL DEF Spec

(* Every variable stays in its range, however the tools and the input fail *)
(* (dmverity.go:67-91).                                                    *)
THEOREM TypeCorrect == Spec => []TypeOK
<1>1. IInv => TypeOK
  BY DEF IInv
<1> QED  BY Invariance, <1>1, PTL

(* CalculateDMVerityRootHash returns the root hash of the whole layer or an *)
(* error (dmverity.go:67-91, 145-158).                                      *)
THEOREM WholeLayer == Spec => []HashOfWholeLayer
<1>1. IInv => HashOfWholeLayer
  BY DEF IInv
<1> QED  BY Invariance, <1>1, PTL

(* No call leaves a child or a copier behind, nor a temporary directory that *)
(* can be removed (dmverity.go:72, cancel.go:17-23).                                       *)
THEOREM CleanedUp == Spec => []NothingLeftBehind
<1>1. IInv => NothingLeftBehind
  BY DEF IInv, NothingLeftBehind, StepsInv, ProcessInv, TempInv, TypeOK, Tools
<1> QED  BY Invariance, <1>1, PTL

(* A root hash reported for the caller's image is the hash of that image    *)
(* and of the tree stored next to it (dmverity.go:95-110, 160-172).         *)
THEOREM TreeBelongs == Spec => []TreeOfImage
<1>1. IInv => TreeOfImage
  BY DEF IInv
<1> QED  BY Invariance, <1>1, PTL

(* Half an image stays in the caller's file only after an error             *)
(* (dmverity.go:154).                                                       *)
THEOREM PartialReported == Spec => []PartialImageReported
<1>1. IInv => PartialImageReported
  BY DEF IInv, PartialImageReported, PartialInv
<1> QED  BY Invariance, <1>1, PTL
=============================================================================
