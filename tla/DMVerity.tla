------------------------------ MODULE DMVerity -------------------------------
(***************************************************************************)
(* The root hash of a layer (pkg/integrity/dmverity.go): mkfs.erofs turns  *)
(* a tar stream into an image, veritysetup computes the hash tree of the   *)
(* image and prints its root.  Each tool is a child process started with   *)
(* internal/exec.CommandContextCancellation: a cancelled context sends     *)
(* SIGTERM, WaitDelay later the child is killed.  mkfs.erofs reads its     *)
(* input through a goroutine of os/exec, the copier, which may fail or     *)
(* block on its own.                                                       *)
(*                                                                         *)
(* One caller calls the four operations in any order, on its own files;    *)
(* CalculateDMVerityRootHash, which the CalculateImage... and Calculate-   *)
(* Layer... functions call, works in a temporary directory of its own that *)
(* os.RemoveAll may fail to remove, which nobody is told.  os/exec         *)
(* and the tools are external.  Time is the order of steps.                *)
(***************************************************************************)
EXTENDS Integers

CONSTANTS
  Layers,   \* the layers' contents
  NoFile,   \* a file that does not exist
  Partial,  \* an image of less than a layer, or the hash of such an image
  Blank     \* a hash file without a complete tree, or no hash

ASSUME FilesAssumption ==
  /\ NoFile \notin Layers \cup {Partial, Blank}
  /\ Partial \notin Layers \cup {Blank}
  /\ Blank \notin Layers

Ops == {"CalculateDMVerityRootHash", "CreateErofsImage", "CreateHashImageFile",
        "ComputeVerityRootHashForLayerFile"}

(* CreateHashImageFile drops the hash that veritysetup printed. *)
Hashing == {"CalculateDMVerityRootHash", "ComputeVerityRootHashForLayerFile"}

VARIABLES
  op,         \* the call in progress, or "none"
  step,       \* its step
  layer,      \* what rc, the input, yields if it is read to the end
  cancelled,  \* ctx is done
  child,      \* the child process: "none", "running", or its status
  signalled,  \* SIGTERM has been sent to it
  overrun,    \* WaitDelay has passed
  copier,     \* the goroutine that feeds its stdin
  fed,        \* the whole input has been delivered to it
  files,      \* files[d], the image and the hash file in directory d
  tmpDir,     \* the temporary directory of this call, or the last, exists
  stuck,      \* os.RemoveAll fails on it
  ret,        \* the last call's result
  imageMade   \* whether the last CreateErofsImage on the caller's image succeeded

process == <<child, signalled, overrun, copier, fed>>
vars == <<op, step, layer, cancelled, process, files, tmpDir, stuck, ret,
          imageMade>>

NoFiles == [image |-> NoFile, tree |-> NoFile]

Init ==
  /\ op = "none" /\ step = "none" /\ layer \in Layers
  /\ cancelled = FALSE
  /\ child = "none" /\ signalled = FALSE /\ overrun = FALSE
  /\ copier = "none" /\ fed = FALSE
  /\ files = [d \in {"tmp", "caller"} |-> NoFiles]
  /\ tmpDir = FALSE /\ stuck = FALSE
  /\ ret = [op |-> "none", ok |-> FALSE, hash |-> Blank]
  /\ imageMade = FALSE

(* The directory of erofsPath and hashPath. *)
Dir == IF op = "CalculateDMVerityRootHash" THEN "tmp" ELSE "caller"

FirstStep(o) == CASE o = "CreateHashImageFile"               -> "truncate"
                  [] o = "ComputeVerityRootHashForLayerFile" -> "veritysetup"
                  [] OTHER                                   -> "version"

LastStep(o) == IF o = "CreateErofsImage" THEN "mkfs" ELSE "veritysetup"

StepAfter == [version |-> "mkfs", mkfs |-> "truncate", truncate |-> "veritysetup"]

MutReturn(ok, fs) ==            \* the directory is removed on success only
  /\ ret' = [op |-> op, ok |-> ok,
             hash |-> IF ok /\ op \in Hashing THEN fs[Dir].image ELSE Blank]
  /\ files' = IF stuck \/ ~ok THEN fs ELSE [fs EXCEPT !["tmp"] = NoFiles]
  /\ tmpDir' = (tmpDir /\ (stuck \/ ~ok))
  /\ imageMade' = IF op = "CreateErofsImage" THEN ok ELSE imageMade
  /\ op' = "none" /\ step' = "none"

(* The call returns, after the deferred RemoveAll, whose error is ignored.   *)
(* fs is what its last step left in the files; a hash returned is the one    *)
(* veritysetup printed.                                                      *)
Return(ok, fs) ==
  /\ ret' = [op |-> op, ok |-> ok,
             hash |-> IF ok /\ op \in Hashing THEN fs[Dir].image ELSE Blank]
  /\ files' = IF stuck THEN fs ELSE [fs EXCEPT !["tmp"] = NoFiles]
  /\ tmpDir' = (tmpDir /\ stuck)
  /\ imageMade' = IF op = "CreateErofsImage" THEN ok ELSE imageMade
  /\ op' = "none" /\ step' = "none"

(* A step has ended well or not: on to the next one, or the call returns. *)
StepEnds(ok, fs) ==
  IF ok /\ step # LastStep(op)
  THEN /\ step' = StepAfter[step]
       /\ files' = fs
       /\ UNCHANGED <<op, tmpDir, ret, imageMade>>
  ELSE Return(ok, fs)

-----------------------------------------------------------------------------
(* A call begins: the temporary directory is made, or the files a call      *)
(* needs are seen to exist.  A call that fails before that changes nothing. *)
CanBegin(o) ==
  /\ o = "ComputeVerityRootHashForLayerFile" => NoFile \notin
       {files["caller"].image, files["caller"].tree}

Begin(o, l) ==
  /\ op = "none"
  /\ CanBegin(o)
  /\ op' = o
  /\ step' = FirstStep(o)
  /\ layer' = l
  /\ cancelled' = FALSE
  /\ tmpDir' = (o = "CalculateDMVerityRootHash")
  /\ stuck' \in {FALSE, tmpDir'}
  /\ files' = [files EXCEPT !["tmp"] = NoFiles]
  /\ ret' = [op |-> o, ok |-> FALSE, hash |-> Blank]
  /\ UNCHANGED <<process, imageMade>>

(* The caller cancels the context of its call. *)
Cancel ==
  /\ op # "none"
  /\ ~cancelled
  /\ cancelled' = TRUE
  /\ UNCHANGED <<op, step, layer, process, files, tmpDir, stuck, ret, imageMade>>

Tools == {"version", "mkfs", "veritysetup"}

(* Cmd.Start refuses a context that is done, or fails (no such program). *)
FailStart ==
  /\ step \in Tools
  /\ child = "none"
  /\ Return(FALSE, files)
  /\ UNCHANGED <<layer, cancelled, process, stuck>>

(* Cmd.Start.  mkfs.erofs and veritysetup write to their files from now on. *)
Start ==
  /\ step \in Tools
  /\ child = "none"
  /\ ~cancelled
  /\ child' = "running"
  /\ copier' = IF step = "mkfs" THEN "reading" ELSE "none"
  /\ files' = CASE step = "mkfs"        -> [files EXCEPT ![Dir].image = Partial]
                [] step = "veritysetup" -> [files EXCEPT ![Dir].tree = Blank]
                [] OTHER                -> files
  /\ UNCHANGED <<op, step, layer, cancelled, signalled, overrun, fed, tmpDir,
                 stuck, ret, imageMade>>

-----------------------------------------------------------------------------
(* The copier, io.Copy from rc to the child's stdin. *)

(* The end of the archive has been delivered. *)
Deliver ==
  /\ copier = "reading"
  /\ child = "running"
  /\ ~fed
  /\ fed' = TRUE
  /\ UNCHANGED <<op, step, layer, cancelled, child, signalled, overrun, copier,
                 files, tmpDir, stuck, ret, imageMade>>

(* rc ends (with the archive), or the child is gone: EPIPE is no error. *)
CopierDone ==
  /\ copier = "reading"
  /\ fed \/ child # "running"
  /\ copier' = "done"
  /\ UNCHANGED <<op, step, layer, cancelled, child, signalled, overrun, fed,
                 files, tmpDir, stuck, ret, imageMade>>

(* rc.Read fails.  The child's stdin is closed as at the end of the input. *)
CopierFails ==
  /\ copier = "reading"
  /\ copier' = "failed"
  /\ UNCHANGED <<op, step, layer, cancelled, child, signalled, overrun, fed,
                 files, tmpDir, stuck, ret, imageMade>>

-----------------------------------------------------------------------------
(* What an exit with status 0 can leave as the image: all of the input; or  *)
(* less, when the input broke off, or when the tool obeyed SIGTERM.         *)
Built == (IF fed THEN {layer} ELSE {})
           \cup (IF signalled \/ (copier = "failed" /\ ~fed) THEN {Partial} ELSE {})

(* The child exits with status 0. *)
ExitOK ==
  /\ child = "running"
  /\ child' = "ok"
  /\ \/ step = "version" /\ files' = files
     \/ step = "mkfs" /\ \E i \in Built : files' = [files EXCEPT ![Dir].image = i]
     \/ step = "veritysetup" /\ files[Dir].image # NoFile
          /\ \E t \in {files[Dir].image} \cup (IF signalled THEN {Blank} ELSE {}) :
               files' = [files EXCEPT ![Dir].tree = t]
  /\ UNCHANGED <<op, step, layer, cancelled, signalled, overrun, copier, fed,
                 tmpDir, stuck, ret, imageMade>>

(* It exits with another status, or by a signal. *)
ExitBad ==
  /\ child = "running"
  /\ child' = "bad"
  /\ UNCHANGED <<op, step, layer, cancelled, signalled, overrun, copier, fed,
                 files, tmpDir, stuck, ret, imageMade>>

(* ctx.Done() reaches os/exec while the child runs: cmd.Cancel(). *)
Signal ==
  /\ child = "running"
  /\ cancelled /\ ~signalled
  /\ signalled' = TRUE
  /\ UNCHANGED <<op, step, layer, cancelled, child, overrun, copier, fed, files,
                 tmpDir, stuck, ret, imageMade>>

MutOverrun ==                   \* no WaitDelay
  /\ FALSE
  /\ UNCHANGED vars

(* WaitDelay after SIGTERM, or after the child's exit if the copier is still *)
(* at work: the child is killed, the pipe closed.                            *)
Overrun ==
  /\ ~overrun
  /\ \/ child = "running" /\ signalled
     \/ child \in {"ok", "bad"} /\ copier = "reading"
  /\ overrun' = TRUE
  /\ child' = IF child = "running" THEN "bad" ELSE child
  /\ UNCHANGED <<op, step, layer, cancelled, signalled, copier, fed, files,
                 tmpDir, stuck, ret, imageMade>>

MutRunOK == child = "ok" /\ ~signalled /\ ~overrun   \* the copier's error lost

MutRunSignalled ==              \* Cancel reports nothing: status 0 is success
  child = "ok" /\ ~overrun /\ copier # "failed"

(* What Cmd.Wait returns is nil: status 0, no signal sent, and the copier    *)
(* ended in time and without an error.                                       *)
RunOK == child = "ok" /\ ~signalled /\ ~overrun /\ copier # "failed"

(* Cmd.Wait returns once the child and the copier have ended.  An output     *)
(* without the required version, or without a root hash, is an error too.    *)
Wait ==
  /\ child \in {"ok", "bad"}
  /\ copier # "reading"
  /\ \E recognized \in BOOLEAN :
       /\ step = "mkfs" => recognized
       /\ StepEnds(RunOK /\ recognized, files)
  /\ child' = "none" /\ signalled' = FALSE /\ overrun' = FALSE
  /\ copier' = "none" /\ fed' = FALSE
  /\ UNCHANGED <<layer, cancelled, stuck>>

(* createHashImageFile, which knows no context: Stat of the image, Create    *)
(* and Truncate of the hash file, each of which may fail.                    *)
Truncate ==
  /\ step = "truncate"
  /\ \/ files[Dir].image # NoFile
          /\ StepEnds(TRUE, [files EXCEPT ![Dir].tree = Blank])
     \/ StepEnds(FALSE, [files EXCEPT ![Dir].tree = Blank])
     \/ StepEnds(FALSE, files)
  /\ UNCHANGED <<layer, cancelled, process, stuck>>

-----------------------------------------------------------------------------
Next ==
  \/ \E o \in Ops, l \in Layers : Begin(o, l)
  \/ Cancel \/ FailStart \/ Start
  \/ Deliver \/ CopierDone \/ CopierFails \/ ExitOK \/ ExitBad
  \/ Signal \/ Overrun \/ Wait \/ Truncate

Spec == Init /\ [][Next]_vars

(* The SDK's goroutines run, WaitDelay passes, and once nobody reads its     *)
(* pipe the copier ends, rc.Read having returned.  Nothing makes a tool read *)
(* or exit, or a caller call or cancel.                                      *)
EndCopier == child # "running" /\ (CopierDone \/ CopierFails)

Fairness ==
  /\ WF_vars(Start \/ FailStart) /\ WF_vars(Wait) /\ WF_vars(Truncate)
  /\ WF_vars(Signal) /\ WF_vars(Overrun) /\ WF_vars(EndCopier)

FairSpec == Spec /\ Fairness
-----------------------------------------------------------------------------
Images == Layers \cup {NoFile, Partial}

TypeOK ==
  /\ op \in Ops \cup {"none"}
  /\ tmpDir => op = "CalculateDMVerityRootHash" \/ (op = "none" /\ stuck)
  /\ stuck \in BOOLEAN
  /\ step \in Tools \cup {"truncate", "none"}
  /\ layer \in Layers
  /\ cancelled \in BOOLEAN
  /\ child \in {"none", "running", "ok", "bad"}
  /\ signalled \in BOOLEAN /\ overrun \in BOOLEAN
  /\ copier \in {"none", "reading", "done", "failed"}
  /\ fed \in BOOLEAN
  /\ files \in [{"tmp", "caller"} -> [image : Images, tree : Images \cup {Blank}]]
  /\ tmpDir \in BOOLEAN
  /\ ret \in [op : Ops \cup {"none"}, ok : BOOLEAN, hash : Images \cup {Blank}]
  /\ imageMade \in BOOLEAN

Returned(o) == op = "none" /\ ret.op = o /\ ret.ok

(* A root hash CalculateDMVerityRootHash returns is that of the whole layer, *)
(* although the input may break off in a way mkfs.erofs takes for its end,   *)
(* and a tool that is told to terminate may exit with status 0.              *)
HashOfWholeLayer ==
  Returned("CalculateDMVerityRootHash") => ret.hash = layer

(* A call returns leaving nothing behind: no child that runs, no goroutine   *)
(* that reads the input, and no temporary directory but one that RemoveAll   *)
(* could not remove, whatever failed or was cancelled.                       *)
NothingLeftBehind ==
  op = "none" => /\ child = "none" /\ copier = "none"
                 /\ stuck \/ (~tmpDir /\ files["tmp"] = NoFiles)

(* The image and the tree in the caller's files belong together once a call  *)
(* has made the tree, and a hash returned for them is theirs.                *)
TreeOfImage ==
  /\ Returned("CreateHashImageFile") \/ Returned("ComputeVerityRootHashForLayerFile")
       => files["caller"].tree = files["caller"].image
  /\ Returned("ComputeVerityRootHashForLayerFile") => ret.hash = files["caller"].image

(* CreateHashImageFile and ComputeVerityRootHashForLayerFile take any file   *)
(* for an image; they report the hash of half an image only to a caller      *)
(* whose last CreateErofsImage returned an error.                            *)
PartialImageReported ==
  op = "none" /\ files["caller"].image = Partial => ~imageMade

(* "WaitDelay duration to limit time for cancellation" (cancel.go:16): a     *)
(* call that is cancelled returns, even if its tool ignores SIGTERM.         *)
CancellationEnds == cancelled /\ op # "none" ~> op = "none"
=============================================================================
