--------------------------- MODULE BuildStageProofs ---------------------------
(***************************************************************************)
(* Theorems about BuildStage.tla, for any files, sizes, texts and number   *)
(* of runs: what a finished build links, wherever earlier ones were cut.   *)
(***************************************************************************)
EXTENDS BuildStage, TLAPS

Running == PCs \ {"idle", "done"}

(* Nothing is dated in the future, and what a run finds is older than it.  *)
Dated ==
  /\ \A f \in Files : dstTime[f] <= now /\ objTime[f] <= now /\ readAt[f] <= now
  /\ arTime <= now /\ started <= now
  /\ pc \in Running => arTime < started
  /\ pc \in Running \ {"make"} =>
       \A f \in Files : obj[f] # NoFile => objTime[f] < started

(* The objects, and the archive of some, are those of the stamp; they are  *)
(* gone by the time it is written, and it is by the time make starts.      *)
Stamped ==
  /\ \A f \in Files : obj[f] # NoFile => obj[f].flags = stamp
  /\ archive # NoFile => \A f \in DOMAIN archive : archive[f].flags = stamp
  /\ pc = "clean" => Compiled \subseteq todo
  /\ pc = "write" => Compiled = {} /\ archive = NoFile
  /\ pc \in {"make", "done"} => stamp = Flags

(* The mirror has what the core has, from the pruning on.                  *)
Mirrored ==
  /\ pc \in {"stage", "copy"} => todo \cup staged = Present /\ staged \subseteq Staged
  /\ pc = "stage" => todo \cap staged = {}
  /\ pc = "copy" => reading # NoFile /\ \E f \in todo : todo \cap staged = {f}
  /\ pc = "prune" => /\ staged = Present /\ staged \subseteq Staged
                     /\ Staged \subseteq staged \cup todo /\ todo \cap staged = {}
  /\ pc \in {"clean", "write", "make", "done"} => staged = Present /\ Staged = staged

(* An object no older than the copy of its source was compiled from it.    *)
Compilings ==
  \A f \in Files :
    obj[f] # NoFile /\ dst[f] # NoFile /\ objTime[f] >= dstTime[f] => obj[f].of = dst[f]

(* An archive no older than an object holds it, and has the files of the   *)
(* core at the stamp's version.                                            *)
Archived ==
  archive # NoFile =>
    /\ \A f \in DOMAIN archive : obj[f] \in {archive[f], NoFile} \/ objTime[f] > arTime
    /\ stamp \in Flavours \X (0..version)
    /\ stamp[2] = version => DOMAIN archive = Present

(* A copy differs from its source only by an edit since it was read; one   *)
(* of this run, only by an edit since the run began, or one it could not   *)
(* see.                                                                    *)
Copying(f) == pc = "copy" /\ f \in todo \cap staged
Copied ==
  /\ \A f \in Files : IF Copying(f)
       THEN /\ reading # src[f] => readAt[f] <= srcTime[f]
            /\ dst[f] = Cut /\ started <= readAt[f]
       ELSE dst[f] \in Contents /\ dst[f] # src[f] => readAt[f] <= srcTime[f]
  /\ pc \in Running \cup {"done"} => \A f \in staged :
       ~Copying(f) /\ MissedEdit(f) => /\ dst[f][1] = src[f][1]
                                       /\ readAt[f] <= srcTime[f] /\ srcTime[f] <= dstTime[f]

IInv ==
  /\ TypeOK /\ Dated /\ Stamped /\ Mirrored /\ Compilings /\ Archived /\ Copied
  /\ FlagsNeverMixed /\ ArchiveOfStage

-----------------------------------------------------------------------------
LEMMA InitIInv == Init => IInv
<1> SUFFICES ASSUME Init PROVE IInv
  OBVIOUS
<1> USE BoundsAssumption DEF BoundsAssumption, Init
<1>1. TypeOK
  BY DEF TypeOK, Times, PCs, Flavours
<1>2. Dated /\ Stamped /\ Mirrored
  BY DEF Dated, Stamped, Mirrored, Running
<1>3. Compilings /\ Archived
  BY DEF Compilings, Archived
<1>4. Copied
  BY FilesAssumption DEF Copied, Copying
<1>5. FlagsNeverMixed /\ ArchiveOfStage
  BY DEF FlagsNeverMixed, ArchiveOfStage
<1> QED
  BY <1>1, <1>2, <1>3, <1>4, <1>5 DEF IInv

-----------------------------------------------------------------------------
(* The clock moves on before a run: all it finds is older than it.         *)
LEMMA StartStep == ASSUME IInv, Start PROVE IInv'
<1> USE BoundsAssumption DEF BoundsAssumption, Start, IInv, srcVars, dstVars,
        objVars
<1>1. TypeOK'
  BY DEF TypeOK, PCs, Present
<1>2. Dated'
  BY DEF TypeOK, Times, Dated
<1>3. Stamped'
  BY DEF Stamped
<1>4. Mirrored'
  BY DEF Mirrored, Present
<1>5. Compilings'
  BY DEF Compilings
<1>6. Archived'
  BY DEF Archived, Present
<1>7. Copied'
  BY DEF Copied, Copying
<1>8. FlagsNeverMixed'
  BY DEF FlagsNeverMixed
<1>9. ArchiveOfStage'
  BY DEF ArchiveOfStage
<1> QED
  BY <1>1, <1>2, <1>3, <1>4, <1>5, <1>6, <1>7, <1>8, <1>9

(* A copy that is kept has the size of its source, so it is not one that   *)
(* was cut short.                                                          *)
LEMMA KeepCopyStep == ASSUME IInv, NEW f \in Files, KeepCopy(f) PROVE IInv'
<1> USE SizesAssumption DEF SizesAssumption, KeepCopy, IInv, srcVars, dstVars,
        objVars, clockVars, historyVars
<1>1. TypeOK'
  BY DEF TypeOK
<1>2. Dated'
  BY DEF Dated
<1>3. Stamped'
  BY DEF Stamped
<1>4. Mirrored'
  BY DEF Mirrored, Staged, Present, IsCurrent
<1>5. Compilings'
  BY DEF Compilings
<1>6. Archived'
  BY DEF Archived, Present
<1>7. Copied'
  <2>1. dst[f] \in Contents /\ ~Copying(f)
    <3>1. src[f] \in Contents /\ dst[f] \in Contents \cup {Cut}
      BY DEF TypeOK, Mirrored, Present, IsCurrent
    <3>2. src[f][1] # 0 /\ Cut[1] = 0
      BY <3>1 DEF Contents, Cut
    <3> QED
      BY <3>1, <3>2 DEF IsCurrent, Copying
  <2>2. dst[f] # src[f] => readAt[f] <= srcTime[f]
    BY <2>1 DEF Copied
  <2> QED
    BY <2>1, <2>2 DEF Copied, Copying, MissedEdit, IsCurrent
<1>8. FlagsNeverMixed'
  BY DEF FlagsNeverMixed
<1>9. ArchiveOfStage'
  BY DEF ArchiveOfStage
<1> QED
  BY <1>1, <1>2, <1>3, <1>4, <1>5, <1>6, <1>7, <1>8, <1>9

(* A copy is newer than any object, until make compiles it.                *)
LEMMA BeginCopyStep == ASSUME IInv, NEW f \in Files, BeginCopy(f) PROVE IInv'
<1> USE FilesAssumption, SizesAssumption DEF FilesAssumption, SizesAssumption,
        BeginCopy, IInv, srcVars, objVars, clockVars
<1>1. TypeOK'
  BY DEF TypeOK, PCs, Times
<1>2. Dated'
  BY DEF TypeOK, Dated, Running
<1>3. Stamped'
  BY DEF Stamped
<1>4. Mirrored'
  BY DEF TypeOK, Mirrored, Staged, Present
<1>5. Compilings'
  BY DEF TypeOK, Times, Dated, Running, Compilings
<1>6. Archived'
  BY DEF Archived, Present
<1>7. Copied'
  BY DEF TypeOK, Times, Copied, Copying, Mirrored, Dated, MissedEdit, Running
<1>8. FlagsNeverMixed'
  BY DEF FlagsNeverMixed
<1>9. ArchiveOfStage'
  BY DEF ArchiveOfStage
<1> QED
  BY <1>1, <1>2, <1>3, <1>4, <1>5, <1>6, <1>7, <1>8, <1>9

(* What was read at the time of the copy is written.                       *)
LEMMA EndCopyStep == ASSUME IInv, NEW f \in Files, EndCopy(f) PROVE IInv'
<1> USE DEF EndCopy, IInv, srcVars, objVars, clockVars, historyVars
<1>1. TypeOK'
  BY DEF TypeOK, PCs, Times
<1>2. Dated'
  BY DEF TypeOK, Dated, Running
<1>3. Stamped'
  BY DEF Stamped
<1>4. Mirrored'
  BY DEF Mirrored, Staged, Present
<1>5. Compilings'
  BY DEF TypeOK, Times, Dated, Running, Compilings
<1>6. Archived'
  BY DEF Archived, Present
<1>7. Copied'
  BY DEF TypeOK, Times, Copied, Copying, Mirrored, MissedEdit, Running
<1>8. FlagsNeverMixed'
  BY DEF FlagsNeverMixed
<1>9. ArchiveOfStage'
  BY DEF ArchiveOfStage
<1> QED
  BY <1>1, <1>2, <1>3, <1>4, <1>5, <1>6, <1>7, <1>8, <1>9

(* All the files of the core are staged by now.                            *)
LEMMA BeginPruneStep == ASSUME IInv, BeginPrune PROVE IInv'
<1> USE DEF BeginPrune, IInv, srcVars, dstVars, objVars, clockVars, historyVars
<1>1. TypeOK'
  BY DEF TypeOK, PCs, Staged
<1>2. Dated'
  BY DEF Dated, Running, PCs
<1>3. Stamped'
  BY DEF Stamped
<1>4. Mirrored'
  BY DEF Mirrored, Staged, Present
<1>5. Compilings'
  BY DEF Compilings
<1>6. Archived'
  BY DEF Archived, Present
<1>7. Copied'
  BY DEF Copied, Copying, MissedEdit, Running, PCs
<1>8. FlagsNeverMixed'
  BY DEF FlagsNeverMixed
<1>9. ArchiveOfStage'
  BY DEF ArchiveOfStage
<1> QED
  BY <1>1, <1>2, <1>3, <1>4, <1>5, <1>6, <1>7, <1>8, <1>9

LEMMA PruneStep == ASSUME IInv, NEW f \in Files, Prune(f) PROVE IInv'
<1> USE FilesAssumption DEF FilesAssumption, Prune, IInv, srcVars, objVars,
        clockVars, historyVars
<1>1. TypeOK'
  BY DEF TypeOK
<1>2. Dated'
  BY DEF Dated
<1>3. Stamped'
  BY DEF Stamped
<1>4. Mirrored'
  BY DEF TypeOK, Mirrored, Staged, Present
<1>5. Compilings'
  BY DEF Compilings
<1>6. Archived'
  BY DEF Archived, Present
<1>7. Copied'
  BY DEF Copied, Copying, Mirrored, MissedEdit
<1>8. FlagsNeverMixed'
  BY DEF FlagsNeverMixed
<1>9. ArchiveOfStage'
  BY DEF ArchiveOfStage
<1> QED
  BY <1>1, <1>2, <1>3, <1>4, <1>5, <1>6, <1>7, <1>8, <1>9

LEMMA CompareStampStep == ASSUME IInv, CompareStamp PROVE IInv'
<1> USE DEF CompareStamp, IInv, srcVars, dstVars, objVars, clockVars,
        historyVars
<1>1. TypeOK'
  BY DEF TypeOK, PCs, Compiled
<1>2. Dated'
  BY DEF Dated, Running, PCs
<1>3. Stamped'
  BY DEF Stamped, Flags, Compiled
<1>4. Mirrored'
  BY DEF Mirrored, Staged, Present
<1>5. Compilings'
  BY DEF Compilings
<1>6. Archived'
  BY DEF Archived, Present
<1>7. Copied'
  BY DEF Copied, Copying, MissedEdit, Running, PCs
<1>8. FlagsNeverMixed'
  BY DEF FlagsNeverMixed
<1>9. ArchiveOfStage'
  BY DEF ArchiveOfStage
<1> QED
  BY <1>1, <1>2, <1>3, <1>4, <1>5, <1>6, <1>7, <1>8, <1>9

LEMMA RemoveObjectStep == ASSUME IInv, NEW f \in Files, RemoveObject(f) PROVE IInv'
<1> USE DEF RemoveObject, IInv, srcVars, dstVars, clockVars, historyVars
<1>1. TypeOK'
  BY DEF TypeOK
<1>2. Dated'
  BY DEF Dated
<1>3. Stamped'
  BY DEF TypeOK, Stamped, Compiled
<1>4. Mirrored'
  BY DEF Mirrored, Staged, Present
<1>5. Compilings'
  BY DEF Compilings
<1>6. Archived'
  BY DEF Archived, Present
<1>7. Copied'
  BY DEF Copied, Copying, MissedEdit
<1>8. FlagsNeverMixed'
  BY DEF FlagsNeverMixed
<1>9. ArchiveOfStage'
  BY DEF ArchiveOfStage
<1> QED
  BY <1>1, <1>2, <1>3, <1>4, <1>5, <1>6, <1>7, <1>8, <1>9

(* The archive goes last, and with the objects gone already.               *)
LEMMA RemoveArchiveStep == ASSUME IInv, RemoveArchive PROVE IInv'
<1> USE DEF RemoveArchive, IInv, srcVars, dstVars, clockVars, historyVars
<1>1. TypeOK'
  BY DEF TypeOK, PCs
<1>2. Dated'
  BY DEF Dated, Running, PCs
<1>3. Stamped'
  BY DEF Stamped, Compiled
<1>4. Mirrored'
  BY DEF Mirrored, Staged, Present
<1>5. Compilings'
  BY DEF Compilings
<1>6. Archived'
  BY DEF Archived
<1>7. Copied'
  BY DEF Copied, Copying, MissedEdit, Running, PCs
<1>8. FlagsNeverMixed'
  BY DEF FlagsNeverMixed
<1>9. ArchiveOfStage'
  BY DEF ArchiveOfStage
<1> QED
  BY <1>1, <1>2, <1>3, <1>4, <1>5, <1>6, <1>7, <1>8, <1>9

(* Nothing is left that the stamp would lie about.                         *)
LEMMA WriteStampStep == ASSUME IInv, WriteStamp PROVE IInv'
<1> USE DEF WriteStamp, IInv, srcVars, dstVars, objVars, clockVars, historyVars
<1>1. TypeOK'
  BY DEF TypeOK, PCs, Flags
<1>2. Dated'
  BY DEF Dated, Running, PCs
<1>3. Stamped'
  BY DEF Stamped, Flags, Compiled
<1>4. Mirrored'
  BY DEF Mirrored, Staged, Present
<1>5. Compilings'
  BY DEF Compilings
<1>6. Archived'
  BY DEF Archived, Stamped
<1>7. Copied'
  BY DEF Copied, Copying, MissedEdit, Running, PCs
<1>8. FlagsNeverMixed'
  BY DEF FlagsNeverMixed
<1>9. ArchiveOfStage'
  BY DEF ArchiveOfStage
<1> QED
  BY <1>1, <1>2, <1>3, <1>4, <1>5, <1>6, <1>7, <1>8, <1>9

(* Compiled with the flags of the stamp, from what is staged.              *)
LEMMA CompileStep == ASSUME IInv, NEW f \in Files, Compile(f) PROVE IInv'
<1> USE DEF Compile, IInv, srcVars, dstVars, scriptVars, clockVars, historyVars
<1>1. TypeOK'
  BY DEF TypeOK, Times, Objects, Flags
<1>2. Dated'
  BY DEF TypeOK, Dated
<1>3. Stamped'
  BY DEF Stamped, Flags
<1>4. Mirrored'
  BY DEF Mirrored, Staged, Present
<1>5. Compilings'
  BY DEF TypeOK, Compilings
<1>6. Archived'
  BY DEF TypeOK, Times, Archived, Present, Dated, Running
<1>7. Copied'
  BY DEF Copied, Copying, MissedEdit
<1>8. FlagsNeverMixed'
  BY DEF FlagsNeverMixed
<1>9. ArchiveOfStage'
  BY DEF ArchiveOfStage
<1> QED
  BY <1>1, <1>2, <1>3, <1>4, <1>5, <1>6, <1>7, <1>8, <1>9

(* Put together again or not, the archive is of the objects there are.     *)
LEMMA MakeEndsStep == ASSUME IInv, MakeEnds PROVE IInv'
<1> USE DEF MakeEnds, IInv, srcVars, dstVars, clockVars, historyVars
<1>1. TypeOK'
  <2>1. archive' # NoFile =>
          DOMAIN archive' \subseteq Files /\ \A f \in DOMAIN archive' : archive'[f] \in Objects
    <3>1. CASE archive' = [f \in Staged |-> obj[f]]
      BY <3>1 DEF TypeOK, Staged, OutOfDate
    <3>2. CASE archive' = archive
      BY <3>2 DEF TypeOK
    <3> QED
      BY <3>1, <3>2
  <2>2. arTime' \in Nat
    BY DEF TypeOK
  <2> QED
    BY <2>1, <2>2 DEF TypeOK, PCs
<1>2. Dated'
  BY DEF TypeOK, Dated, Running
<1>3. Stamped'
  <2>1. archive' # NoFile => \A f \in DOMAIN archive' : archive'[f].flags = stamp
    <3>1. CASE archive' = [f \in Staged |-> obj[f]]
      BY <3>1 DEF Stamped, Staged, OutOfDate
    <3>2. CASE archive' = archive
      BY <3>2 DEF Stamped
    <3> QED
      BY <3>1, <3>2
  <2> QED
    BY <2>1 DEF Stamped, Flags
<1>4. Mirrored'
  BY DEF Mirrored, Staged, Present
<1>5. Compilings'
  BY DEF Compilings
<1>6. Archived'
  <2>1. stamp = Flags /\ stamp \in Flavours \X (0..version)
    BY DEF Stamped, Flags, TypeOK
  <2>2. CASE archive' = [f \in Staged |-> obj[f]]
    BY <2>1, <2>2 DEF Archived, Mirrored, Present
  <2>3. CASE UNCHANGED <<archive, arTime>>
    BY <2>3 DEF Archived, Present
  <2> QED
    BY <2>2, <2>3
<1>7. Copied'
  BY DEF Copied, Copying, MissedEdit, Running, PCs
<1>8. FlagsNeverMixed'
  <2>1. stamp = Flags /\ stamp' = Flags'
    BY DEF Stamped, Flags
  <2>2. CASE archive' = [f \in Staged |-> obj[f]]
    BY <2>1, <2>2 DEF Stamped, Staged, OutOfDate, FlagsNeverMixed
  <2>3. CASE archive' = archive /\ archive # NoFile
    BY <2>1, <2>3 DEF Stamped, FlagsNeverMixed
  <2> QED
    BY <2>2, <2>3
<1>9. ArchiveOfStage'
  <2>1. staged = Present /\ Staged = staged
    BY DEF Mirrored
  <2>2. \A f \in Staged : f \in Files /\ obj[f] # NoFile /\ obj[f].of = dst[f]
    BY DEF Compilings, OutOfDate, Staged, TypeOK, Times
  <2>3. CASE archive' = [f \in Staged |-> obj[f]]
    BY <2>1, <2>2, <2>3 DEF ArchiveOfStage
  <2>4. CASE archive' = archive /\ archive # NoFile /\ \A f \in Staged : ~(objTime[f] > arTime)
    <3>1. DOMAIN archive = staged
      BY <2>1, <2>4 DEF Archived, Stamped, Flags
    <3>2. \A f \in staged : archive[f] = obj[f]
      BY <2>1, <2>2, <2>4, <3>1 DEF Archived
    <3> QED
      BY <2>1, <2>2, <2>4, <3>1, <3>2 DEF ArchiveOfStage
  <2> QED
    BY <2>3, <2>4
<1> QED
  BY <1>1, <1>2, <1>3, <1>4, <1>5, <1>6, <1>7, <1>8, <1>9

(* What a run leaves when it is killed; a cut copy is not its source.      *)
LEMMA KilledStep == ASSUME IInv, Killed PROVE IInv'
<1> USE SizesAssumption DEF SizesAssumption, Killed, IInv, srcVars, dstVars,
        objVars, clockVars, historyVars
<1>1. TypeOK'
  BY DEF TypeOK, PCs
<1>2. Dated'
  BY DEF Dated, Running
<1>3. Stamped'
  BY DEF Stamped, Compiled
<1>4. Mirrored'
  BY DEF Mirrored
<1>5. Compilings'
  BY DEF Compilings
<1>6. Archived'
  BY DEF Archived, Present, Stamped
<1>7. Copied'
  <2>1. Cut \notin Contents
    BY DEF Cut, Contents
  <2>2. ASSUME NEW f \in Files, dst[f] \in Contents, dst[f] # src[f]
        PROVE  readAt[f] <= srcTime[f]
    <3>1. ~Copying(f)
      BY <2>1, <2>2 DEF Copied
    <3> QED
      BY <2>2, <3>1 DEF Copied
  <2> QED
    BY <2>2 DEF Copied, Copying
<1>8. FlagsNeverMixed'
  BY DEF FlagsNeverMixed
<1>9. ArchiveOfStage'
  BY DEF ArchiveOfStage
<1> QED
  BY <1>1, <1>2, <1>3, <1>4, <1>5, <1>6, <1>7, <1>8, <1>9

(* An edit in a run is no older than the run, nor than what the run read.  *)
LEMMA EditStep == ASSUME IInv, NEW f \in Files, NEW c \in Contents, Edit(f, c) PROVE IInv'
<1> USE BoundsAssumption, FilesAssumption DEF BoundsAssumption, FilesAssumption,
        Edit, IInv, dstVars, objVars, scriptVars, historyVars
<1>1. TypeOK'
  BY DEF TypeOK, Times
<1>2. Dated'
  BY DEF Dated
<1>3. Stamped'
  BY DEF Stamped, Flags, Compiled
<1>4. Mirrored'
  BY DEF Mirrored, Staged, Present
<1>5. Compilings'
  BY DEF Compilings
<1>6. Archived'
  BY DEF Archived, Present
<1>7. Copied'
  BY DEF TypeOK, Times, Copied, Copying, Dated, MissedEdit
<1>8. FlagsNeverMixed'
  BY DEF FlagsNeverMixed, Flags
<1>9. ArchiveOfStage'
  BY DEF ArchiveOfStage
<1> QED
  BY <1>1, <1>2, <1>3, <1>4, <1>5, <1>6, <1>7, <1>8, <1>9

(* No archive is of the version that comes.                                *)
LEMMA BumpStep == ASSUME IInv, NEW f \in Files, NEW c \in Contents \cup {NoFile}, Bump(f, c) PROVE IInv'
<1> USE BoundsAssumption, FilesAssumption DEF BoundsAssumption, FilesAssumption,
        Bump, IInv, dstVars, objVars, historyVars
<1>1. TypeOK'
  BY DEF TypeOK, PCs, Times
<1>2. Dated'
  BY DEF Dated, Running
<1>3. Stamped'
  BY DEF Stamped
<1>4. Mirrored'
  BY DEF Mirrored
<1>5. Compilings'
  BY DEF Compilings
<1>6. Archived'
  BY DEF TypeOK, Archived
<1>7. Copied'
  BY DEF TypeOK, Times, Copied, Copying, Dated, Running
<1>8. FlagsNeverMixed'
  BY DEF FlagsNeverMixed
<1>9. ArchiveOfStage'
  BY DEF ArchiveOfStage
<1> QED
  BY <1>1, <1>2, <1>3, <1>4, <1>5, <1>6, <1>7, <1>8, <1>9

LEMMA SwitchFlavourStep == ASSUME IInv, SwitchFlavour PROVE IInv'
<1> USE DEF SwitchFlavour, IInv, srcVars, dstVars, objVars, clockVars,
        historyVars
<1>1. TypeOK'
  BY DEF TypeOK, PCs
<1>2. Dated'
  BY DEF Dated, Running
<1>3. Stamped'
  BY DEF Stamped
<1>4. Mirrored'
  BY DEF Mirrored
<1>5. Compilings'
  BY DEF Compilings
<1>6. Archived'
  BY DEF Archived, Present
<1>7. Copied'
  BY DEF Copied, Copying, Running
<1>8. FlagsNeverMixed'
  BY DEF FlagsNeverMixed
<1>9. ArchiveOfStage'
  BY DEF ArchiveOfStage
<1> QED
  BY <1>1, <1>2, <1>3, <1>4, <1>5, <1>6, <1>7, <1>8, <1>9

LEMMA TickStep == ASSUME IInv, Tick PROVE IInv'
<1> USE BoundsAssumption DEF BoundsAssumption, Tick, IInv, srcVars, dstVars,
        objVars, scriptVars, historyVars
<1>1. TypeOK'
  BY DEF TypeOK
<1>2. Dated'
  BY DEF TypeOK, Times, Dated
<1>3. Stamped'
  BY DEF Stamped, Flags, Compiled
<1>4. Mirrored'
  BY DEF Mirrored, Staged, Present
<1>5. Compilings'
  BY DEF Compilings
<1>6. Archived'
  BY DEF Archived, Present
<1>7. Copied'
  BY DEF Copied, Copying, MissedEdit
<1>8. FlagsNeverMixed'
  BY DEF FlagsNeverMixed, Flags
<1>9. ArchiveOfStage'
  BY DEF ArchiveOfStage
<1> QED
  BY <1>1, <1>2, <1>3, <1>4, <1>5, <1>6, <1>7, <1>8, <1>9

LEMMA StutterStep == ASSUME IInv, UNCHANGED vars PROVE IInv'
<1> USE DEF vars, IInv, srcVars, dstVars, objVars, scriptVars, clockVars, historyVars
<1>1. TypeOK' /\ Dated' /\ Stamped' /\ Mirrored'
  BY DEF TypeOK, Dated, Stamped, Flags, Compiled, Mirrored, Staged, Present
<1>2. Compilings' /\ Archived' /\ Copied'
  BY DEF Compilings, Archived, Present, Copied, Copying, MissedEdit
<1>3. FlagsNeverMixed' /\ ArchiveOfStage'
  BY DEF FlagsNeverMixed, Flags, ArchiveOfStage
<1> QED
  BY <1>1, <1>2, <1>3

LEMMA IInvStep == ASSUME IInv, [Next]_vars PROVE IInv'
<1>1. CASE Stage
  BY <1>1, StartStep, BeginPruneStep, KeepCopyStep, BeginCopyStep, EndCopyStep, PruneStep
  DEF Stage
<1>2. CASE Make
  BY <1>2, CompareStampStep, RemoveArchiveStep, WriteStampStep, MakeEndsStep,
     RemoveObjectStep, CompileStep DEF Make
<1>3. CASE Develop
  BY <1>3, EditStep, BumpStep, SwitchFlavourStep, TickStep DEF Develop
<1> QED
  BY <1>1, <1>2, <1>3, KilledStep, StutterStep DEF Next

-----------------------------------------------------------------------------
(* The invariant: what dates, stamp, mirror, objects and archive say of    *)
(* each other at every step of a run, and wherever one was killed.         *)
THEOREM Invariance == Spec => []IInv
<1> QED
  BY InitIInv, IInvStep, PTL DEF Spec

(* Every variable has the type it should.                                  *)
THEOREM TypeCorrect == Spec => []TypeOK
<1>1. IInv => TypeOK
  BY DEF IInv
<1> QED
  BY <1>1, Invariance, PTL

(* What a finished build links is of the flavour and version asked for,    *)
(* wherever earlier builds were cut short (build.rs:383-390).              *)
THEOREM OneFlavour == Spec => []FlagsNeverMixed
<1>1. IInv => FlagsNeverMixed
  BY DEF IInv
<1> QED
  BY <1>1, Invariance, PTL

(* What a finished build links is compiled from what is staged, and from   *)
(* nothing else (build.rs:351-354).                                        *)
THEOREM TheseSources == Spec => []ArchiveOfStage
<1>1. IInv => ArchiveOfStage
  BY DEF IInv
<1> QED
  BY <1>1, Invariance, PTL

(* A finished build misses no edit made before it began but one that kept  *)
(* the size of its file and fell within a copy of it (build.rs:339-346).   *)
THEOREM MissesLittle == Spec => []MissesOnlyEditsInCopy
<1>1. ASSUME IInv, pc = "done", NEW f \in Present, MissedEdit(f)
      PROVE  dst[f][1] = src[f][1] /\ readAt[f] <= srcTime[f] /\ srcTime[f] <= dstTime[f]
  <2>1. f \in staged /\ ~Copying(f)
    BY <1>1 DEF IInv, Mirrored, Copying
  <2> QED
    BY <1>1, <2>1 DEF IInv, Copied
<1>2. IInv => MissesOnlyEditsInCopy
  BY <1>1 DEF MissesOnlyEditsInCopy
<1> QED
  BY <1>2, Invariance, PTL
=============================================================================
