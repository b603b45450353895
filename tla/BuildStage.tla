------------------------------ MODULE BuildStage ------------------------------
(***************************************************************************)
(* The build of the vendored core: rayforce-sys/build.rs.                  *)
(*                                                                         *)
(* Each run of the build script mirrors the core's sources into OUT_DIR,   *)
(* drops the objects there if they were compiled with other flags, and     *)
(* runs make, which compiles what is newer than its object.  OUT_DIR       *)
(* outlives the run: a run that was killed at any point leaves the next    *)
(* one whatever it had done.  Sources are edited at any time, the flavour  *)
(* asked for and the core's version change between runs.                   *)
(***************************************************************************)
EXTENDS Naturals, FiniteSets

CONSTANTS
  Files,       \* source files of the core
  NoFile,      \* what is not there
  Sizes,       \* the sizes a file can have
  Texts,       \* what tells files of one size apart
  MaxRuns,     \* bound: runs of the build script
  MaxEdits,    \* bound: edits and version bumps
  MaxTime      \* bound: instants of the file system's clock

ASSUME SizesAssumption == Sizes \subseteq Nat \ {0}
ASSUME TextsAssumption == Texts # {}
ASSUME BoundsAssumption == MaxRuns \in Nat /\ MaxEdits \in Nat /\ MaxTime \in Nat

Contents == Sizes \X Texts
Flavours == {"release", "debug"}
Cut == <<0, "cut">>       \* a file whose writing was cut short

ASSUME FilesAssumption == NoFile \notin Contents \cup {Cut}

VARIABLES
  src, srcTime,     \* the submodule: contents and modification times
  dst, dstTime,     \* its mirror in OUT_DIR
  obj, objTime,     \* obj[f]: what f's object was compiled from and with
  archive, arTime,  \* librayforce.a: its members, or NoFile
  stamp,            \* .stamp: the flags it names, or NoFile when it names none
  flavour,          \* RAYFORCE_CORE_DEBUG
  version,          \* CORE_VERSION and CORE_COMMIT
  pc,               \* how far the build script is
  todo,             \* the files its current loop has not visited
  staged,           \* the files it has staged
  reading,          \* the contents fs::copy has read and is writing
  now, runs, edits, \* the clock, and what the bounds count
  started, readAt   \* history: when the run began, when each file was last read

srcVars == <<src, srcTime, version>>
dstVars == <<dst, dstTime>>
objVars == <<obj, objTime, archive, arTime>>
scriptVars == <<pc, todo, staged, reading>>
clockVars == <<now, runs, edits>>
historyVars == <<started, readAt>>
vars == <<srcVars, dstVars, objVars, stamp, flavour, scriptVars, clockVars, historyVars>>

PCs == {"idle", "stage", "copy", "prune", "clean", "write", "make", "done"}
Flags == <<flavour, version>>
Present == {f \in Files : src[f] # NoFile}
Staged == {f \in Files : dst[f] # NoFile}

Times == [Files -> Nat]
Objects == [of : Contents \cup {Cut, NoFile}, flags : Flavours \X Nat]

TypeOK ==
  /\ src \in [Files -> Contents \cup {NoFile}] /\ srcTime \in Times
  /\ dst \in [Files -> Contents \cup {Cut, NoFile}] /\ dstTime \in Times
  /\ obj \in [Files -> Objects \cup {NoFile}] /\ objTime \in Times
  /\ archive # NoFile =>
       DOMAIN archive \subseteq Files /\ \A f \in DOMAIN archive : archive[f] \in Objects
  /\ arTime \in Nat
  /\ stamp \in (Flavours \X Nat) \cup {NoFile}
  /\ flavour \in Flavours /\ version \in Nat
  /\ pc \in PCs /\ todo \in SUBSET Files /\ staged \in SUBSET Files
  /\ reading \in Contents \cup {NoFile}
  /\ now \in 0..MaxTime /\ runs \in 0..MaxRuns /\ edits \in 0..MaxEdits
  /\ started \in Nat /\ readAt \in Times

(* A fresh checkout and an empty OUT_DIR.                                  *)
Init ==
  /\ src \in [Files -> Contents \cup {NoFile}] /\ Present # {}
  /\ dst = [f \in Files |-> NoFile] /\ obj = [f \in Files |-> NoFile]
  /\ archive = NoFile /\ stamp = NoFile
  /\ srcTime = [f \in Files |-> 0] /\ dstTime = [f \in Files |-> 0]
  /\ objTime = [f \in Files |-> 0] /\ readAt = [f \in Files |-> 0] /\ arTime = 0
  /\ flavour = "release" /\ version = 0
  /\ pc = "idle" /\ todo = {} /\ staged = {} /\ reading = NoFile
  /\ now = 0 /\ runs = 0 /\ edits = 0 /\ started = 0

-----------------------------------------------------------------------------
(* stage_core *)

Start ==
  /\ pc \in {"idle", "done"} /\ runs < MaxRuns /\ now < MaxTime
  /\ pc' = "stage" /\ todo' = Present /\ staged' = {}
  /\ now' = now + 1 /\ runs' = runs + 1 /\ started' = now + 1
  /\ UNCHANGED <<srcVars, dstVars, objVars, stamp, flavour, reading, edits, readAt>>

(* Slip: is_current asks for the size alone.                               *)
IsCurrentBySize(f) == dst[f] # NoFile /\ dst[f][1] = src[f][1]

(* is_current: the copy is no older than the source, and of its size.      *)
IsCurrent(f) ==
  /\ dst[f] # NoFile
  /\ dstTime[f] >= srcTime[f] /\ dst[f][1] = src[f][1]

(* copy_if_stale, on a file that is current.                               *)
KeepCopy(f) ==
  /\ pc = "stage" /\ f \in todo /\ IsCurrent(f)
  /\ todo' = todo \ {f} /\ staged' = staged \cup {f}
  /\ UNCHANGED <<srcVars, dstVars, objVars, stamp, flavour, pc, reading, clockVars,
                 historyVars>>

(* copy_if_stale on one that is not: fs::copy truncates the destination,   *)
(* reads, and writes; the file may be edited in between.                   *)
BeginCopy(f) ==
  /\ pc = "stage" /\ f \in todo /\ ~IsCurrent(f)
  /\ pc' = "copy" /\ staged' = staged \cup {f}
  /\ reading' = src[f] /\ readAt' = [readAt EXCEPT ![f] = now]
  /\ dst' = [dst EXCEPT ![f] = Cut] /\ dstTime' = [dstTime EXCEPT ![f] = now]
  /\ UNCHANGED <<srcVars, objVars, stamp, flavour, todo, clockVars, started>>

EndCopy(f) ==
  /\ pc = "copy" /\ f \in todo \cap staged
  /\ pc' = "stage" /\ todo' = todo \ {f}
  /\ dst' = [dst EXCEPT ![f] = reading] /\ dstTime' = [dstTime EXCEPT ![f] = now]
  /\ reading' = NoFile
  /\ UNCHANGED <<srcVars, objVars, stamp, flavour, staged, clockVars, historyVars>>

(* Slip: nothing is pruned.                                                *)
PruneNothing ==
  /\ pc = "stage" /\ todo = {}
  /\ pc' = "prune" /\ todo' = {}
  /\ UNCHANGED <<srcVars, dstVars, objVars, stamp, flavour, staged, reading, clockVars,
                 historyVars>>

(* prune_stale walks the mirror; it removes what was not staged.           *)
BeginPrune ==
  /\ pc = "stage" /\ todo = {}
  /\ pc' = "prune" /\ todo' = Staged \ staged
  /\ UNCHANGED <<srcVars, dstVars, objVars, stamp, flavour, staged, reading, clockVars,
                 historyVars>>

Prune(f) ==
  /\ pc = "prune" /\ f \in todo
  /\ dst' = [dst EXCEPT ![f] = NoFile]
  /\ todo' = todo \ {f}
  /\ UNCHANGED <<srcVars, dstTime, objVars, stamp, flavour, pc, staged, reading, clockVars,
                 historyVars>>

-----------------------------------------------------------------------------
(* build_core_lib: invalidate_on_stamp_change, then make lib *)

Compiled == {f \in Files : obj[f] # NoFile}

(* Slip: the stamp is written before the objects are gone.                 *)
CompareStampFirst ==
  /\ pc = "prune" /\ todo = {}
  /\ stamp' = Flags
  /\ IF stamp = Flags THEN pc' = "make" /\ UNCHANGED todo
                      ELSE pc' = "clean" /\ todo' = Compiled
  /\ UNCHANGED <<srcVars, dstVars, objVars, flavour, staged, reading, clockVars, historyVars>>

(* The stamp names the flags the objects were compiled with, or they go.   *)
CompareStamp ==
  /\ pc = "prune" /\ todo = {}
  /\ IF stamp = Flags THEN pc' = "make" /\ UNCHANGED todo
                      ELSE pc' = "clean" /\ todo' = Compiled
  /\ UNCHANGED <<srcVars, dstVars, objVars, stamp, flavour, staged, reading, clockVars,
                 historyVars>>

RemoveObject(f) ==
  /\ pc = "clean" /\ f \in todo
  /\ obj' = [obj EXCEPT ![f] = NoFile]
  /\ todo' = todo \ {f}
  /\ UNCHANGED <<srcVars, dstVars, objTime, archive, arTime, stamp, flavour, pc, staged,
                 reading, clockVars, historyVars>>

RemoveArchive ==
  /\ pc = "clean" /\ todo = {}
  /\ archive' = NoFile /\ pc' = "write"
  /\ UNCHANGED <<srcVars, dstVars, obj, objTime, arTime, stamp, flavour, todo, staged, reading,
                 clockVars, historyVars>>

WriteStamp ==
  /\ pc = "write"
  /\ stamp' = Flags /\ pc' = "make"
  /\ UNCHANGED <<srcVars, dstVars, objVars, flavour, todo, staged, reading, clockVars,
                 historyVars>>

(* make: an object that is missing or older than its source is compiled,   *)
(* with the flags on the command line, in any order; an archive that is    *)
(* missing or older than an object is put together again.                  *)
OutOfDate(f) == obj[f] = NoFile \/ objTime[f] < dstTime[f]

Compile(f) ==
  /\ pc = "make" /\ f \in Staged /\ OutOfDate(f)
  /\ obj' = [obj EXCEPT ![f] = [of |-> dst[f], flags |-> Flags]]
  /\ objTime' = [objTime EXCEPT ![f] = now]
  /\ UNCHANGED <<srcVars, dstVars, archive, arTime, stamp, flavour, scriptVars, clockVars,
                 historyVars>>

MakeEnds ==
  /\ pc = "make" /\ \A f \in Staged : ~OutOfDate(f)
  /\ IF archive = NoFile \/ \E f \in Staged : objTime[f] > arTime
       THEN archive' = [f \in Staged |-> obj[f]] /\ arTime' = now
       ELSE UNCHANGED <<archive, arTime>>
  /\ pc' = "done"
  /\ UNCHANGED <<srcVars, dstVars, obj, objTime, stamp, flavour, todo, staged, reading, clockVars,
                 historyVars>>

(* The build is killed, or a step of it fails and the script panics.  A    *)
(* write cut short leaves its file so.                                     *)
Killed ==
  /\ pc \notin {"idle", "done"}
  /\ stamp' \in IF pc = "write" THEN {stamp, NoFile} ELSE {stamp}
  /\ pc' = "idle" /\ todo' = {} /\ staged' = {} /\ reading' = NoFile
  /\ UNCHANGED <<srcVars, dstVars, objVars, flavour, clockVars, historyVars>>

-----------------------------------------------------------------------------
(* The developer *)

Edit(f, c) ==
  /\ edits < MaxEdits /\ f \in Present /\ c # src[f]
  /\ src' = [src EXCEPT ![f] = c] /\ srcTime' = [srcTime EXCEPT ![f] = now]
  /\ edits' = edits + 1
  /\ UNCHANGED <<version, dstVars, objVars, stamp, flavour, scriptVars, now, runs, historyVars>>

(* A new pin of the submodule, with CORE_VERSION or CORE_COMMIT to match:  *)
(* a file comes, goes or changes.                                          *)
Bump(f, c) ==
  /\ pc \in {"idle", "done"} /\ edits < MaxEdits /\ c # src[f]
  /\ src' = [src EXCEPT ![f] = c] /\ srcTime' = [srcTime EXCEPT ![f] = now]
  /\ Present' # {}
  /\ version' = version + 1 /\ edits' = edits + 1 /\ pc' = "idle"
  /\ UNCHANGED <<dstVars, objVars, stamp, flavour, todo, staged, reading, now, runs,
                 historyVars>>

SwitchFlavour ==
  /\ pc \in {"idle", "done"} /\ pc' = "idle"
  /\ flavour' \in Flavours \ {flavour}
  /\ UNCHANGED <<srcVars, dstVars, objVars, stamp, todo, staged, reading, clockVars,
                 historyVars>>

Tick ==
  /\ now < MaxTime /\ now' = now + 1
  /\ UNCHANGED <<srcVars, dstVars, objVars, stamp, flavour, scriptVars, runs, edits,
                 historyVars>>

-----------------------------------------------------------------------------
Stage ==
  \/ Start \/ BeginPrune
  \/ \E f \in Files : KeepCopy(f) \/ BeginCopy(f) \/ EndCopy(f) \/ Prune(f)

Make ==
  \/ CompareStamp \/ RemoveArchive \/ WriteStamp \/ MakeEnds
  \/ \E f \in Files : RemoveObject(f) \/ Compile(f)

Develop ==
  \/ \E f \in Files :
       \/ \E c \in Contents : Edit(f, c)
       \/ \E c \in Contents \cup {NoFile} : Bump(f, c)
  \/ SwitchFlavour \/ Tick

Next == Stage \/ Make \/ Killed \/ Develop

Spec == Init /\ [][Next]_vars

-----------------------------------------------------------------------------
(* Properties *)

(* The archive a build links is of one flavour and one version, the ones   *)
(* asked for, wherever earlier builds were cut short (build.rs:383-390).   *)
FlagsNeverMixed ==
  pc = "done" => \A f \in DOMAIN archive : archive[f].flags = Flags

(* The archive holds what is staged, compiled from what is staged, and     *)
(* nothing else: a file that a version bump dropped is not in it, nor      *)
(* anything of a copy that was cut short (build.rs:351-354).               *)
ArchiveOfStage ==
  pc = "done" => /\ DOMAIN archive = staged
                 /\ \A f \in DOMAIN archive : archive[f].of = dst[f]

(* A finished build can have missed an edit made before it began only if   *)
(* the edit kept the file's size and fell between the read and the last    *)
(* write of the copy it is compared with, or in the instants of the two:   *)
(* the size check stands against the other same-instant edits only         *)
(* (build.rs:339-346).                                                     *)
MissedEdit(f) == srcTime[f] < started /\ dst[f] # src[f]
MissesOnlyEditsInCopy ==
  pc = "done" => \A f \in Present :
    MissedEdit(f) => /\ dst[f][1] = src[f][1]
                     /\ readAt[f] <= srcTime[f] /\ srcTime[f] <= dstTime[f]
=============================================================================
