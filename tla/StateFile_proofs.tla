-------------------------- MODULE StateFile_proofs --------------------------
(***************************************************************************)
(* Proofs about the state file: as long as no calls of serializeToFile     *)
(* have met and the disk has not failed since the last clean one, the file *)
(* is not torn and, unless the process was killed between remove and       *)
(* rename, it holds the snapshot that was saved last.                      *)
(*                                                                         *)
(* Neither property is inductive: the file that rename installs is what    *)
(* path.tmp held one or two steps before.  CleanInv says what each stage   *)
(* of a clean call knows of the two files, and TroubleInv that calls are   *)
(* clean until there is trouble.                                           *)
(***************************************************************************)
EXTENDS StateFile, TLAPS

\* w is inside serializeToFile.
Calling(w) == writers[w].pc # "idle"

\* What a clean call knows.
CleanInv ==
    \A w \in Writers : Calling(w) /\ writers[w].clean =>
        /\ \A v \in Writers : Calling(v) => v = w
        /\ writers[w].data \in Contents /\ ~ writers[w].mixed
        /\ writers[w].pc \in {"written", "removed"} => tmp = writers[w].data
        /\ writers[w].pc = "removed" => file = NoFile

Untroubled == "overlap" \notin trouble /\ "disk" \notin trouble

\* What is known while there is no trouble.
TroubleInv ==
    Untroubled =>
        /\ \A w \in Writers : Calling(w) => writers[w].clean
        /\ file # Torn
        /\ "unnamed" \notin trouble
              => file = saved \/ \E w \in Writers : writers[w].pc = "removed"

FileInv == FileTypeOK /\ CleanInv /\ TroubleInv

\* Before the first save there is nothing to be torn or lost.
LEMMA FileInitInv == FileInit => FileInv
  <1> SUFFICES ASSUME FileInit  PROVE FileInv
    OBVIOUS
  <1>1. FileTypeOK  BY DEF FileInit, FileTypeOK, NotWriting
  <1>2. \A w \in Writers : writers[w].pc = "idle"  BY DEF FileInit, NotWriting
  <1>3. CleanInv /\ TroubleInv
    BY <1>2, FileAssumption DEF FileInit, CleanInv, TroubleInv, Calling
  <1>4. QED  BY <1>1, <1>3 DEF FileInv

\* Taking the snapshot keeps the invariant, or the calls now overlap.
LEMMA SerializeInv ==
    ASSUME FileInv, NEW w \in Writers, NEW x \in Contents, Serialize(w, x)
    PROVE  FileInv'
  <1>0. Quiet \in BOOLEAN  BY DEF Quiet
  <1>1. /\ writers'[w] = [pc |-> "serialized", data |-> x, mixed |-> FALSE, clean |-> Quiet]
        /\ \A v \in Writers \ {w} : writers'[v] = [writers[v] EXCEPT !.clean = FALSE]
        /\ DOMAIN writers' = Writers
    BY DEF Serialize, Serialized
  <1>2. \A v \in Writers \ {w} : /\ writers'[v].pc = writers[v].pc /\ ~ writers'[v].clean
    BY <1>1 DEF FileInv, FileTypeOK
  <1>3. FileTypeOK'
    <2>1. writers' \in [Writers -> [pc : {"idle", "serialized", "writing", "written", "removed"},
                          data : Contents \cup {NoFile}, mixed : BOOLEAN, clean : BOOLEAN]]
      BY <1>0, ZenonT(40) DEF FileInv, FileTypeOK, Serialize, Serialized
    <2>2. QED  BY <2>1 DEF FileInv, FileTypeOK, Serialize
  <1>4. CleanInv'
    BY <1>0, <1>1, <1>2 DEF CleanInv, Quiet, Calling
  <1>5. TroubleInv'
    <2>1. CASE Quiet
      <3>1. UNCHANGED <<file, saved, trouble>>  BY <2>1 DEF Serialize
      <3>2. \A v \in Writers : writers[v].pc = "idle"  BY <2>1 DEF Quiet
      <3>3. \A v \in Writers : Calling(v)' => writers'[v].clean
        BY <1>1, <1>2, <2>1, <3>2 DEF Calling
      <3>4. QED  BY <3>1, <3>2, <3>3 DEF FileInv, TroubleInv, Untroubled
    <2>2. CASE ~ Quiet
      BY <2>2 DEF TroubleInv, Untroubled, Serialize
    <2>3. QED  BY <2>1, <2>2
  <1>6. QED  BY <1>3, <1>4, <1>5 DEF FileInv

\* Truncating path.tmp is harmless to a clean call: nobody else has it open.
LEMMA OpenTmpInv ==
    ASSUME FileInv, NEW w \in Writers, OpenTmp(w)
    PROVE  FileInv'
  <1> DEFINE busy == \E u \in Writers : Writing(u)
  <1>0. busy \in BOOLEAN  OBVIOUS
  <1> HIDE DEF busy
  <1>1. writers' = [v \in Writers |->
           IF v = w THEN [writers[w] EXCEPT !.pc = "writing", !.mixed = busy]
           ELSE IF Writing(v) THEN [writers[v] EXCEPT !.mixed = TRUE]
           ELSE writers[v]]
    BY DEF OpenTmp, Opened, busy
  <1>2. \A v \in Writers :
            writers[v] \in [pc : {"idle", "serialized", "writing", "written", "removed"},
                            data : Contents \cup {NoFile}, mixed : BOOLEAN, clean : BOOLEAN]
    BY DEF FileInv, FileTypeOK
  <1>3. FileTypeOK'
    <2>1. ASSUME NEW v \in Writers
          PROVE  writers'[v] \in [pc : {"idle", "serialized", "writing", "written", "removed"},
                                  data : Contents \cup {NoFile}, mixed : BOOLEAN, clean : BOOLEAN]
      BY <1>0, <1>1, <1>2
    <2>2. QED  BY <1>1, <2>1 DEF FileInv, FileTypeOK, OpenTmp
  <1>4. /\ writers[w].pc = "serialized" /\ writers'[w].pc = "writing"
        /\ writers'[w].mixed = busy
        /\ \A v \in Writers \ {w} : writers'[v].pc = writers[v].pc
        /\ \A v \in Writers : writers'[v].data = writers[v].data /\ writers'[v].clean = writers[v].clean
    <2>1. writers'[w] = [writers[w] EXCEPT !.pc = "writing", !.mixed = busy]  BY <1>1
    <2>2. ASSUME NEW v \in Writers \ {w}
          PROVE  /\ writers'[v].pc = writers[v].pc
                 /\ writers'[v].data = writers[v].data /\ writers'[v].clean = writers[v].clean
      <3>1. writers'[v] = IF Writing(v) THEN [writers[v] EXCEPT !.mixed = TRUE] ELSE writers[v]
        BY <1>1
      <3>2. QED  BY <1>2, <3>1
    <2>3. /\ writers'[w].pc = "writing" /\ writers'[w].mixed = busy
          /\ writers'[w].data = writers[w].data /\ writers'[w].clean = writers[w].clean
      BY <1>0, <1>2, <2>1
    <2>4. QED  BY <2>2, <2>3 DEF OpenTmp
  <1>5. ASSUME NEW u \in Writers, Calling(u)', writers'[u].clean
        PROVE  /\ u = w /\ ~ writers'[u].mixed
               /\ \A v \in Writers : Calling(v)' => v = u
               /\ writers'[u].data \in Contents
    <2>1. Calling(u) /\ writers[u].clean /\ Calling(w)  BY <1>4, <1>5 DEF Calling
    <2>2. u = w /\ writers[u].data \in Contents /\ \A v \in Writers : Calling(v) => v = u
      BY <2>1 DEF FileInv, CleanInv
    <2>3. busy = FALSE  BY <1>0, <1>4, <2>2 DEF busy, Writing, Calling
    <2>4. QED  BY <1>4, <2>2, <2>3 DEF Calling
  <1>6. CleanInv'  BY <1>4, <1>5 DEF CleanInv
  <1>7. TroubleInv'
    BY <1>4 DEF FileInv, TroubleInv, Untroubled, OpenTmp, Calling
  <1>8. QED  BY <1>3, <1>6, <1>7 DEF FileInv

\* A clean call leaves the whole snapshot in path.tmp.
LEMMA CloseTmpInv ==
    ASSUME FileInv, NEW w \in Writers, CloseTmp(w)
    PROVE  FileInv'
  <1>1. FileTypeOK'  BY DEF FileInv, FileTypeOK, CloseTmp, Writing
  <1>2. CleanInv'  BY DEF FileInv, FileTypeOK, CleanInv, CloseTmp, Writing, Calling
  <1>3. TroubleInv'  BY DEF FileInv, FileTypeOK, TroubleInv, Untroubled, CloseTmp, Writing, Calling
  <1>4. QED  BY <1>1, <1>2, <1>3 DEF FileInv

\* A call whose data the disk did not take is not clean.
LEMMA DiskFailsInv ==
    ASSUME FileInv, NEW w \in Writers, DiskFails(w)
    PROVE  FileInv'
  <1>1. FileTypeOK'
    <2>1. writers' = [writers EXCEPT ![w].pc = "written", ![w].clean = FALSE]
      BY DEF DiskFails
    <2> DEFINE W == [pc : {"idle", "serialized", "writing", "written", "removed"},
                     data : Contents \cup {NoFile}, mixed : BOOLEAN, clean : BOOLEAN]
               rec == [writers[w] EXCEPT !.pc = "written", !.clean = FALSE]
    <2>2. writers \in [Writers -> W]  BY DEF FileInv, FileTypeOK
    <2>3. rec \in W
      <3>1. writers[w] \in W  BY <2>2
      <3>2. QED  BY <3>1
    <2>4. writers' = [writers EXCEPT ![w] = rec]  BY <2>1, <2>2
    <2> HIDE DEF W, rec
    <2>5. writers' \in [Writers -> W]  BY <2>2, <2>3, <2>4
    <2>6. QED  BY <2>5 DEF FileInv, FileTypeOK, DiskFails, W
  <1>2. Calling(w) /\ ~ writers'[w].clean
    BY DEF FileInv, FileTypeOK, DiskFails, Writing, Calling
  <1>3. \A v \in Writers \ {w} : writers'[v] = writers[v]
    BY DEF FileInv, FileTypeOK, DiskFails
  <1>4. CleanInv'
    BY <1>2, <1>3 DEF FileInv, CleanInv, DiskFails, Calling
  <1>5. TroubleInv'  BY DEF TroubleInv, Untroubled, DiskFails
  <1>6. QED  BY <1>1, <1>4, <1>5 DEF FileInv

\* From remove to rename path.tmp holds the snapshot of a clean call.
LEMMA RemoveOldInv ==
    ASSUME FileInv, NEW w \in Writers, RemoveOld(w)
    PROVE  FileInv'
  <1>1. FileTypeOK'  BY DEF FileInv, FileTypeOK, RemoveOld
  <1>2. CleanInv'  BY DEF FileInv, FileTypeOK, CleanInv, RemoveOld, Calling
  <1>3. TroubleInv'
    BY FileAssumption DEF FileInv, FileTypeOK, TroubleInv, Untroubled, RemoveOld, Calling
  <1>4. QED  BY <1>1, <1>2, <1>3 DEF FileInv

\* rename installs the whole snapshot of a clean call.
LEMMA RenameTmpInv ==
    ASSUME FileInv, NEW w \in Writers, RenameTmp(w)
    PROVE  FileInv'
  <1>1. FileTypeOK'  BY DEF FileInv, FileTypeOK, RenameTmp, NotWriting
  <1>2. /\ writers[w].pc = "removed" /\ writers'[w].pc = "idle"
        /\ \A v \in Writers \ {w} : writers'[v] = writers[v]
    BY DEF FileInv, FileTypeOK, RenameTmp, NotWriting
  <1>3. CASE writers[w].clean
    <2>1. /\ \A v \in Writers : Calling(v) => v = w
          /\ writers[w].data \in Contents /\ tmp = writers[w].data /\ file = NoFile
      BY <1>2, <1>3 DEF FileInv, CleanInv, Calling
    <2>2. ~ \E v \in Writers : Writing(v)  BY <1>2, <2>1 DEF Writing, Calling
    <2>3. tmp # NoFile /\ writers[w].data # Torn  BY <2>1, FileAssumption
    <2>4. file' = writers[w].data /\ saved' = writers[w].data  BY <2>1, <2>2, <2>3 DEF RenameTmp
    <2>5. \A v \in Writers : writers'[v].pc = "idle"  BY <1>2, <2>1 DEF Calling
    <2>6. QED  BY <1>1, <2>3, <2>4, <2>5 DEF FileInv, CleanInv, TroubleInv, Calling
  <1>4. CASE ~ writers[w].clean
    <2>1. trouble' = trouble /\ ~ Untroubled
      BY <1>2, <1>4 DEF FileInv, TroubleInv, RenameTmp, Calling
    <2>2. \A v \in Writers \ {w} : ~ (Calling(v) /\ writers[v].clean)
      BY <1>2 DEF FileInv, CleanInv, Calling
    <2>3. CleanInv'  BY <1>2, <2>2 DEF CleanInv, Calling
    <2>4. TroubleInv'  BY <2>1 DEF TroubleInv, Untroubled
    <2>5. QED  BY <1>1, <2>3, <2>4 DEF FileInv
  <1>5. QED  BY <1>3, <1>4

\* A kill leaves the files as they are.
LEMMA KilledInv ==
    ASSUME FileInv, Killed
    PROVE  FileInv'
  <1>1. FileTypeOK'  BY DEF FileInv, FileTypeOK, Killed, NotWriting
  <1>2. \A v \in Writers : writers'[v].pc = "idle"  BY DEF Killed, NotWriting
  <1>3. CleanInv'  BY <1>2 DEF CleanInv, Calling
  <1>4. TroubleInv'
    BY <1>2 DEF FileInv, TroubleInv, Untroubled, Killed, Calling
  <1>5. QED  BY <1>1, <1>3, <1>4 DEF FileInv

\* The inductive invariant holds in every reachable state.
THEOREM FileInvariance == FileSpec => []FileInv
  <1>1. FileInv /\ [FileNext]_fileVars => FileInv'
    <2> SUFFICES ASSUME FileInv, [FileNext]_fileVars  PROVE FileInv'
      OBVIOUS
    <2>1. CASE FileNext
      BY <2>1, SerializeInv, OpenTmpInv, CloseTmpInv, DiskFailsInv, RemoveOldInv, RenameTmpInv, KilledInv
      DEF FileNext, SaveStep
    <2>2. CASE UNCHANGED fileVars
      BY <2>2 DEF FileInv, FileTypeOK, CleanInv, TroubleInv, Untroubled, Calling, fileVars
    <2>3. QED  BY <2>1, <2>2
  <1>2. QED  BY <1>1, FileInitInv, PTL DEF FileSpec

\* The files and the calls in progress keep their types.
THEOREM FileTypeCorrect == FileSpec => []FileTypeOK
  <1>1. FileInv => FileTypeOK  BY DEF FileInv
  <1>2. QED  BY <1>1, FileInvariance, PTL

\* deserializeFromFile meets a torn file only when two calls of serializeToFile
\* overlapped, or the disk failed, and no clean call has mended it since: for
\* any number of threads, saves and kills.
THEOREM TearingNeedsTrouble == FileSpec => []TornNeedsTrouble
  <1>1. FileInv => TornNeedsTrouble  BY DEF FileInv, TroubleInv, Untroubled, TornNeedsTrouble
  <1>2. QED  BY <1>1, FileInvariance, PTL

\* After a clean call of serializeToFile the file holds what was saved last
\* until calls overlap, the disk fails or a kill hits between remove and rename.
THEOREM SerialSavesDurable == FileSpec => []SerialDurable
  <1>1. FileInv => SerialDurable
    BY DEF FileInv, FileTypeOK, TroubleInv, Untroubled, SerialDurable, Quiet
  <1>2. QED  BY <1>1, FileInvariance, PTL
=============================================================================
