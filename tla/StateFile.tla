----------------------------- MODULE StateFile ------------------------------
(***************************************************************************)
(* The state file of a coordinator (persistence.cpp): serializeToFile,     *)
(* whose writeFileAtomic writes path.tmp, removes path and renames path.tmp *)
(* to path, and deserializeFromFile.  Every connection handler that        *)
(* applied a topology saves the registry, so several threads may be in     *)
(* here at once, on the same two file names.                               *)
(*                                                                         *)
(* A file holds a whole snapshot or is torn; the magic, version and CRC    *)
(* checks of deserialize tell the two apart.  The file system is that of   *)
(* the supported build, Windows: a file that is open cannot be renamed,    *)
(* and a rename does not replace an existing file.  Errors are ignored.    *)
(***************************************************************************)
EXTENDS Naturals

CONSTANTS Writers,       \* the threads that save
          Contents,      \* the snapshots they may serialize
          NoFile, Torn   \* no file of that name; a file no reader accepts

ASSUME FileAssumption == NoFile # Torn /\ NoFile \notin Contents /\ Torn \notin Contents

VARIABLES file,          \* path
          tmp,           \* path.tmp
          writers,       \* progress of each call of serializeToFile
          saved,         \* history: the snapshot of the last call to return
          trouble        \* history since the last clean call: calls overlapped;
                         \* the disk failed; the process was killed in a call;
                         \* it was so between remove and rename

fileVars == <<file, tmp, writers, saved, trouble>>

\* A call is clean while no other runs beside it and the disk takes its data.
NotWriting == [pc |-> "idle", data |-> NoFile, mixed |-> FALSE, clean |-> FALSE]

FileInit ==
    /\ file = NoFile
    /\ tmp = NoFile
    /\ writers = [w \in Writers |-> NotWriting]
    /\ saved = NoFile
    /\ trouble = {}

Quiet == \A w \in Writers : writers[w].pc = "idle"

\* serialize: take the snapshot.
Serialized(data) == [pc |-> "serialized", data |-> data, mixed |-> FALSE, clean |-> Quiet]

\* Defect: it takes what path.tmp holds.
Serialize_FromTmp(w, data) ==
    /\ writers[w].pc = "idle"
    /\ trouble' = IF Quiet THEN trouble ELSE trouble \cup {"overlap"}
    /\ writers' = [v \in Writers |-> IF v = w THEN Serialized(tmp) ELSE [writers[v] EXCEPT !.clean = FALSE]]
    /\ UNCHANGED <<file, tmp, saved>>

Serialize(w, data) ==
    /\ writers[w].pc = "idle"
    /\ trouble' = IF Quiet THEN trouble ELSE trouble \cup {"overlap"}
    /\ writers' = [v \in Writers |-> IF v = w THEN Serialized(data) ELSE [writers[v] EXCEPT !.clean = FALSE]]
    /\ UNCHANGED <<file, tmp, saved>>

Writing(w) == writers[w].pc = "writing"

\* Writers that have the file open together get mixed up.
Opened(w) ==
    [v \in Writers |->
        IF v = w THEN [writers[w] EXCEPT !.pc = "writing", !.mixed = \E u \in Writers : Writing(u)]
        ELSE IF Writing(v) THEN [writers[v] EXCEPT !.mixed = TRUE]
        ELSE writers[v]]

\* Opening truncates.
\*
\* Defect: the old file is removed before the new one is written.
OpenTmp_RemovesFirst(w) ==
    /\ writers[w].pc = "serialized"
    /\ tmp' = Torn
    /\ file' = NoFile
    /\ writers' = Opened(w)
    /\ UNCHANGED <<saved, trouble>>

\* Defect: path itself is written.
OpenTmp_InPlace(w) ==
    /\ writers[w].pc = "serialized"
    /\ tmp' = Torn
    /\ file' = Torn
    /\ writers' = Opened(w)
    /\ UNCHANGED <<saved, trouble>>

OpenTmp(w) ==
    /\ writers[w].pc = "serialized"
    /\ tmp' = Torn
    /\ writers' = Opened(w)
    /\ UNCHANGED <<file, saved, trouble>>

CloseTmp(w) ==
    /\ Writing(w)
    /\ tmp' \in IF writers[w].mixed THEN {writers[w].data, Torn} ELSE {writers[w].data}
    /\ writers' = [writers EXCEPT ![w].pc = "written"]
    /\ UNCHANGED <<file, saved, trouble>>

\* The disk fails: path.tmp cannot be opened, or not all of the snapshot can be
\* written.  Nobody notices.
DiskFails(w) ==
    /\ \/ writers[w].pc = "serialized" /\ UNCHANGED tmp
       \/ Writing(w) /\ tmp' = Torn
    /\ writers' = [writers EXCEPT ![w].pc = "written", ![w].clean = FALSE]
    /\ trouble' = trouble \cup {"disk"}
    /\ UNCHANGED <<file, saved>>

RemoveOld(w) ==
    /\ writers[w].pc = "written"
    /\ file' = NoFile
    /\ writers' = [writers EXCEPT ![w].pc = "removed"]
    /\ UNCHANGED <<tmp, saved, trouble>>

\* The call returns success even when the rename fails.
RenameTmp(w) ==
    /\ writers[w].pc = "removed"
    /\ IF tmp # NoFile /\ file = NoFile /\ ~ \E v \in Writers : Writing(v)
         THEN file' = tmp /\ tmp' = NoFile
         ELSE UNCHANGED <<file, tmp>>
    /\ writers' = [writers EXCEPT ![w] = NotWriting]
    /\ saved' = writers[w].data
    /\ trouble' = IF writers[w].clean THEN {} ELSE trouble

SaveStep(w) == OpenTmp(w) \/ CloseTmp(w) \/ RemoveOld(w) \/ RenameTmp(w)

\* The process dies: the files stay as they are.
Killed ==
    /\ trouble' = trouble \cup (IF Quiet THEN {} ELSE {"killed"})
                          \cup {"unnamed" : w \in {v \in Writers : writers[v].pc = "removed"}}
    /\ writers' = [w \in Writers |-> NotWriting]
    /\ UNCHANGED <<file, tmp, saved>>

\* deserializeFromFile accepts the file.
Readable == file \notin {NoFile, Torn}

FileNext ==
    \/ \E w \in Writers, x \in Contents : Serialize(w, x)
    \/ \E w \in Writers : SaveStep(w) \/ DiskFails(w)
    \/ Killed

FileSpec == FileInit /\ [][FileNext]_fileVars

-----------------------------------------------------------------------------

\* Type correctness; a call holds a snapshot somebody took, never what it read
\* back from a file.
FileTypeOK ==
    /\ file \in Contents \cup {NoFile, Torn}
    /\ tmp \in Contents \cup {NoFile, Torn}
    /\ writers \in [Writers -> [pc : {"idle", "serialized", "writing", "written", "removed"},
                                data : Contents \cup {NoFile}, mixed : BOOLEAN, clean : BOOLEAN]]
    /\ saved \in Contents \cup {NoFile}
    /\ trouble \subseteq {"overlap", "disk", "killed", "unnamed"}

\* Readers never meet a torn file unless two calls overlapped or the disk
\* failed: neither a process killed while it wrote path.tmp, nor its leftovers,
\* tear the file, and the next clean call mends it.
TornNeedsTrouble == Torn = file => trouble \cap {"overlap", "disk"} # {}

\* A clean call is durable, whatever was in the two files before it: until
\* calls overlap again, the disk fails or the process is killed between remove
\* and rename, the file holds the snapshot of the last call that returned,
\* never an older one, wherever else the process was killed.
SerialDurable == Quiet /\ trouble \subseteq {"killed"} => file = saved

-----------------------------------------------------------------------------
(* What the documentation says and the code does not do. *)

\* Saving is durable: once a call has returned success, a restart finds a
\* readable file, however calls overlap and whenever the process is killed, as
\* long as the disk does not fail.
SaveDurable == Quiet /\ saved # NoFile /\ "disk" \notin trouble => Readable
=============================================================================
