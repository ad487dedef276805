--------------------------- MODULE WalRefinement ---------------------------
(***************************************************************************)
(* The write-ahead log implements the log its callers rely on (module      *)
(* DurableLog).  While the log is open the abstract log is what was        *)
(* admitted, wherever it is by now: queued, in the writer's group or in    *)
(* the file.  While it is being recovered, it is what the file holds.  A   *)
(* torn tail is no record.                                                 *)
(***************************************************************************)
EXTENDS WalProperties

Whole(recs) ==
    IF recs # <<>> /\ Last(recs).kind = "torn" THEN Front(recs) ELSE recs

AbstractLog == IF phase = "open" THEN Whole(history) ELSE Whole(file)
AbstractDurable == Len(Whole(Prefix(file, synced)))

Log == INSTANCE DurableLog WITH
           log <- AbstractLog, durable <- AbstractDurable, reported <- promised

(***************************************************************************)
(* Every step of callers, writer, shutdown, crash and recovery is a step   *)
(* of the abstract log or leaves it alone: records are written in the      *)
(* order in which they were admitted, a failed group and a crash cost a    *)
(* suffix that nobody was told is durable, and what is reported durable is *)
(* under an fsync.  (wal.zig enqueueBatch, flushCascade, workerMain,       *)
(* recover)                                                                *)
(***************************************************************************)
ImplementsDurableLog == Log!Spec
=============================================================================
