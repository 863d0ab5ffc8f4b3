---------------------------- MODULE BcatProgress ----------------------------
(***************************************************************************)
(* The progress record of one synchronization kind and the operations of  *)
(* ProgressServiceBackend (src/core/hle/service/bcat/backend/backend.cpp)  *)
(* that mutate it.  Each mutator is an operator from the old record to the *)
(* new one; the module that owns the record applies it and then performs  *)
(* SignalUpdate on the kind's event, as every mutator in the code does.    *)
(*                                                                         *)
(* The display fields current_directory / current_file are left out: no   *)
(* property of this project reads them.  Byte counts are abstract units.  *)
(***************************************************************************)
EXTENDS Naturals

\* DeliveryCacheProgressImpl::Status.  "None" is the value-initialized
\* status the record has before any synchronization ran.
ProgressStatuses == {"None", "Connecting", "ProcessingDataList",
                     "Downloading", "Committing", "Done"}

\* The order the spec gives the statuses of one run.
StatusRank(s) ==
    CASE s = "None"               -> 0
      [] s = "Connecting"         -> 1
      [] s = "ProcessingDataList" -> 2
      [] s = "Downloading"        -> 3
      [] s = "Committing"         -> 4
      [] s = "Done"               -> 5

\* RESULT_SUCCESS and ERROR_GENERAL_BCAT_FAILURE.
Results == {"ok", "fail"}

ProgressRecord ==
    [status: ProgressStatuses, result: Results,
     curDownloaded: Nat, curTotal: Nat,
     totalDownloaded: Nat, totalBytes: Nat]

\* ProgressServiceBackend's constructor: impl{} is value-initialized.
InitialProgress ==
    [status |-> "None", result |-> "ok",
     curDownloaded |-> 0, curTotal |-> 0,
     totalDownloaded |-> 0, totalBytes |-> 0]

SetTotalSize(p, size) == [p EXCEPT !.totalBytes = size]

StartConnecting(p) == [p EXCEPT !.status = "Connecting"]

StartProcessingDataList(p) == [p EXCEPT !.status = "ProcessingDataList"]

StartDownloadingFile(p, fileSize) ==
    [p EXCEPT !.status = "Downloading",
              !.curDownloaded = 0,
              !.curTotal = fileSize]

UpdateFileProgress(p, downloaded) == [p EXCEPT !.curDownloaded = downloaded]

FinishDownloadingFile(p) ==
    [p EXCEPT !.totalDownloaded = p.totalDownloaded + p.curTotal]

CommitDirectory(p) ==
    [p EXCEPT !.status = "Committing",
              !.curDownloaded = 0,
              !.curTotal = 0]

\* A variant of FinishDownload that leaves total_downloaded_bytes alone.
FinishDownloadKeepingTotals(p, result) ==
    [p EXCEPT !.status = "Done", !.result = result]

FinishDownload(p, result) ==
    [p EXCEPT !.totalDownloaded = p.totalBytes,
              !.status = "Done",
              !.result = result]

=============================================================================
