--------------------------- MODULE ScanJobStatus ---------------------------
(***************************************************************************)
(* The status of a ScanJob (api/v1alpha1/scanjob_types.go): four           *)
(* conditions, the reason of the condition that is true, the two image     *)
(* counters and whether the two timestamps have been set.  The wording of  *)
(* condition messages and the time values themselves are left out.         *)
(***************************************************************************)
EXTENDS Naturals

CondTypes == {"Scheduled", "InProgress", "Complete", "Failed"}

\* "Absent": the condition list is still empty (FindStatusCondition is nil).
CondStatus == {"Absent", "Unknown", "True", "False"}

\* The reasons the API declares, and "None" while there is no condition.
Reasons == {"None", "Pending", "Scheduled", "InProgress",
            "CatalogCreationInProgress", "SBOMGenerationInProgress",
            "ImageScanInProgress", "Complete", "Failed", "NoImagesToScan",
            "AllImagesScanned", "RegistryNotFound", "RepositoryNotFound",
            "MatchConditionNotFound", "InternalError"}

Status == [conds : [CondTypes -> CondStatus], reason : Reasons,
           imagesCount : Nat, scannedImagesCount : Nat,
           startTime : BOOLEAN, completionTime : BOOLEAN]

\* The status of a ScanJob that nobody has written to yet.
EmptyStatus ==
    [conds |-> [t \in CondTypes |-> "Absent"], reason |-> "None",
     imagesCount |-> 0, scannedImagesCount |-> 0,
     startTime |-> FALSE, completionTime |-> FALSE]

\* Every Mark function writes all four conditions: one true, three false.
OnlyTrue(c) == [t \in CondTypes |-> IF t = c THEN "True" ELSE "False"]

InitializeConditions(s) ==
    [s EXCEPT !.conds = [t \in CondTypes |-> "Unknown"], !.reason = "Pending"]

MarkScheduled(s) ==
    [s EXCEPT !.conds = OnlyTrue("Scheduled"), !.reason = "Scheduled"]

\* startTime is set by the first call only; completionTime is not cleared.
MarkInProgress(s, reason) ==
    [s EXCEPT !.conds = OnlyTrue("InProgress"), !.reason = reason,
              !.startTime = TRUE]

MarkComplete(s, reason) ==
    [s EXCEPT !.conds = OnlyTrue("Complete"), !.reason = reason,
              !.completionTime = TRUE]

MarkFailed(s, reason) ==
    [s EXCEPT !.conds = OnlyTrue("Failed"), !.reason = reason,
              !.completionTime = TRUE]

IsScheduled(s)  == s.conds["Scheduled"] = "True"
IsInProgress(s) == s.conds["InProgress"] = "True"
IsComplete(s)   == s.conds["Complete"] = "True"
IsFailed(s)     == s.conds["Failed"] = "True"

IsPending(s) ==
    ~IsScheduled(s) /\ ~IsInProgress(s) /\ ~IsComplete(s) /\ ~IsFailed(s)

\* telemetry.JobFinished
JobFinished(s) == IsComplete(s) \/ IsFailed(s)
=============================================================================
