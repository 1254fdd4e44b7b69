--------------------------- MODULE AuditContracts ---------------------------
(***************************************************************************)
(* The declared audit actions of services/api/persistence_contracts.py.    *)
(* One name stands for the aliases of a contract, one status for the       *)
(* aliases of a state (running: processing, running, started), and one     *)
(* scope type for the two spellings that every check treats alike.  A      *)
(* contract that leaves the job or result status open allows all of them.  *)
(***************************************************************************)
EXTENDS Naturals

JobStatuses == {"queued", "running", "failed", "succeeded"}
ResultStatuses == {"failed", "succeeded"}

JobScopes == {"job", "job_event"}
ResultScopes == JobScopes \cup {"conversion_result"}
DesktopScopes == JobScopes \cup {"document"}
UploadScopes == JobScopes \cup {"document", "source_document", "source_artifact"}
ReviewRequestScopes == {"document", "review_decision", "review_item"}

Unrestricted(scopes) ==
    [scopes |-> scopes, jobs |-> JobStatuses, results |-> ResultStatuses,
     lifecycle |-> "none", evidence |-> FALSE, uploader |-> FALSE, unattempted |-> FALSE]

Lifecycle(scopes, status, state) ==
    [Unrestricted(scopes) EXCEPT !.jobs = {status}, !.lifecycle = state,
                                 !.results = ResultStatuses \cap {status}]

Contracts ==
    [source_upload |-> [Unrestricted(UploadScopes) EXCEPT !.uploader = TRUE],
     desktop_upload |-> [Unrestricted(DesktopScopes) EXCEPT
                            !.jobs = {"queued"}, !.uploader = TRUE, !.unattempted = TRUE],
     document_inspected |-> Unrestricted({"document", "source_document"}),
     artifact_generated |-> Unrestricted({"artifact"}),
     review_opened |-> Unrestricted({"review_item"}),
     job_queued |-> Lifecycle(JobScopes, "queued", "queued"),
     job_running |-> Lifecycle(JobScopes, "running", "running"),
     job_failed |-> Lifecycle(ResultScopes, "failed", "failed"),
     job_succeeded |-> Lifecycle(ResultScopes, "succeeded", "succeeded"),
     job_retry |-> Lifecycle(JobScopes, "failed", "retry"),
     download_result |-> [Unrestricted(JobScopes) EXCEPT
                            !.jobs = {"succeeded"}, !.evidence = TRUE],
     desktop_result_download |-> [Unrestricted(DesktopScopes) EXCEPT
                            !.jobs = {"succeeded"}, !.evidence = TRUE],
     open_detail |-> Unrestricted(JobScopes),
     approve |-> Unrestricted(ReviewRequestScopes),
     edit |-> Unrestricted(ReviewRequestScopes),
     approved |-> Unrestricted({"review_decision"}),
     edited |-> Unrestricted({"review_decision"}),
     rejected |-> Unrestricted({"review_decision"})]

DesktopActions == {"desktop_upload", "desktop_result_download"}

(* _job_event_action_matches on effective actions.                         *)
JobEventActionMatches(event, action) ==
    \/ event = action
    \/ /\ Contracts[event].lifecycle # "none"
       /\ Contracts[event].lifecycle = Contracts[action].lifecycle

(* _review_decision_action_matches.                                        *)
DecisionActionMatches(decision, action) ==
    \/ action = decision
    \/ decision = "approved" /\ action = "approve"
    \/ decision = "edited" /\ action = "edit"

(* _require_job_action_available.                                          *)
JobActionAvailable(job, action) ==
    /\ job.status \in Contracts[action].jobs
    /\ Contracts[action].unattempted => job.attempts = 0
=============================================================================
