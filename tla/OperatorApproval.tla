--------------------------- MODULE OperatorApproval ---------------------------
(***************************************************************************)
(* Signed operator approvals (approvals.py).  An approval names what it    *)
(* approves by checksum, a purpose, an operator, a key and a period of at  *)
(* most Window; sig is what was signed under which secret, and the         *)
(* signature holds for exactly that.                                       *)
(***************************************************************************)
EXTENDS ExecutorReadiness

CONSTANT Window   \* MAX_OPERATOR_APPROVAL_WINDOW
ASSUME WindowAssumption == Window \in Nat

Purposes == {"controlled_loop_run_manifest", "controlled_loop_runner_execution",
             "controlled_loop_runner_start", "controlled_loop_runner_stage_execution",
             "controlled_loop_runner_stage_retry", "real_executor_invocation",
             "start_governed_execution", "git_pr_materialization", "release",
             "package_publication"}

Body(a) == [target |-> a.target, purpose |-> a.purpose, operator |-> a.operator, key |-> a.key,
            issued |-> a.issued, expires |-> a.expires]
SignedBy(a, secret) == [a EXCEPT !.sig = [body |-> Body(a), secret |-> secret]]

TargetBlockers(a, target) ==
  IF a.target = "none" THEN {"operator_approval_target_invalid"}
  ELSE When(a.target # target, "operator_approval_target_mismatch")
       \union When(target = "none", "operator_approval_target_invalid")

PurposeBlockers(a, purpose) ==
  IF a.purpose = "none" THEN {"operator_approval_purpose_missing"}
  ELSE When(purpose \notin Purposes \/ a.purpose # purpose, "operator_approval_purpose_mismatch")

\* The operator is compared only if the caller expects one.
IdentityBlockers(a, expected) ==
  When(a.operator = "none", "operator_approval_operator_missing")
  \union When(expected # "anybody" /\ a.operator \notin {"none", expected},
              "operator_approval_operator_mismatch")
  \union When(a.key = "weak", "operator_approval_key_id_weak")

PeriodBlockers(a, now) ==
  IF a.expires <= a.issued THEN {"operator_approval_timestamp_invalid"}
  ELSE When(a.expires - a.issued > Window, "operator_approval_window_too_long")
       \union When(a.expires <= now, "operator_approval_expired")
       \union When(a.issued > now, "operator_approval_issued_in_future")

SignatureBlockers(a, secret) ==
  IF secret = "none" THEN {"operator_approval_secret_missing"}
  ELSE When(a.sig # [body |-> Body(a), secret |-> secret], "operator_approval_signature_invalid")

ApprovalBlockers(a, target, purpose, expected, secret, now) ==
  TargetBlockers(a, target) \union PurposeBlockers(a, purpose) \union IdentityBlockers(a, expected)
  \union PeriodBlockers(a, now) \union SignatureBlockers(a, secret)
===============================================================================
