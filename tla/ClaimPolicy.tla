----------------------------- MODULE ClaimPolicy -----------------------------
(***************************************************************************)
(* The reclaim policy of noetl/claim_policy.py, and the staleness tests of *)
(* noetl/server/command_reaper.py that feed it.  Ages are whole time units *)
(* since a timestamp, NoAge is a missing one; the thresholds are the       *)
(* environment variables of server/api/core/core.py and of the reaper.     *)
(***************************************************************************)
EXTENDS Integers

CONSTANTS
    LeaseSeconds,    \* _CLAIM_LEASE_SECONDS
    HeartbeatStale,  \* _CLAIM_WORKER_HEARTBEAT_STALE_SECONDS
    HardTimeout,     \* _CLAIM_HEALTHY_WORKER_HARD_TIMEOUT_SECONDS
    ReaperStale,     \* _REAPER_WORKER_STALE_SECONDS
    ReaperHard,      \* _REAPER_HEALTHY_HARD_TIMEOUT_SECONDS
    PendingRetry     \* _REAPER_PENDING_RETRY_SECONDS

\* core.py clamps the hard timeout to at least the lease; the reaper's own
\* thresholds are read from other variables and need not agree with them.
ASSUME ThresholdsAssumption ==
    /\ {LeaseSeconds, HeartbeatStale, HardTimeout,
        ReaperStale, ReaperHard, PendingRetry} \subseteq Nat
    /\ LeaseSeconds <= HardTimeout

\* Runtime rows (noetl.runtime of kind worker_pool): "missing" stands for no
\* row, "offline" for every status that is not ready.
RuntimeStatus == {"missing", "ready", "offline"}

Inactive(runtime) == runtime.status = "offline"

Stale(runtime) == runtime.status # "missing" /\ runtime.hb >= HeartbeatStale

Healthy(runtime) == runtime.status = "ready" /\ runtime.hb < HeartbeatStale

\* Mutant: a worker that looks dead loses its claim within the lease.
ReclaimableWithoutLease(age, runtime) ==
    Inactive(runtime) \/ Stale(runtime) \/ age >= HardTimeout \/ ~Healthy(runtime)

\* decide_reclaim_for_existing_claim for a requester that is not the owner:
\* may the claim of age "age", held by a worker whose runtime row is
\* "runtime", be taken away?
Reclaimable(age, runtime) ==
    /\ age >= LeaseSeconds
    /\ \/ Inactive(runtime)
       \/ Stale(runtime)
       \/ age >= HardTimeout
       \/ ~Healthy(runtime)

\* _find_stale_active_commands: is an active claim an orphan for the reaper?
LooksOrphaned(age, runtime) ==
    \/ runtime.status # "ready"
    \/ runtime.hb > ReaperStale
    \/ age > ReaperHard

\* _find_stranded_pending_commands: has a PENDING row waited too long?
LooksStranded(age) == age > PendingRetry
=============================================================================
