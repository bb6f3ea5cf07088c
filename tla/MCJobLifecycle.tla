--------------------------- MODULE MCJobLifecycle ---------------------------
(***************************************************************************)
(* Model-checking values for JobLifecycle: one tenant that all submissions *)
(* compete for.  Jobs differ in nothing but their name, and so do the runs *)
(* of the replay script: both may be permuted in runs without liveness.    *)
(***************************************************************************)
EXTENDS SlotCustody, TLC

CONSTANTS
  Slots,   \* the tenant's concurrent limit
  Daily    \* the tenant's daily limit

MCOwner             == [j \in Jobs |-> CHOOSE t \in Tenants : TRUE]
MCMaxConcurrentJobs == [t \in Tenants |-> Slots]
MCMaxDailyJobs      == [t \in Tenants |-> Daily]

JobSymmetry      == Permutations(Jobs)
ReplayerSymmetry == Permutations(Replayers)
=============================================================================
