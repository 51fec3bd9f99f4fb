---------------------------- MODULE PoolScaling ----------------------------
(***************************************************************************)
(* Autoscale under names of its own, to stand beside the schedules of the  *)
(* agent: a pass is what the operator's cron starts, as a run is what the  *)
(* agent's does.                                                           *)
(***************************************************************************)
CONSTANTS
    Resources, Names, Standing, External, Protected, Capacity, Need, ForeignNeed,
    Replicas, MaxSurge, Samples, ScaleOutPercent, ScaleInPercent, Policies,
    FirstPolicy, Cooldown, Passes, MaxEvents

VARIABLES nodes, own, foreign, running, config, pass, edit,
          sinceClaim,   \* Autoscale's since
          met,
          events

Scale == INSTANCE Autoscale WITH since <- sinceClaim

ASSUME ScalingAssumption == Scale!AutoscaleAssumption /\ Scale!StandingAssumption

ScalingSpec == Scale!Spec

\* Every action of autoscale keeps the policy's bounds, but for what other passes
\* have done meanwhile, and the cooldown.
PolicyIsKept == Scale!PolicyIsKept

\* Of overlapping passes one acts.
OneOfTwoActs == Scale!OneOfTwoActs

\* Neither what is scheduled on a node nor what was moved off it is lost with it.
NothingGoesWithIt == Scale!NothingGoesWithIt

\* A pool below its floor gets there again.
FloorRestored == Scale!FloorRestored
=============================================================================
