----------------------------- MODULE NodePlans -----------------------------
(***************************************************************************)
(* Scheduler under names of its own, to stand beside another component.    *)
(***************************************************************************)
CONSTANTS
    Resources, Services, Volumes, Foreign, Need, MaxSurge, Standing, Fresh, External,
    Capacity, Sizes, Configs, MaxReplicas, MaxStarts, MaxForeign,
    MaxPlanFaults   \* bound: commands that fail, hosts that fall silent

VARIABLES nodes, alloc, silent,
          placed,      \* Scheduler's desired
          declared, home, job, unheard, starts, foreigns,
          planFaults   \* Scheduler's faults

planVars == <<nodes, alloc, silent, placed, declared, home, job, unheard, starts,
              foreigns, planFaults>>

Pool == INSTANCE Scheduler WITH
    MaxFaults <- MaxPlanFaults, desired <- placed, faults <- planFaults

ASSUME PlansAssumption == Pool!SchedulerAssumption

\* A deploy that planned alone is admitted by every node it publishes to.
PlansAreAdmitted == Pool!PlansAreAdmitted

\* No move loses a volume or leaves a service without a replica.
MovesAreSafe == Pool!MovesAreSafe

\* What a command leaves is what was declared, and a second one has nothing to do.
CommandsSettle == Pool!CommandsSettle
=============================================================================
