------------------------------ MODULE Shipping ------------------------------
(***************************************************************************)
(* Release under names of its own, to stand beside the reports that a      *)
(* deploy waits for: it ends where they begin, with the publish.           *)
(***************************************************************************)
CONSTANTS
    CLIs, Services, Footprints, Base, Platform, Touches, Remote,
    MaxStarts, MaxEdits,
    MaxShipFaults   \* bound: calls that fail, commands that are killed

VARIABLES tree, ecr, uploads, builds,
          shipped,     \* Release's desired
          job, lost, starts, edits,
          shipFaults   \* Release's faults

Ship == INSTANCE Release WITH
    MaxFaults <- MaxShipFaults, desired <- shipped, faults <- shipFaults

ASSUME ShippingAssumption == Ship!ReleaseAssumption

ShippingSpec == Ship!Spec

\* What runs is there to be pulled and is what its tag says.
ImagesAreSound == Ship!ImagesAreSound

\* Deploys bring a footprint forward to the checkout, rollbacks back.
DeploysArrive == Ship!DeploysArrive

\* Neither a command nor an upload is left for ever.
NothingLingers == Ship!NothingLingers
=============================================================================
