----------------------------- MODULE MCRelease -----------------------------
EXTENDS Shipping

\* The first commit has both services, the second changes one.
TwoCommits == <<{1, 2}, {1}>>

SamePlatform == [f \in Footprints |-> "arm64"]
============================================================================
