-------------------------- MODULE MCCollectorState --------------------------
(* CollectorState for TLC. *)
EXTENDS CollectorState

CONSTANTS C, D,       \* drive letters
          c1, c2, j1  \* containers; c2 is the pause container, j1 a host process container

TwoVolumes      == <<C, D>>
ThreeContainers == {c1, c2, j1}
OneJob          == {j1}
OnePause        == {c2}
=============================================================================
