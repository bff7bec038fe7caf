-------------------------- MODULE MCSidecarPersist --------------------------
(* Two threads persisting three snapshots, three attempts each.            *)
EXTENDS SidecarPersist
CONSTANTS w1, w2, c1, c2, c3
=============================================================================
