---------------------------- MODULE MCPeerSites ----------------------------
(* A panel is dropped after two countdowns instead of four. *)
EXTENDS PeerSites

MCPingLimit == -1
=============================================================================
