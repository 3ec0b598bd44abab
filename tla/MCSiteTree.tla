----------------------------- MODULE MCSiteTree -----------------------------
EXTENDS SiteTree

CONSTANTS s1, s2, t1, t2

MCPingLimit == -3
=============================================================================
