--------------------------- MODULE MCPolicyEpisode ---------------------------
EXTENDS PolicyEpisode

=============================================================================
