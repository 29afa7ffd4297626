---------------------------- MODULE MC_Sending ----------------------------
EXTENDS Sending

CONSTANTS x, y, z

\* A list of three, sent by the senders of a list.
MCPlan == <<x, y, z>>
=============================================================================
