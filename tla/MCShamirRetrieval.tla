------------------------- MODULE MCShamirRetrieval -------------------------
(* Instances of ShamirRetrieval for TLC.                                   *)
EXTENDS ShamirRetrieval

AllPrivacies == 0..NumServers  \* NumServers itself wraps the degree
NoPrivacy == {0}
=============================================================================
