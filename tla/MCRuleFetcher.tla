--------------------------- MODULE MCRuleFetcher ---------------------------
(* A small instance of RuleFetcher for TLC. *)
EXTENDS RuleFetcher

\* Accepted, refused for good, and refused for now.
MCStatuses == {200, 404, 503}

=============================================================================
