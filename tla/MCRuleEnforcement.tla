------------------------- MODULE MCRuleEnforcement -------------------------
(* Small instances of RuleEnforcement for TLC. *)
EXTENDS RuleEnforcement, TLC

CONSTANTS a, b, i1, i2

Says(names, action) == [n \in Name |-> IF n \in names THEN action ELSE "none"]
UserTable(names, action) ==
    [n \in Name |-> IF n \in names THEN [action |-> action, source |-> "user"]
                                   ELSE NoRule]

MCNothing == Says({}, "block")
MCBlocksB == Says({b}, "block")
MCBlocksAll == Says(Name, "block")

\* What the manifests of an instance say.
MCOneManifest == {MCBlocksB}
MCAnyManifest == {MCNothing, MCBlocksB}
MCFull == {MCBlocksAll}

\* What the program finds on disk.
MCUsed == {UserTable({a}, "allow")}
MCFreshOrUsed == MCUsed \cup {Empty}

=============================================================================
