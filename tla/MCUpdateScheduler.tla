--------------------------- MODULE MCUpdateScheduler ---------------------------
(* Instances of UpdateScheduler small enough for TLC. *)
EXTENDS UpdateScheduler

CONSTANTS s1, s2

Symmetry == Permutations(Source)

Wifi == [status |-> "wifi", expensive |-> FALSE]
Cellular == [status |-> "cellular", expensive |-> TRUE]
NoNetwork == [status |-> "none", expensive |-> FALSE]

Quiet == {}
Roaming == {Wifi, Cellular, NoNetwork}

Priorities == {1, 2}
Updates == {"update"} \X (Source \X Priorities)

\* All that only the scheduler's own state depends on.
StateCalls == ({"start", "stop", "pause", "resume", "removeAll"} \X {<<>>})
              \cup ({"add", "remove", "cancel"} \X Source)
              \cup Updates

\* What the rule manager and the strategies call.
ManagerCalls == ({"start", "stop"} \X {<<>>}) \cup ({"add"} \X Source)
                \cup ({"updateAll"} \X Priorities) \cup Updates

\* Everything together.
AllCalls == StateCalls \cup ManagerCalls
=============================================================================
