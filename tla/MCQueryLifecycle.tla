-------------------------- MODULE MCQueryLifecycle --------------------------
(***************************************************************************)
(* Instances of QueryLifecycle for TLC: three queries, of two UDP clients  *)
(* and one TCP client, over two names and one or two resolvers.             *)
(***************************************************************************)
EXTENDS QueryLifecycle, TLC

CONSTANTS q1, q2, q3, u1, u2, t1, x1, x2, x3, nA, nB, s1, s2

\* u1 and u2 ask over UDP, t1 over TCP.
Flows == [q \in Query |-> CASE q = q1 -> u1 [] q = q2 -> u2 [] q = q3 -> t1]

\* One UDP client sends both UDP queries.
SharedFlow == [q \in Query |-> IF q = q3 THEN t1 ELSE u1]

\* Every query with an ID of its own, or all with the same.
DistinctIds == [q \in Query |-> CASE q = q1 -> x1 [] q = q2 -> x2 [] q = q3 -> x3]
OneId       == [q \in Query |-> x1]

\* Queries that share a name hit each other's cached answers.
OneName == [q \in Query |-> nA]
Names == [q \in Query |-> IF q = q3 THEN nB ELSE nA]

OneResolver == [q \in Query |-> s1]

NothingBlocked == [n \in Name |-> "unlisted"]
BlockB         == [n \in Name |-> IF n = nB THEN "block" ELSE "unlisted"]
AllowA         == [n \in Name |-> IF n = nA THEN "allow" ELSE "unlisted"]

\* The two UDP clients, when they ask the same of the same resolver, can be
\* exchanged together with their queries.
ClientSwap == { p \in Permutations({q1, q2, u1, u2}) :
                  \A q \in {q1, q2} : p[q] \in Query /\ FlowOf[p[q]] = p[FlowOf[q]] }

JustS1 == << s1 >>
Both   == << s2, s1 >>

=============================================================================
