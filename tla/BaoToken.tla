------------------------------ MODULE BaoToken ------------------------------
(***************************************************************************)
(* The root token of a main server, as the later runs depend on it: the    *)
(* server gives it out once, to one run, which stores it in the cluster or *)
(* loses it; what is stored stays, what is lost is gone, and it takes a    *)
(* mishap to lose it.  Nothing of calls and pods is seen.                  *)
(***************************************************************************)
EXTENDS Naturals

CONSTANTS Operators, Clusters

VARIABLES
  custody,   \* per cluster: where its root token is
  holders,   \* per cluster: the runs that have it and have not stored it
  mishaps    \* so far: failures of storing

token == <<custody, holders, mishaps>>

Init ==
  /\ custody = [c \in Clusters |-> "unissued"]
  /\ holders = [c \in Clusters |-> {}]
  /\ mishaps = 0

Moves(c, from, to) == custody[c] = from /\ custody' = [custody EXCEPT ![c] = to]

Issue(c, o) ==
  /\ Moves(c, "unissued", "held")
  /\ holders' = [holders EXCEPT ![c] = {o}]
  /\ UNCHANGED mishaps

Store(c) ==
  /\ Moves(c, "held", "stored")
  /\ holders' = [holders EXCEPT ![c] = {}]
  /\ UNCHANGED mishaps

Lose(c) ==
  /\ Moves(c, "held", "lost")
  /\ holders' = [holders EXCEPT ![c] = {}]
  /\ mishaps' \in {mishaps, mishaps + 1} \ {0}

Mishap ==
  /\ mishaps' = mishaps + 1
  /\ UNCHANGED <<custody, holders>>

Next ==
  \/ \E c \in Clusters : (\E o \in Operators : Issue(c, o)) \/ Store(c) \/ Lose(c)
  \/ Mishap

Spec == Init /\ [][Next]_token

=============================================================================
