------------------------- MODULE ClusterMembership -------------------------
(***************************************************************************)
(* What `bifrost init` and `bifrost node remove` promise of the cluster,   *)
(* when they take turns.  A host gets in through a control plane that is   *)
(* there, by an init that was asked to join it, and gets out by a removal  *)
(* that cordons, resets and deletes it, in this order and however many     *)
(* runs it takes.  A removal answers "ok" when it has taken its own host   *)
(* out; an init when each worker it was asked to join is in, or is the     *)
(* "stale" host of a former cluster, which init cannot tell from one that  *)
(* is in.  Nothing of files, epochs and calls is seen.                     *)
(***************************************************************************)
CONSTANTS Operators, ControlPlane, Workers

VARIABLES
  life,    \* per host: how far in, or out, it is
  job,     \* what each operator's command is to do, and to which hosts
  answer   \* what each operator was told last

membership == <<life, job, answer>>

Nothing     == [does |-> "nothing", hosts |-> {}]
Joining(W)  == [does |-> "init", hosts |-> W]
Removing(h) == [does |-> "remove", hosts |-> {h}]

Init ==
  /\ life = [h \in Workers \cup {ControlPlane} |-> "out"]
  /\ job = [o \in Operators |-> Nothing]
  /\ answer = [o \in Operators |-> "none"]

Begin(o) ==
  /\ job[o] = Nothing
  /\ \E j \in {Joining(W) : W \in SUBSET Workers}
             \cup {Removing(h) : h \in Workers \cup {ControlPlane}} :
       job' = [job EXCEPT ![o] = j]
  /\ UNCHANGED <<life, answer>>

Answer(o, r) ==
  /\ job' = [job EXCEPT ![o] = Nothing]
  /\ answer' = [answer EXCEPT ![o] = r]

GoOn == UNCHANGED <<job, answer>>

Moves(h, from, to) == life[h] = from /\ life' = [life EXCEPT ![h] = to]

-----------------------------------------------------------------------------
(* init *)

(* A control plane without workers: those of the cluster before it are     *)
(* stale.  The init may fail in spite of it.                               *)
Create(o) ==
  /\ Moves(ControlPlane, "out", "in")
  /\ GoOn \/ Answer(o, "err")

(* A host that joins again after a removal that did not get to its end is  *)
(* still cordoned.                                                         *)
Join(w) ==
  /\ life[ControlPlane] # "out"
  /\ Moves(w, "out", "in") \/ Moves(w, "reset", "cordoned")
  /\ GoOn

(* Some worker runs the platform.                                          *)
Finish(o) ==
  /\ life[ControlPlane] # "out"
  /\ \A w \in job[o].hosts : life[w] \in {"in", "cordoned", "stale"}
  /\ \E w \in Workers : life[w] \in {"in", "cordoned"}
  /\ Answer(o, "ok")
  /\ UNCHANGED life

Install(o) ==
  /\ job[o].does = "init"
  /\ Create(o) \/ Finish(o) \/ \E w \in job[o].hosts : Join(w)

-----------------------------------------------------------------------------
(* node remove *)

Cordon(h) == Moves(h, "in", "cordoned") /\ GoOn

Reset(w) == w # ControlPlane /\ Moves(w, "cordoned", "reset") /\ GoOn

Delete(o, w) == Moves(w, "reset", "out") /\ Answer(o, "ok")

(* With the control plane goes the cluster.                                *)
Dissolve ==
  /\ life[ControlPlane] = "cordoned"
  /\ life' = [h \in Workers \cup {ControlPlane} |->
                IF h # ControlPlane /\ life[h] \in {"in", "cordoned", "stale"}
                THEN "stale" ELSE "out"]
  /\ GoOn

Remove(o) ==
  /\ job[o].does = "remove"
  /\ \E h \in job[o].hosts :
       \/ Cordon(h) \/ Reset(h) \/ Delete(o, h)
       \/ h = ControlPlane /\ Dissolve

-----------------------------------------------------------------------------

Fail(o) == job[o] # Nothing /\ Answer(o, "err") /\ UNCHANGED life

Next == \E o \in Operators : Begin(o) \/ Install(o) \/ Remove(o) \/ Fail(o)

Spec == Init /\ [][Next]_membership

=============================================================================
