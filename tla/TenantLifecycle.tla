-------------------------- MODULE TenantLifecycle --------------------------
(***************************************************************************)
(* What `bifrost tenant add` and `bifrost tenant remove` promise: a tenant *)
(* is built, becomes ready with the limits of the tier it was asked for,   *)
(* stays ready until it is removed, and add answers "ok" in the step that  *)
(* makes the tenant ready.  Nothing of namespaces or policies is seen.     *)
(***************************************************************************)
CONSTANTS
  Operators, Names, Tiers,
  Limits(_),     \* what a tier allows
  NoLimits       \* limits of what is not a ready tenant

VARIABLES
  stage,         \* per name
  tier,          \* the tier the tenant was asked for, while it exists
  limits,        \* what is enforced on a ready tenant
  answer         \* what each operator was told last

lifecycle == <<stage, tier, limits, answer>>

Stages == {"absent", "foreign", "building", "ready", "deleting"}

(* The names may be in use by namespaces that are no tenants. *)
Init ==
  /\ stage \in [Names -> {"absent", "foreign"}]
  /\ tier = [n \in Names |-> "none"]
  /\ limits = [n \in Names |-> NoLimits]
  /\ answer = [o \in Operators |-> "none"]

(* Somebody else takes the name. *)
Taken(n) ==
  /\ stage[n] = "absent"
  /\ stage' = [stage EXCEPT ![n] = "foreign"]
  /\ UNCHANGED <<tier, limits, answer>>

Begin(n, q) ==
  /\ stage[n] = "absent"
  /\ stage' = [stage EXCEPT ![n] = "building"]
  /\ tier' = [tier EXCEPT ![n] = q]
  /\ UNCHANGED <<limits, answer>>

(* The operator learns of it unless the answer is lost. *)
Complete(o, n) ==
  /\ stage[n] = "building"
  /\ stage' = [stage EXCEPT ![n] = "ready"]
  /\ limits' = [limits EXCEPT ![n] = Limits(tier[n])]
  /\ \E r \in {"added", "err"} : answer' = [answer EXCEPT ![o] = r]
  /\ UNCHANGED tier

Remove(o, n) ==
  /\ stage[n] # "absent"
  /\ stage' = [stage EXCEPT ![n] = "deleting"]
  /\ limits' = [limits EXCEPT ![n] = NoLimits]
  /\ \E r \in {"removed", "err"} : answer' = [answer EXCEPT ![o] = r]
  /\ UNCHANGED tier

Gone(n) ==
  /\ stage[n] = "deleting"
  /\ stage' = [stage EXCEPT ![n] = "absent"]
  /\ tier' = [tier EXCEPT ![n] = "none"]
  /\ UNCHANGED <<limits, answer>>

Fail(o) ==
  /\ answer' = [answer EXCEPT ![o] = "err"]
  /\ UNCHANGED <<stage, tier, limits>>

Next ==
  \/ \E n \in Names, q \in Tiers : Begin(n, q)
  \/ \E o \in Operators, n \in Names : Complete(o, n) \/ Remove(o, n)
  \/ \E n \in Names : Gone(n) \/ Taken(n)
  \/ \E o \in Operators : Fail(o)

Spec == Init /\ [][Next]_lifecycle

=============================================================================
