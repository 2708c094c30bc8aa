--------------------------- MODULE TenantRecovery ---------------------------
(***************************************************************************)
(* Recovery from a failed `tenant add`.  Add is refused when the namespace *)
(* is there, so running it again after an error achieves nothing; the way  *)
(* out is `tenant remove`, then `tenant add` once the namespace is gone.   *)
(* Here every operator does just that, for one tenant, until add succeeds. *)
(*                                                                         *)
(* Fairness: the operator goes on, every API call returns at last, and the *)
(* namespace controller finishes a deletion at last.  Faults are finite,   *)
(* and nobody makes a namespace of that name by hand meanwhile.            *)
(***************************************************************************)
EXTENDS TenantManager

AddIfAbsent(o) ==
  ns[name[o]].phase = "absent" /\ StartAdd(o, name[o], quota[o])

RemoveAfterError(o) ==
  ns[name[o]].phase # "absent" /\ outcome[o] = "err" /\ StartRemove(o, name[o])

(* The first command, which may find a namespace that is no tenant. *)
FirstAdd(o) == outcome[o] = "none" /\ StartAdd(o, name[o], quota[o])

Recover(o) ==
  AddIfAbsent(o) \/ RemoveAfterError(o) \/ FirstAdd(o) \/ CommandStep(o)

RecoverNext == (\E o \in Operators : Recover(o)) \/ (\E n \in Names : Finalize(n))

RecoverSpec ==
  /\ Init /\ [][RecoverNext]_vars
  /\ \A o \in Operators : WF_vars(Recover(o))
  /\ \A n \in Names : WF_vars(Finalize(n))

(* Whichever call of Add or Remove failed, there is a way back to a        *)
(* complete tenant: a partial namespace can always be removed (Remove does *)
(* not look at what is in it) and added again with all its objects.        *)
TenantConverges ==
  \A o \in Operators :
    <>[](Provisioned(name[o]) /\ outcome[o] = "added" /\ pc[o] = "idle")

=============================================================================
