----------------------------- MODULE RemoteCall -----------------------------
(***************************************************************************)
(* What the callers of sshclient.Client.Run rely on: a call runs its       *)
(* command at most once; "ok" and "fail" are answers about a run that is   *)
(* over.  "error" says nothing: the command may never start, or start, or  *)
(* go on, after the answer.  Every step of Bootstrap that is a command on  *)
(* a host is such a call.                                                  *)
(***************************************************************************)
CONSTANT Calls

VARIABLES
  answer,  \* per call: what Run has returned
  ran      \* per call: what the host has done

vars == <<answer, ran>>

Init ==
  /\ answer = [k \in Calls |-> "unasked"]
  /\ ran = [k \in Calls |-> "no"]

Ask(k) ==
  /\ answer[k] = "unasked"
  /\ answer' = [answer EXCEPT ![k] = "asked"]
  /\ UNCHANGED ran

Begin(k) ==
  /\ answer[k] \in {"asked", "error"} /\ ran[k] = "no"
  /\ ran' = [ran EXCEPT ![k] = "running"]
  /\ UNCHANGED answer

End(k) ==
  /\ ran[k] = "running"
  /\ \E r \in {"ok", "fail"} : ran' = [ran EXCEPT ![k] = r]
  /\ UNCHANGED answer

Report(k) ==
  /\ answer[k] = "asked" /\ ran[k] \in {"ok", "fail"}
  /\ answer' = [answer EXCEPT ![k] = ran[k]]
  /\ UNCHANGED ran

GiveUp(k) ==
  /\ answer[k] \in {"unasked", "asked"}
  /\ answer' = [answer EXCEPT ![k] = "error"]
  /\ UNCHANGED ran

Next == \E k \in Calls : Ask(k) \/ Begin(k) \/ End(k) \/ Report(k) \/ GiveUp(k)

Spec == Init /\ [][Next]_vars

=============================================================================
