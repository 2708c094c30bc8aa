---------------------------- MODULE PortForward ----------------------------
(***************************************************************************)
(* k8sclient.PortForward as bao.DeployAndConfigure uses it: first the root *)
(* server's pod is forwarded to local port 8201, then the main server's to *)
(* 8202, and both forwards are stopped by deferred calls.  Each forward is *)
(* a goroutine that talks to the caller over three channels: readyCh,      *)
(* errCh (capacity 1) and stopCh.  The port numbers are fixed, so bifrost  *)
(* processes on one machine compete for them.                              *)
(*                                                                         *)
(* client-go's ForwardPorts is external: it dials the API server, listens  *)
(* on the local port, closes readyCh, serves until stopCh is closed (nil)  *)
(* or the pod's connection is lost (an error), and stops listening before  *)
(* it returns.                                                             *)
(***************************************************************************)
EXTENDS Naturals

CONSTANTS
  Procs,   \* bifrost processes on one machine
  Nobody   \* no process listens on a port

ASSUME PortAssumption == Nobody \notin Procs

Ports    == {8201, 8202}   \* in the order in which they are opened
Forwards == Procs \X Ports

VARIABLES
  pc,         \* where each caller is
  port,       \* the port the caller is at
  cancelled,  \* ctx.Done() is closed
  listener,   \* per port: the process that listens on it
  worker,     \* per forward: the goroutine
  ready,      \* readyCh is closed
  failed,     \* errCh holds an error
  stopped     \* how often stopCh was closed: Go panics at the second time

chans == <<ready, failed, stopped>>
vars  == <<pc, port, cancelled, listener, worker, chans>>

(* The types; of stopped: no stop channel is closed twice, by PortForward  *)
(* and by a deferred call of its caller (portforward.go:75, deploy.go:85,  *)
(* deploy.go:217).                                                         *)
TypeOK ==
  /\ pc \in [Procs -> {"call", "select", "use", "returned", "exited"}]
  /\ port \in [Procs -> Ports]
  /\ cancelled \in [Procs -> BOOLEAN]
  /\ listener \in [Ports -> Procs \cup {Nobody}]
  /\ worker \in [Forwards -> {"none", "dial", "listen", "serve", "error"}]
  /\ \A ch \in {ready, failed} : ch \in [Forwards -> BOOLEAN]
  /\ stopped \in [Forwards -> {0, 1}]

Init ==
  /\ pc = [p \in Procs |-> "call"]
  /\ port = [p \in Procs |-> 8201]
  /\ cancelled = [p \in Procs |-> FALSE]
  /\ listener = [l \in Ports |-> Nobody]
  /\ worker = [f \in Forwards |-> "none"]
  /\ ready = [f \in Forwards |-> FALSE]
  /\ failed = [f \in Forwards |-> FALSE]
  /\ stopped = [f \in Forwards |-> 0]

Goto(p, label) == pc' = [pc EXCEPT ![p] = label]

(* The forward that process p is at. *)
Current(p) == <<p, port[p]>>

-----------------------------------------------------------------------------
(* The caller: DeployAndConfigure and the body of PortForward. *)

(* Building the round tripper and the forwarder may fail; else the         *)
(* goroutine is started.                                                   *)
Start(p) ==
  /\ pc[p] = "call"
  /\ worker' = [worker EXCEPT ![Current(p)] = "dial"]
  /\ Goto(p, "select")
  /\ UNCHANGED <<port, cancelled, listener, chans>>

(* DeployAndConfigure returns, whatever the reason: the deferred calls     *)
(* close the stop channels of the forwards in Fs.                          *)
Return(p, Fs) ==
  /\ Goto(p, "returned")
  /\ stopped' = [f \in Forwards |-> stopped[f] + IF f \in Fs THEN 1 ELSE 0]

(* What p has opened before the port it is at. *)
Earlier(p) == {<<p, l>> : l \in {l \in Ports : l < port[p]}}

(* Anything in DeployAndConfigure before the next PortForward may fail.    *)
Abandon(p) ==
  /\ pc[p] = "call"
  /\ Return(p, Earlier(p))
  /\ UNCHANGED <<port, cancelled, listener, worker, ready, failed>>

(* Variant: PortForward does not wait for the goroutine. *)
SelectReadyAtOnce(p) ==
  /\ pc[p] = "select"
  /\ Goto(p, "use")
  /\ UNCHANGED <<port, cancelled, listener, worker, chans>>

SelectReady(p) ==
  /\ pc[p] = "select" /\ ready[Current(p)]
  /\ Goto(p, "use")
  /\ UNCHANGED <<port, cancelled, listener, worker, chans>>

SelectFailed(p) ==
  /\ pc[p] = "select" /\ failed[Current(p)]
  /\ failed' = [failed EXCEPT ![Current(p)] = FALSE]
  /\ Return(p, Earlier(p))
  /\ UNCHANGED <<port, cancelled, listener, worker, ready>>

(* Variant: PortForward returns stopCh with the error as well, and the     *)
(* caller has deferred its close before it looks at the error.             *)
SelectCancelledTwice(p) ==
  /\ pc[p] = "select" /\ cancelled[p]
  /\ Goto(p, "returned")
  /\ stopped' = [f \in Forwards |-> stopped[f] + IF f = Current(p) THEN 2
                                                ELSE IF f \in Earlier(p) THEN 1 ELSE 0]
  /\ UNCHANGED <<port, cancelled, listener, worker, ready, failed>>

(* Variant: the forward that is given up is not stopped. *)
SelectCancelledOpen(p) ==
  /\ pc[p] = "select" /\ cancelled[p]
  /\ Return(p, Earlier(p))
  /\ UNCHANGED <<port, cancelled, listener, worker, ready, failed>>

(* PortForward closes stopCh itself and returns nil in its place, so the   *)
(* caller has nothing to close.                                            *)
SelectCancelled(p) ==
  /\ pc[p] = "select" /\ cancelled[p]
  /\ Return(p, Earlier(p) \cup {Current(p)})
  /\ UNCHANGED <<port, cancelled, listener, worker, ready, failed>>

(* The calls through the port are made; then the next forward, or the end. *)
Use(p) ==
  /\ pc[p] = "use"
  /\ \/ /\ port[p] = 8201
        /\ port' = [port EXCEPT ![p] = 8202]
        /\ Goto(p, "call") /\ UNCHANGED stopped
     \/ Return(p, Earlier(p) \cup {Current(p)}) /\ UNCHANGED port
  /\ UNCHANGED <<cancelled, listener, worker, ready, failed>>

Caller(p) ==
  \/ Start(p) \/ Abandon(p) \/ SelectReady(p) \/ SelectFailed(p)
  \/ SelectCancelled(p) \/ Use(p)

-----------------------------------------------------------------------------
(* The goroutine of forward f. *)

Becomes(f, state) == worker' = [worker EXCEPT ![f] = state]

(* The request to the API server and its SPDY upgrade.  The round tripper  *)
(* is given neither ctx nor a deadline, and stopCh is not looked at while  *)
(* it runs: an API server that is silent keeps it for ever.                *)
Dial(f) ==
  /\ worker[f] = "dial"
  /\ \E next \in {"listen", "error"} : Becomes(f, next)
  /\ UNCHANGED <<pc, port, cancelled, listener, chans>>

(* The local port may be taken by another process. *)
Listen(f) ==
  /\ worker[f] = "listen"
  /\ \/ /\ listener[f[2]] = Nobody
        /\ listener' = [listener EXCEPT ![f[2]] = f[1]]
        /\ ready' = [ready EXCEPT ![f] = TRUE]
        /\ Becomes(f, "serve")
     \/ listener[f[2]] # Nobody /\ Becomes(f, "error") /\ UNCHANGED <<listener, ready>>
  /\ UNCHANGED <<pc, port, cancelled, failed, stopped>>

(* ForwardPorts stops listening and returns. *)
EndServe(f, next) ==
  /\ worker[f] = "serve"
  /\ listener' = [listener EXCEPT ![f[2]] = Nobody]
  /\ Becomes(f, next)
  /\ UNCHANGED <<pc, port, cancelled, chans>>

Stop(f) == stopped[f] > 0 /\ EndServe(f, "none")

(* The pod stops, or the connection to the API server breaks. *)
Lose(f) == EndServe(f, "error")

(* Variant: the error of ForwardPorts is dropped. *)
ReportNot(f) ==
  /\ worker[f] = "error"
  /\ Becomes(f, "none")
  /\ UNCHANGED <<pc, port, cancelled, listener, chans>>

(* An error of ForwardPorts goes to errCh, which has room for it; the      *)
(* goroutine ends.                                                         *)
Report(f) ==
  /\ worker[f] = "error"
  /\ failed' = [failed EXCEPT ![f] = TRUE]
  /\ Becomes(f, "none")
  /\ UNCHANGED <<pc, port, cancelled, listener, ready, stopped>>

(* What the goroutine does on its own once it has been answered. *)
AfterDial(f) == Listen(f) \/ Stop(f) \/ Report(f)

Goroutine(f) == Dial(f) \/ AfterDial(f)

-----------------------------------------------------------------------------
Cancel(p) ==
  /\ ~cancelled[p] /\ pc[p] \notin {"returned", "exited"}
  /\ cancelled' = [cancelled EXCEPT ![p] = TRUE]
  /\ UNCHANGED <<pc, port, listener, worker, chans>>

(* The process ends, after DeployAndConfigure or because it is killed: its *)
(* goroutines and listeners go with it.                                    *)
Exit(p) ==
  /\ pc[p] # "exited"
  /\ Goto(p, "exited")
  /\ worker' = [f \in Forwards |-> IF f[1] = p THEN "none" ELSE worker[f]]
  /\ listener' = [l \in Ports |-> IF listener[l] = p THEN Nobody ELSE listener[l]]
  /\ UNCHANGED <<port, cancelled, chans>>

Next ==
  \/ \E p \in Procs : Caller(p) \/ Cancel(p) \/ Exit(p)
  \/ \E f \in Forwards : Goroutine(f) \/ Lose(f)

(* The process is scheduled.  No dial need ever end, and no process need   *)
(* exit, be cancelled or lose a connection.                                *)
Spec ==
  /\ Init /\ [][Next]_vars
  /\ \A p \in Procs : WF_vars(Caller(p))
  /\ \A f \in Forwards : WF_vars(AfterDial(f))

-----------------------------------------------------------------------------
(* Properties. *)

(* The forwards whose port the caller talks to. *)
InUse(p) == Earlier(p) \cup IF pc[p] = "use" THEN {Current(p)} ELSE {}

(* A run talks to the server of another process's cluster only when it has *)
(* lost its own forward after it was ready: a port that was taken before   *)
(* makes PortForward fail instead (portforward.go:72, deploy.go:81).       *)
OtherServerOnlyAfterLoss ==
  \A p \in Procs : pc[p] \notin {"returned", "exited"} =>
    \A f \in InUse(p) :
      listener[f[2]] \notin {p, Nobody} => ready[f] /\ worker[f] # "serve"

(* The API server answers every dial of process p, or the connection to it *)
(* breaks.                                                                 *)
DialsEnd(p) == \A l \in Ports : []<>(worker[<<p, l>>] # "dial")

(* PortForward returns when its dial ends, whatever ForwardPorts meets     *)
(* after that, and when its context is cancelled, however long the dial    *)
(* lasts: every way out of ForwardPorts before readyCh is closed wakes the *)
(* select (portforward.go:61-77).  A dial that never ends holds a          *)
(* PortForward that nobody cancels: no deadline is set on it               *)
(* (portforward.go:35-40).                                                 *)
PortForwardReturns ==
  \A p \in Procs :
    DialsEnd(p) \/ <>cancelled[p] => (pc[p] = "select" ~> pc[p] # "select")

(* What DeployAndConfigure has opened does not outlast it: its ports are   *)
(* free for the next run and stay so, also when PortForward was cancelled  *)
(* while the goroutine was dialling and the dial succeeds later            *)
(* (portforward.go:75, the deferred calls of deploy.go).  No goroutine is  *)
(* left either once its dial has ended, also when a forward was lost and   *)
(* nobody reads errCh any more (portforward.go:61, its capacity).          *)
LeavesNothing ==
  \A p \in Procs :
    /\ pc[p] = "returned" ~> [](\A l \in Ports : listener[l] # p)
    /\ DialsEnd(p) => (pc[p] = "returned" ~> \A l \in Ports : worker[<<p, l>>] = "none")

=============================================================================
