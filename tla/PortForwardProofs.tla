------------------------- MODULE PortForwardProofs -------------------------
(***************************************************************************)
(* Theorems about PortForward, for any number of processes on a machine.   *)
(***************************************************************************)
EXTENDS PortForward, TLAPS

(* A goroutine that serves has the port. *)
ServesItsPort == \A f \in Forwards : worker[f] = "serve" => listener[f[2]] = f[1]

(* What a run talks through has been ready. *)
UsesReady ==
  \A p \in Procs : pc[p] \notin {"returned", "exited"} =>
    \A f \in InUse(p) : ready[f]

(* A run that is under way has closed no stop channel. *)
NoneClosed ==
  \A f \in Forwards : pc[f[1]] \notin {"returned", "exited"} => stopped[f] = 0

(* The inductive invariant. *)
Inv == TypeOK /\ NoneClosed /\ ServesItsPort /\ UsesReady

(* TypeOK, channel by channel. *)
Typed ==
  /\ pc \in [Procs -> {"call", "select", "use", "returned", "exited"}]
  /\ port \in [Procs -> Ports]
  /\ cancelled \in [Procs -> BOOLEAN]
  /\ listener \in [Ports -> Procs \cup {Nobody}]
  /\ worker \in [Forwards -> {"none", "dial", "listen", "serve", "error"}]
  /\ ready \in [Forwards -> BOOLEAN]
  /\ failed \in [Forwards -> BOOLEAN]
  /\ stopped \in [Forwards -> {0, 1}]

(* The two ways of writing the types.                                      *)
LEMMA TypeParts == TypeOK <=> Typed
BY DEF TypeOK, Typed

(* Returning closes each stop channel for the first time.                  *)
LEMMA ReturnStep ==
  ASSUME TypeOK, NoneClosed, NEW p \in Procs,
         pc[p] \notin {"returned", "exited"},
         NEW Fs, Return(p, Fs), \A f \in Forwards : f \in Fs => f[1] = p
  PROVE  /\ stopped' \in [Forwards -> {0, 1}]
         /\ NoneClosed'
<1>1. ASSUME NEW f \in Forwards
      PROVE  /\ stopped'[f] = IF f \in Fs THEN 1 ELSE stopped[f]
             /\ stopped[f] \in {0, 1}
  <2>1. f \in Fs => stopped[f] = 0
    BY DEF NoneClosed
  <2>2. stopped[f] \in {0, 1} /\ stopped'[f] = stopped[f] + IF f \in Fs THEN 1 ELSE 0
    BY DEF Return, TypeOK
  <2>3. QED
    BY <2>1, <2>2
<1>2. stopped' \in [Forwards -> {0, 1}]
  <2>1. stopped' = [f \in Forwards |-> stopped'[f]]
    BY DEF Return
  <2>2. \A f \in Forwards : stopped'[f] \in {0, 1}
    BY <1>1
  <2>3. QED
    BY <2>1, <2>2
<1>3. NoneClosed'
  <2> SUFFICES ASSUME NEW f \in Forwards, pc'[f[1]] \notin {"returned", "exited"}
               PROVE  stopped'[f] = 0
    BY DEF NoneClosed
  <2>1. pc' = [pc EXCEPT ![p] = "returned"] /\ f[1] \in Procs
    BY DEF Return, Goto, Forwards
  <2>2. f[1] # p /\ pc[f[1]] \notin {"returned", "exited"}
    BY <2>1 DEF TypeOK
  <2>3. QED
    BY <1>1, <2>2 DEF NoneClosed
<1>4. QED
  BY <1>2, <1>3

LEMMA ReturnSets ==
  \A p \in Procs : \A f \in Forwards : f \in Earlier(p) \cup {Current(p)} => f[1] = p
BY DEF Earlier, Current, Forwards

(* Each step keeps the types.                                              *)
LEMMA TypeStep == TypeOK /\ NoneClosed /\ [Next]_vars => TypeOK' /\ NoneClosed'
<1> SUFFICES ASSUME TypeOK, Typed, NoneClosed, [Next]_vars PROVE Typed' /\ NoneClosed'
  BY TypeParts DEF TypeOK, Typed
<1> USE DEF Typed, Goto, chans
<1>0. ASSUME stopped' = stopped,
             \A q \in Procs : pc'[q] = pc[q] \/ pc'[q] = "exited"
                                \/ pc[q] \notin {"returned", "exited"}
      PROVE  NoneClosed'
  BY <1>0 DEF NoneClosed, Forwards
<1>1. ASSUME NEW p \in Procs, Start(p) \/ SelectReady(p) PROVE Typed' /\ NoneClosed'
  BY <1>0, <1>1 DEF Start, SelectReady
<1>2. ASSUME NEW p \in Procs, Abandon(p) \/ SelectFailed(p) \/ SelectCancelled(p)
      PROVE  Typed' /\ NoneClosed'
  <2>1. PICK Fs \in {Earlier(p), Earlier(p) \cup {Current(p)}} : Return(p, Fs)
    BY <1>2 DEF Abandon, SelectFailed, SelectCancelled
  <2>2. pc[p] \notin {"returned", "exited"}
    BY <1>2 DEF Abandon, SelectFailed, SelectCancelled
  <2>3. stopped' \in [Forwards -> {0, 1}] /\ NoneClosed'
    BY <2>1, <2>2, ReturnStep, ReturnSets
  <2>4. QED
    BY <1>2, <2>1, <2>3 DEF Abandon, SelectFailed, SelectCancelled, Return
<1>3. ASSUME NEW p \in Procs, Use(p) PROVE Typed' /\ NoneClosed'
  <2>1. 8202 \in Ports
    BY DEF Ports
  <2>2. UNCHANGED <<cancelled, listener, worker, ready, failed>>
    BY <1>3 DEF Use
  <2>3. CASE /\ port' = [port EXCEPT ![p] = 8202]
             /\ pc' = [pc EXCEPT ![p] = "call"] /\ stopped' = stopped
    BY <1>0, <1>3, <2>1, <2>2, <2>3 DEF Use
  <2>4. CASE port' = port /\ Return(p, Earlier(p) \cup {Current(p)})
    <3>1. pc[p] \notin {"returned", "exited"}
      BY <1>3 DEF Use
    <3>2. stopped' \in [Forwards -> {0, 1}] /\ NoneClosed'
      BY <2>4, <3>1, ReturnStep, ReturnSets
    <3>3. QED
      BY <2>2, <2>4, <3>2 DEF Return
  <2>5. QED
    BY <1>3, <2>3, <2>4 DEF Use
<1>4. ASSUME NEW p \in Procs, Cancel(p) PROVE Typed' /\ NoneClosed'
  BY <1>0, <1>4 DEF Cancel
<1>5. ASSUME NEW p \in Procs, Exit(p) PROVE Typed' /\ NoneClosed'
  BY <1>0, <1>5 DEF Exit
<1>6. ASSUME NEW f \in Forwards, Dial(f) \/ Report(f) PROVE Typed' /\ NoneClosed'
  BY <1>0, <1>6 DEF Dial, Report, Becomes
<1>7. ASSUME NEW f \in Forwards, Listen(f) \/ Stop(f) \/ Lose(f)
      PROVE  Typed' /\ NoneClosed'
  <2>1. f[1] \in Procs
    BY DEF Forwards
  <2>2. CASE Listen(f)
    BY <1>0, <2>1, <2>2 DEF Listen, Becomes
  <2>3. CASE Stop(f) \/ Lose(f)
    BY <1>0, <2>3 DEF Stop, Lose, EndServe, Becomes
  <2>4. QED
    BY <1>7, <2>2, <2>3
<1>8. CASE UNCHANGED vars
  BY <1>0, <1>8 DEF vars
<1> HIDE DEF Typed
<1>9. QED
  BY <1>1, <1>2, <1>3, <1>4, <1>5, <1>6, <1>7, <1>8 DEF Next, Caller, Goroutine, AfterDial

(* A forward that serves has its port, and only it.                        *)
LEMMA ServesStep == TypeOK /\ ServesItsPort /\ [Next]_vars => ServesItsPort'
<1> USE PortAssumption
<1> SUFFICES ASSUME TypeOK, ServesItsPort, [Next]_vars,
                    NEW g \in Forwards, worker'[g] = "serve"
             PROVE  listener'[g[2]] = g[1]
  BY DEF ServesItsPort
<1>1. ASSUME NEW p \in Procs, Caller(p) PROVE listener'[g[2]] = g[1]
  BY <1>1 DEF Caller, Start, Abandon, SelectReady, SelectFailed, SelectCancelled,
              Use, TypeOK, ServesItsPort
<1>2. ASSUME NEW p \in Procs, Cancel(p) \/ Exit(p) PROVE listener'[g[2]] = g[1]
  BY <1>2 DEF Cancel, Exit, TypeOK, ServesItsPort, Forwards
<1>3. ASSUME NEW f \in Forwards, Dial(f) \/ Listen(f) \/ Report(f)
      PROVE  listener'[g[2]] = g[1]
  BY <1>3 DEF Dial, Listen, Report, Becomes, TypeOK, ServesItsPort, Forwards
<1>4. ASSUME NEW f \in Forwards, Stop(f) \/ Lose(f)
      PROVE  listener'[g[2]] = g[1]
  <2>1. /\ worker[f] = "serve"
        /\ listener' = [listener EXCEPT ![f[2]] = Nobody]
        /\ g # f /\ worker[g] = "serve"
    BY <1>4 DEF Stop, Lose, EndServe, Becomes, TypeOK
  <2>2. listener[f[2]] = f[1] /\ listener[g[2]] = g[1]
    BY <2>1 DEF ServesItsPort
  <2>3. f[2] # g[2]
    BY <2>1, <2>2 DEF Forwards
  <2>4. QED
    BY <2>1, <2>2, <2>3 DEF TypeOK, Forwards
<1>5. CASE UNCHANGED vars
  BY <1>5 DEF vars, ServesItsPort
<1>6. QED
  BY <1>1, <1>2, <1>3, <1>4, <1>5 DEF Next, Goroutine, AfterDial

(* A run uses a forward only after it was ready.                           *)
LEMMA UsesStep == TypeOK /\ TypeOK' /\ UsesReady /\ [Next]_vars => UsesReady'
<1> SUFFICES ASSUME TypeOK, TypeOK', UsesReady, [Next]_vars,
                    NEW q \in Procs, pc'[q] \notin {"returned", "exited"},
                    NEW g \in InUse(q)'
             PROVE  ready'[g]
  BY DEF UsesReady
<1>1. g \in Forwards /\ g \in Earlier(q)' \cup {Current(q)'}
  BY DEF InUse, Earlier, Current, TypeOK, Forwards
<1>2. ready[g] => ready'[g]
  BY <1>1 DEF Next, Caller, Start, Abandon, SelectReady, SelectFailed,
     SelectCancelled, Use, Return, Cancel, Exit, Goroutine, AfterDial, Lose, Dial,
     Listen, Stop, Report, EndServe, Becomes, TypeOK, vars, chans
<1>3. ASSUME pc'[q] = pc[q], port'[q] = port[q]
      PROVE  ready'[g]
  BY <1>2, <1>3 DEF UsesReady, InUse, Earlier, Current
<1>4. ASSUME NEW p \in Procs, Caller(p)
      PROVE  ready'[g]
  <2>1. CASE p # q
    BY <1>3, <1>4, <2>1 DEF Caller, Start, Abandon, SelectReady, SelectFailed,
       SelectCancelled, Use, Return, Goto, TypeOK
  <2>2. CASE p = q
    <3>1. ~(Abandon(q) \/ SelectFailed(q) \/ SelectCancelled(q))
      BY DEF Abandon, SelectFailed, SelectCancelled, Return, Goto, TypeOK
    <3>2. CASE Start(q)
      BY <1>2, <3>2 DEF Start, Goto, TypeOK, UsesReady, InUse, Earlier
    <3>3. CASE SelectReady(q)
      BY <1>2, <3>3 DEF SelectReady, Goto, TypeOK, UsesReady, InUse, Earlier, Current
    <3>4. CASE Use(q)
      <4>1. /\ pc[q] = "use" /\ pc'[q] = "call"
            /\ port[q] = 8201 /\ port'[q] = 8202
        BY <3>4 DEF Use, Return, Goto, TypeOK
      <4>2. g = <<q, 8201>>
        BY <4>1 DEF InUse, Earlier, Ports
      <4>3. ready[g]
        BY <4>1, <4>2 DEF UsesReady, InUse, Current
      <4>4. QED
        BY <1>2, <4>3
    <3>5. QED
      BY <1>4, <2>2, <3>1, <3>2, <3>3, <3>4 DEF Caller
  <2>3. QED
    BY <2>1, <2>2
<1>5. ASSUME NEW p \in Procs, Cancel(p) \/ Exit(p)
      PROVE  ready'[g]
  BY <1>3, <1>5 DEF Cancel, Exit, Goto, TypeOK
<1>6. ASSUME NEW f \in Forwards, Goroutine(f) \/ Lose(f)
      PROVE  ready'[g]
  BY <1>3, <1>6 DEF Goroutine, AfterDial, Lose, Dial, Listen, Stop, Report, EndServe
<1>7. CASE UNCHANGED vars
  BY <1>3, <1>7 DEF vars
<1>8. QED
  BY <1>4, <1>5, <1>6, <1>7 DEF Next

(* The inductive invariant holds in every reachable state.                 *)
LEMMA Invariance == Spec => []Inv
<1>1. Init => Inv
  BY DEF Init, Inv, TypeOK, NoneClosed, ServesItsPort, UsesReady, InUse, Earlier, Ports
<1>2. Inv /\ [Next]_vars => Inv'
  BY TypeStep, ServesStep, UsesStep DEF Inv
<1>3. QED
  BY <1>1, <1>2, PTL DEF Spec

(* The variables keep their types.  Of stopped this says that no stop      *)
(* channel is ever closed twice, whether PortForward closes it or the      *)
(* deferred calls do (portforward.go:75, deploy.go:85, deploy.go:217).     *)
THEOREM TypeCorrect == Spec => []TypeOK
<1>1. Inv => TypeOK
  BY DEF Inv
<1>2. QED
  BY <1>1, Invariance, PTL

(* However many processes compete for the two ports, a run that talks to   *)
(* another's server has lost a forward of its own that was ready: it never *)
(* takes a port that somebody else has for its own (PortForward waits for  *)
(* readyCh, portforward.go:70).                                            *)
THEOREM PortsAreOwn == Spec => []OtherServerOnlyAfterLoss
<1>1. Inv => OtherServerOnlyAfterLoss
  <2> SUFFICES ASSUME Inv, NEW p \in Procs, pc[p] \notin {"returned", "exited"},
                      NEW f \in InUse(p), listener[f[2]] \notin {p, Nobody}
               PROVE  ready[f] /\ worker[f] # "serve"
    BY DEF Inv, OtherServerOnlyAfterLoss
  <2>1. f \in Forwards /\ f[1] = p
    BY DEF Inv, InUse, Earlier, Current, TypeOK, Forwards
  <2>2. QED
    BY <2>1 DEF Inv, ServesItsPort, UsesReady
<1>2. QED
  BY <1>1, Invariance, PTL

-----------------------------------------------------------------------------
(* What PortForwardReturns and LeavesNothing rest on besides fairness.     *)

(* A caller that waits in the select is woken by what has happened or by   *)
(* the goroutine, which has not ended (portforward.go:69).                 *)
SelectIsWoken ==
  \A p \in Procs : pc[p] = "select" =>
    ready[Current(p)] \/ failed[Current(p)] \/ worker[Current(p)] # "none"

(* When DeployAndConfigure has returned, each of its goroutines has ended, *)
(* is about to, or has been told to, and no port is held by any other      *)
(* goroutine (portforward.go:75, the deferred calls of deploy.go).         *)
NothingForgotten ==
  \A p \in Procs : pc[p] = "returned" =>
    \A l \in Ports : /\ worker[<<p, l>>] \in {"none", "error"} \/ stopped[<<p, l>>] > 0
                     /\ listener[l] = p => worker[<<p, l>>] = "serve"

(* Forwards that their process has not come to. *)
Ahead(f) ==
  \/ port[f[1]] < f[2]
  \/ port[f[1]] = f[2] /\ pc[f[1]] = "call"

Woken == \A f \in Forwards :
           pc[f[1]] = "select" /\ port[f[1]] = f[2] => ready[f] \/ failed[f] \/ worker[f] # "none"

GoroutinesInOrder ==
  \A f \in Forwards :
    /\ worker[f] = "serve" => ready[f]
    /\ listener[f[2]] = f[1] => worker[f] = "serve"
    /\ failed[f] \/ Ahead(f) => worker[f] = "none"
    /\ Ahead(f) => ~failed[f]

Told == \A f \in Forwards :
          pc[f[1]] = "returned" => worker[f] \in {"none", "error"} \/ stopped[f] > 0

Tidy == Woken /\ GoroutinesInOrder /\ Told

LEMMA PairOf == \A f \in Forwards : f[1] \in Procs /\ f[2] \in Ports /\ f = <<f[1], f[2]>>
BY DEF Forwards

(* The caller's steps. *)
LEMMA CallerTidy ==
  ASSUME TypeOK, Tidy, NEW p \in Procs, Caller(p)
  PROVE  Tidy'
<1> USE DEF TypeOK, Tidy, Goto, Return, chans
<1>1. ASSUME NEW f \in Forwards
      PROVE  /\ f[1] \in Procs /\ f[2] \in Ports
             /\ f = Current(p) <=> f[1] = p /\ f[2] = port[p]
             /\ f \in Earlier(p) <=> f[1] = p /\ f[2] < port[p]
             /\ f \in Forwards
  BY DEF Current, Earlier, Forwards
<1>2. Current(p) \in Forwards /\ port[p] \in Ports /\ Ports \subseteq Nat
  BY DEF Current, Forwards, Ports
<1>3. ASSUME Start(p) PROVE Tidy'
  <2> USE <1>3 DEF Start
  <2>1. worker' = [worker EXCEPT ![Current(p)] = "dial"] /\ Ahead(Current(p))
    BY <1>2 DEF Ahead, Current
  <2>2. ASSUME NEW f \in Forwards, Ahead(f)' PROVE Ahead(f) /\ f # Current(p)
    <3>1. /\ pc' = [pc EXCEPT ![p] = "select"] /\ port' = port
          /\ port[f[1]] < f[2] \/ (port[f[1]] = f[2] /\ pc'[f[1]] = "call")
      BY <2>2 DEF Ahead
    <3>2. Ahead(f)
      BY <1>1, <3>1 DEF Ahead
    <3>3. ASSUME f[1] = p PROVE f[2] # port[p]
      <4>1. ~(port[p] < port[p])
        BY <1>2 DEF Ports
      <4>2. pc'[p] = "select"
        BY <3>1
      <4>3. QED
        BY <3>1, <3>3, <4>1, <4>2
    <3>4. QED
      BY <1>1, <3>2, <3>3
  <2>3. Woken'
    BY <1>1, <1>2, <2>1 DEF Woken
  <2>4. GoroutinesInOrder'
    BY <1>1, <1>2, <2>1, <2>2 DEF GoroutinesInOrder
  <2>5. Told'
    BY <1>1, <1>2, <2>1 DEF Told
  <2>6. QED
    BY <2>3, <2>4, <2>5
<1>4. ASSUME UNCHANGED <<port, listener, worker, ready>>,
             pc' = [pc EXCEPT ![p] = "returned"],
             \A f \in Forwards : failed'[f] => failed[f],
             \A f \in Forwards : f # Current(p) => failed'[f] = failed[f],
             \A f \in Forwards : f \in Earlier(p) \/ stopped[f] > 0 => stopped'[f] > 0,
             pc[p] = "call" \/ failed[Current(p)] \/ stopped'[Current(p)] > 0
      PROVE  Tidy'
  <2> USE <1>4
  <2>1. ASSUME NEW f \in Forwards PROVE Ahead(f)' => Ahead(f)
    BY <1>1, <2>1 DEF Ahead
  <2>2. Woken'
    BY <1>1 DEF Woken
  <2>3. GoroutinesInOrder'
    BY <2>1 DEF GoroutinesInOrder
  <2>4. ASSUME NEW f \in Forwards, f[1] = p
        PROVE  f \in Earlier(p) \/ f = Current(p) \/ Ahead(f)
    <3>1. f[2] < port[p] \/ f[2] = port[p] \/ port[p] < f[2]
      BY <1>1, <1>2 DEF Ports
    <3>2. port[f[1]] = port[p]
      BY <2>4
    <3>3. QED
      BY <1>1, <2>4, <3>1, <3>2 DEF Ahead
  <2>5. pc[p] = "call" => Ahead(Current(p))
    BY DEF Ahead, Current
  <2>6. Told'
    BY <1>1, <1>2, <2>4, <2>5 DEF Told, GoroutinesInOrder
  <2>7. QED
    BY <2>2, <2>3, <2>6
<1>5. ASSUME Abandon(p) \/ SelectFailed(p) \/ SelectCancelled(p) PROVE Tidy'
  BY <1>2, <1>4, <1>5 DEF Abandon, SelectFailed, SelectCancelled
<1>6. ASSUME SelectReady(p) PROVE Tidy'
  <2> USE <1>6 DEF SelectReady
  <2>1. ASSUME NEW f \in Forwards PROVE Ahead(f)' => Ahead(f)
    BY <1>1, <2>1 DEF Ahead
  <2>2. QED
    BY <1>1, <2>1 DEF Woken, GoroutinesInOrder, Told
<1>7. ASSUME Use(p) PROVE Tidy'
  <2>1. CASE port' = port
    <3>1. 8201 # 8202 /\ port[p] = 8201 => port # [port EXCEPT ![p] = 8202]
      OBVIOUS
    <3>2. Return(p, Earlier(p) \cup {Current(p)})
      BY <1>7, <2>1, <3>1 DEF Use
    <3>3. /\ stopped'[Current(p)] > 0
          /\ \A f \in Forwards : f \in Earlier(p) \/ stopped[f] > 0 => stopped'[f] > 0
      BY <1>2, <3>2
    <3>4. UNCHANGED <<listener, worker, ready, failed>>
      BY <1>7 DEF Use
    <3>5. QED
      BY <1>4, <2>1, <3>2, <3>3, <3>4
  <2>2. CASE port' # port
    <3>1. /\ port[p] = 8201 /\ port' = [port EXCEPT ![p] = 8202]
          /\ pc' = [pc EXCEPT ![p] = "call"]
          /\ UNCHANGED <<listener, worker, ready, failed, stopped>>
      BY <1>7, <2>2 DEF Use
    <3>2. ASSUME NEW f \in Forwards PROVE Ahead(f)' => Ahead(f)
      BY <1>1, <3>1 DEF Ahead, Ports
    <3>3. QED
      BY <1>1, <3>1, <3>2 DEF Woken, GoroutinesInOrder, Told
  <2>3. QED
    BY <2>1, <2>2
<1>8. QED
  BY <1>3, <1>5, <1>6, <1>7 DEF Caller

(* The goroutines' steps. *)
LEMMA GoroutineTidy ==
  ASSUME TypeOK, Tidy, NEW g \in Forwards, Goroutine(g) \/ Lose(g)
  PROVE  Tidy'
<1> USE PortAssumption DEF TypeOK, Tidy, Becomes, chans
<1>1. g[1] \in Procs /\ g[2] \in Ports
  BY PairOf
<1>2. \A f \in Forwards : f[1] = g[1] /\ f[2] = g[2] => f = g
  BY PairOf
<1>3. UNCHANGED <<pc, port, stopped>>
  BY DEF Goroutine, AfterDial, Dial, Listen, Stop, Report, Lose, EndServe
<1>4. ASSUME NEW f \in Forwards PROVE Ahead(f)' <=> Ahead(f)
  BY <1>3 DEF Ahead
<1>5. CASE Dial(g)
  <2>1. PICK next \in {"listen", "error"} : worker' = [worker EXCEPT ![g] = next]
    BY <1>5 DEF Dial
  <2>2. worker[g] = "dial" /\ UNCHANGED <<listener, ready, failed>>
    BY <1>5 DEF Dial
  <2>3. QED
    BY <1>3, <1>4, <2>1, <2>2 DEF Woken, GoroutinesInOrder, Told
<1>6. CASE Listen(g)
  <2>1. CASE listener[g[2]] = Nobody
    <3>1. /\ worker[g] = "listen"
          /\ listener' = [listener EXCEPT ![g[2]] = g[1]]
          /\ ready' = [ready EXCEPT ![g] = TRUE]
          /\ worker' = [worker EXCEPT ![g] = "serve"]
          /\ UNCHANGED failed
      BY <1>6, <2>1 DEF Listen
    <3>2. GoroutinesInOrder'
      BY <1>1, <1>2, <1>4, <3>1 DEF GoroutinesInOrder
    <3>3. Woken' /\ Told'
      BY <1>3, <3>1 DEF Woken, Told
    <3>4. QED
      BY <3>2, <3>3
  <2>2. CASE listener[g[2]] # Nobody
    <3>1. /\ worker[g] = "listen"
          /\ worker' = [worker EXCEPT ![g] = "error"]
          /\ UNCHANGED <<listener, ready, failed>>
      BY <1>6, <2>2 DEF Listen
    <3>2. QED
      BY <1>3, <1>4, <3>1 DEF Woken, GoroutinesInOrder, Told
  <2>3. QED
    BY <2>1, <2>2
<1>7. CASE Report(g)
  BY <1>3, <1>4, <1>7 DEF Report, Woken, GoroutinesInOrder, Told
<1>8. CASE Stop(g) \/ Lose(g)
  <2>1. PICK next \in {"none", "error"} : worker' = [worker EXCEPT ![g] = next]
    BY <1>8 DEF Stop, Lose, EndServe
  <2>2. /\ worker[g] = "serve"
        /\ listener' = [listener EXCEPT ![g[2]] = Nobody]
        /\ UNCHANGED <<ready, failed>>
    BY <1>8 DEF Stop, Lose, EndServe
  <2>3. ready[g] /\ ~failed[g] /\ ~Ahead(g)
    BY <2>2 DEF GoroutinesInOrder
  <2>4. GoroutinesInOrder'
    BY <1>1, <1>2, <1>4, <2>1, <2>2, <2>3, PairOf DEF GoroutinesInOrder
  <2>5. Woken'
    BY <1>3, <2>1, <2>2, <2>3 DEF Woken
  <2>6. Told'
    BY <1>3, <2>1, <2>2 DEF Told
  <2>7. QED
    BY <2>4, <2>5, <2>6
<1>9. QED
  BY <1>5, <1>6, <1>7, <1>8 DEF Goroutine, AfterDial

LEMMA TidyStep == TypeOK /\ Tidy /\ [Next]_vars => Tidy'
<1> SUFFICES ASSUME TypeOK, Tidy, [Next]_vars PROVE Tidy'
  OBVIOUS
<1>1. ASSUME NEW p \in Procs, Cancel(p) PROVE Tidy'
  BY <1>1 DEF Cancel, Tidy, Woken, GoroutinesInOrder, Told, Ahead, chans
<1>2. ASSUME NEW p \in Procs, Exit(p) PROVE Tidy'
  <2> USE <1>2, PairOf DEF Exit, Goto, TypeOK, Tidy, chans
  <2>1. ASSUME NEW f \in Forwards PROVE Ahead(f)' => Ahead(f)
    BY DEF Ahead
  <2>2. GoroutinesInOrder'
    BY <2>1, PortAssumption DEF GoroutinesInOrder
  <2>3. Woken' /\ Told'
    BY DEF Woken, Told
  <2>4. QED
    BY <2>2, <2>3
<1>3. CASE UNCHANGED vars
  BY <1>3 DEF vars, Tidy, Woken, GoroutinesInOrder, Told, Ahead, chans
<1>4. QED
  BY <1>1, <1>2, <1>3, CallerTidy, GoroutineTidy DEF Next

LEMMA TidyInvariant == Spec => [](TypeOK /\ Tidy)
<1>1. Init => Tidy
  BY PairOf, PortAssumption DEF Init, Tidy, Woken, GoroutinesInOrder, Told
<1>2. QED
  BY <1>1, TidyStep, TypeCorrect, PTL DEF Spec

(* PortForward never waits for a message that nobody is left to send,      *)
(* whatever ForwardPorts meets and whichever process takes the port first. *)
THEOREM SelectsAreWoken == Spec => []SelectIsWoken
<1>1. TypeOK /\ Tidy => SelectIsWoken
  BY DEF TypeOK, Tidy, Woken, SelectIsWoken, Current, Forwards
<1>2. QED
  BY <1>1, TidyInvariant, PTL

(* A run that has returned has left no goroutine behind that does not end, *)
(* and no port in other hands, wherever it was cancelled or failed.        *)
THEOREM NothingIsForgotten == Spec => []NothingForgotten
<1>1. Tidy => NothingForgotten
  BY DEF Tidy, Told, GoroutinesInOrder, NothingForgotten, Forwards
<1>2. QED
  BY <1>1, TidyInvariant, PTL

=============================================================================
