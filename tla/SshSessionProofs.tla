-------------------------- MODULE SshSessionProofs --------------------------
(***************************************************************************)
(* Theorems about SshSession, for every number of clients, attempts and    *)
(* commands.                                                               *)
(***************************************************************************)
EXTENDS SshSession, TLAPS

-----------------------------------------------------------------------------
(* The connection. *)

ConnTyped ==
  /\ pc \in [Clients -> {"new", "dial", "handshake", "backoff", "connected",
                         "opening", "select", "returned"}]
  /\ tries \in [Clients -> 0 .. MaxTries]
  /\ open \in [Clients -> 0 .. 1]
  /\ link \in [Clients -> {"none", "up", "lost"}]
  /\ cancelled \in [Clients -> BOOLEAN]
  /\ denials \in [Clients -> 0 .. MaxTries]

(* Connect holds a TCP connection during the handshake only, goes on only  *)
(* while there is time, and has not been turned away if it does.           *)
Connecting ==
  \A c \in Clients :
    /\ pc[c] \in {"new", "dial", "backoff", "returned"} => open[c] = 0
    /\ pc[c] = "handshake" => open[c] = 1
    /\ pc[c] \notin {"connected", "opening", "select"} => link[c] = "none"
    /\ pc[c] \in {"new", "dial", "backoff"} => tries[c] < MaxTries
    /\ pc[c] \in {"new", "dial", "backoff", "handshake"} => denials[c] = 0
    /\ denials[c] <= 1

ConnInv == ConnTyped /\ Connecting

(* Each step of Connect, Run and Close keeps it.                           *)
LEMMA ConnStep == ConnInv /\ [Next]_vars => ConnInv'
<1> USE SshAssumption
<1> SUFFICES ASSUME ConnInv, [Next]_vars PROVE ConnInv'
  OBVIOUS
<1> USE DEF ConnInv, ConnTyped, Connecting, Goto, conn, calls
<1>1. ASSUME NEW c \in Clients, New(c) PROVE ConnInv'
  BY <1>1 DEF New, ConfigLeadsTo
<1>2. ASSUME NEW c \in Clients, Dial(c) PROVE ConnInv'
  BY <1>2 DEF Dial, AttemptFailed, isRetryableDialError
<1>3. ASSUME NEW c \in Clients, Handshake(c) PROVE ConnInv'
  BY <1>3 DEF Handshake
<1>4. ASSUME NEW c \in Clients, HandshakeFails(c) PROVE ConnInv'
  BY <1>4 DEF HandshakeFails, AttemptFailed, isRetryableDialError
<1>5. ASSUME NEW c \in Clients, Backoff(c) PROVE ConnInv'
  BY <1>5 DEF Backoff
<1>6. ASSUME NEW c \in Clients, \/ StartRun(c) \/ SessionOpens(c) \/ NoSession(c)
                               \/ SelectDone(c) \/ SelectCancelled(c)
      PROVE  ConnInv'
  BY <1>6 DEF StartRun, SessionOpens, NoSession, SelectDone, SelectCancelled, Answer
<1>7. ASSUME NEW c \in Clients, Close(c) PROVE ConnInv'
  BY <1>7 DEF Close
<1>8. ASSUME NEW c \in Clients, LinkLost(c) \/ Cancel(c) PROVE ConnInv'
  BY <1>8 DEF LinkLost, Cancel
<1>9. ASSUME NEW k \in Calls, Goroutine(k) \/ HostStep(k) PROVE ConnInv'
  BY <1>9 DEF Goroutine, Send, Receive, Deliver, HostStep
<1>10. CASE UNCHANGED vars
  BY <1>10 DEF vars
<1> HIDE DEF ConnInv
<1>11. QED
  BY <1>1, <1>2, <1>3, <1>4, <1>5, <1>6, <1>7, <1>8, <1>9, <1>10
     DEF Next, Caller, NoticeLoss

(* It holds in every reachable state.                                      *)
LEMMA ConnInvariant == Spec => []ConnInv
<1>1. Init => ConnInv
  BY SshAssumption DEF Init, ConnInv, ConnTyped, Connecting
<1>2. QED
  BY <1>1, ConnStep, PTL DEF Spec

(* Whatever fails, a client that has returned holds no connection (Connect *)
(* and Close).                                                             *)
THEOREM NothingIsLeftOpen == Spec => []NothingLeftOpen
<1>1. ConnInv => NothingLeftOpen
  BY DEF ConnInv, Connecting, NothingLeftOpen
<1>2. QED
  BY <1>1, ConnInvariant, PTL

(* A host that does not let the client in is asked once, however many      *)
(* attempts the time allows (Connect, isRetryableDialError).               *)
THEOREM RejectionIsFinal == Spec => []RejectedOnce
<1>1. ConnInv => RejectedOnce
  BY DEF ConnInv, Connecting, RejectedOnce
<1>2. QED
  BY <1>1, ConnInvariant, PTL

-----------------------------------------------------------------------------
(* The calls. *)

CallsTyped ==
  /\ n \in [Clients -> 0 .. MaxRuns]
  /\ worker \in [Calls -> {"none", "send", "wait"} \cup Ends \cup {"error"}]
  /\ done \in [Calls -> {"empty", "error"} \cup Ends]
  /\ session \in [Calls -> BOOLEAN]
  /\ ran \in [Calls -> {"no", "sent", "running"} \cup Ends]
  /\ answer \in [Calls -> {"unasked", "asked", "error"} \cup Ends]

(* What is on its way from the host to the caller is what the host did. *)
Conveyed ==
  \A k \in Calls :
    /\ worker[k] = "send" => ran[k] = "no"
    /\ worker[k] \in Ends => ran[k] = worker[k]
    /\ done[k] \in Ends => ran[k] = done[k]
    /\ answer[k] \in Ends => ran[k] = answer[k]
    /\ answer[k] = "unasked" => worker[k] = "none" /\ ran[k] = "no"

(* Calls are made one after the other, and nothing is sent before there is *)
(* a session.                                                              *)
InTurn ==
  \A c \in Clients :
    /\ \A r \in Runs : r > n[c] => answer[<<c, r>>] = "unasked"
    /\ pc[c] \in {"opening", "select"} => n[c] # 0 /\ answer[Current(c)] = "asked"
    /\ pc[c] = "opening" => worker[Current(c)] = "none" /\ ran[Current(c)] = "no"

CallInv == CallsTyped /\ Conveyed /\ InTurn

(* The call that a client waits for is one of the calls.                   *)
LEMMA CurrentIsCall ==
  ASSUME CallInv, NEW c \in Clients, pc[c] \in {"opening", "select"}
  PROVE  Current(c) \in Calls
BY SshAssumption DEF CallInv, CallsTyped, InTurn, Current, Calls, Runs

(* Steps that touch neither calls nor the callers that wait for one. *)
LEMMA ConnKeepsCalls ==
  ASSUME CallInv, UNCHANGED calls,
         \A c \in Clients : pc'[c] \in {"opening", "select"} => pc'[c] = pc[c]
  PROVE  CallInv'
BY DEF CallInv, CallsTyped, Conveyed, InTurn, Current, calls

(* Nothing was done for a Run that begins.                                 *)
LEMMA StartRunKeeps ==
  ASSUME ConnTyped, CallInv, NEW c \in Clients, StartRun(c)
  PROVE  CallInv'
<1> USE SshAssumption DEF CallInv
<1> DEFINE k == <<c, n[c] + 1>>
<1>1. k \in Calls /\ n[c] + 1 \in Runs /\ n[c] \in 0 .. MaxRuns
  BY DEF StartRun, CallsTyped, Calls, Runs
<1>2. answer[k] = "unasked" /\ worker[k] = "none" /\ ran[k] = "no"
  BY <1>1 DEF InTurn, Conveyed
<1>3. /\ n' = [n EXCEPT ![c] = n[c] + 1]
      /\ UNCHANGED <<worker, done, session, ran>>
      /\ answer' = [answer EXCEPT ![k] = "asked"]
      /\ pc' = [pc EXCEPT ![c] = "opening"]
  BY DEF StartRun, Goto
<1> HIDE DEF k
<1>4. CallsTyped'
  <2>1. n' \in [Clients -> 0 .. MaxRuns]
    BY <1>1, <1>3 DEF CallsTyped, Runs
  <2>2. QED
    BY <1>1, <1>3, <2>1 DEF CallsTyped
<1>5. Conveyed'
  BY <1>1, <1>2, <1>3 DEF Conveyed, CallsTyped, Ends
<1>6. ASSUME NEW d \in Clients
      PROVE  /\ \A r \in Runs : r > n'[d] => answer'[<<d, r>>] = "unasked"
             /\ pc'[d] \in {"opening", "select"} =>
                  n'[d] # 0 /\ answer'[<<d, n'[d]>>] = "asked"
             /\ pc'[d] = "opening" =>
                  worker'[<<d, n'[d]>>] = "none" /\ ran'[<<d, n'[d]>>] = "no"
  <2>1. CASE d = c
    <3>1. n'[d] = n[d] + 1 /\ n[d] \in Nat
      BY <1>1, <1>3, <2>1 DEF CallsTyped
    <3>2. \A r \in Runs : r > n[d] + 1 => answer'[<<d, r>>] = answer[<<d, r>>]
      BY <1>3, <2>1 DEF CallsTyped, Calls, k
    <3>3. k = <<d, n'[d]>>
      BY <2>1, <3>1 DEF k
    <3>4. answer'[k] = "asked" /\ worker'[k] = "none" /\ ran'[k] = "no"
      BY <1>1, <1>2, <1>3 DEF CallsTyped
    <3>5. \A r \in Runs : r > n[d] + 1 => answer[<<d, r>>] = "unasked"
      BY <3>1 DEF InTurn, Runs
    <3>6. QED
      BY <3>1, <3>2, <3>3, <3>4, <3>5
  <2>2. CASE d # c
    <3>1. n'[d] = n[d] /\ pc'[d] = pc[d]
      BY <1>3, <2>2 DEF CallsTyped, ConnTyped
    <3>2. \A r \in Runs : answer'[<<d, r>>] = answer[<<d, r>>]
      BY <1>3, <2>2 DEF CallsTyped, Calls, k
    <3>3. pc[d] \in {"opening", "select"} => n[d] \in Runs
      BY DEF InTurn, CallsTyped, Runs
    <3>4. QED
      BY <1>3, <3>1, <3>2, <3>3 DEF InTurn, Current
  <2>3. QED
    BY <2>1, <2>2
<1>7. QED
  BY <1>4, <1>5, <1>6 DEF InTurn, Current

(* The command can be sent now, and was not before.                        *)
LEMMA SessionOpensKeeps ==
  ASSUME ConnTyped, CallInv, NEW c \in Clients, SessionOpens(c)
  PROVE  CallInv'
<1> USE DEF CallInv
<1> DEFINE k == Current(c)
<1>1. k \in Calls /\ answer[k] = "asked" /\ ran[k] = "no"
  BY CurrentIsCall DEF SessionOpens, InTurn
<1>2. /\ UNCHANGED <<n, done, ran, answer>>
      /\ worker' = [worker EXCEPT ![k] = "send"]
      /\ session' = [session EXCEPT ![k] = TRUE]
      /\ pc' = [pc EXCEPT ![c] = "select"]
      /\ pc[c] = "opening"
  BY DEF SessionOpens, Goto
<1>3. ASSUME NEW d \in Clients, pc'[d] = "opening"
      PROVE  pc[d] = "opening" /\ Current(d) \in Calls /\ Current(d) # k
  <2>1. pc[d] = "opening" /\ d # c
    BY <1>2, <1>3 DEF ConnTyped
  <2>2. QED
    BY <2>1, CurrentIsCall DEF Current
<1>4. ASSUME NEW d \in Clients, pc'[d] = "select"
      PROVE  pc[d] \in {"opening", "select"}
  BY <1>2, <1>4 DEF ConnTyped
<1> HIDE DEF k
<1>5. CallsTyped'
  BY <1>1, <1>2 DEF CallsTyped
<1>6. Conveyed'
  BY <1>1, <1>2 DEF Conveyed, CallsTyped, Ends
<1>7. InTurn'
  BY <1>2, <1>3, <1>4 DEF InTurn, CallsTyped, Current
<1>8. QED
  BY <1>5, <1>6, <1>7

(* Run returns: its call has an answer, and the client waits no more.      *)
LEMMA AnswerKeeps ==
  ASSUME ConnTyped, CallInv, NEW c \in Clients, pc[c] \in {"opening", "select"},
         NEW r \in {"error"} \cup Ends, r \in Ends => ran[Current(c)] = r,
         answer' = [answer EXCEPT ![Current(c)] = r],
         pc' = [pc EXCEPT ![c] = "connected"], UNCHANGED <<n, worker, ran>>,
         session' = session \/ session' = [session EXCEPT ![Current(c)] = FALSE],
         done' = done \/ done' = [done EXCEPT ![Current(c)] = "empty"]
  PROVE  CallInv'
<1> USE DEF CallInv
<1> DEFINE k == Current(c)
<1>1. k \in Calls
  BY CurrentIsCall
<1>2. answer' = [answer EXCEPT ![k] = r] /\ answer[k] = "asked"
  BY DEF InTurn
<1> HIDE DEF k
<1>3. CallsTyped'
  BY <1>1, <1>2 DEF CallsTyped, k
<1>4. Conveyed'
  BY <1>1, <1>2 DEF Conveyed, CallsTyped, Ends, k
<1>5. ASSUME NEW d \in Clients
      PROVE  /\ \A i \in Runs : i > n[d] => answer'[<<d, i>>] = "unasked"
             /\ pc'[d] \in {"opening", "select"} =>
                  n[d] # 0 /\ answer'[<<d, n[d]>>] = "asked"
             /\ pc'[d] = "opening" =>
                  worker'[<<d, n[d]>>] = "none" /\ ran'[<<d, n[d]>>] = "no"
  <2>1. \A i \in Runs : i > n[d] => answer'[<<d, i>>] = answer[<<d, i>>]
    BY <1>1, <1>2 DEF CallsTyped, Calls, Current, k, Runs
  <2>2. pc'[d] \in {"opening", "select"} =>
          /\ d # c /\ pc[d] = pc'[d] /\ n[d] \in Runs
          /\ answer'[<<d, n[d]>>] = answer[<<d, n[d]>>]
    BY <1>1, <1>2 DEF CallsTyped, ConnTyped, Calls, Current, k, Runs, InTurn
  <2>3. QED
    BY <2>1, <2>2 DEF InTurn, Current
<1>6. QED
  BY <1>3, <1>4, <1>5 DEF InTurn, Current

(* The goroutine, the connection and the host.                             *)
LEMMA GoroutineKeeps ==
  ASSUME CallInv, NEW k \in Calls, Goroutine(k) \/ HostStep(k)
  PROVE  CallInv'
<1>1. CallsTyped'
  BY DEF CallInv, CallsTyped, Goroutine, Send, Receive, Deliver, HostStep, Ends
<1>2. Conveyed'
  BY DEF CallInv, CallsTyped, Conveyed, Goroutine, Send, Receive, Deliver,
         HostStep, Ends
<1>3. InTurn'
  <2>1. UNCHANGED <<pc, n, answer>>
    BY DEF Goroutine, Send, Receive, Deliver, HostStep
  <2>2. ASSUME NEW c \in Clients, pc[c] = "opening"
        PROVE  worker'[Current(c)] = "none" /\ ran'[Current(c)] = "no"
    <3>1. worker[Current(c)] = "none" /\ ran[Current(c)] = "no" /\ Current(c) \in Calls
      BY <2>2, CurrentIsCall DEF CallInv, InTurn
    <3>2. Current(c) # k
      BY <3>1 DEF Goroutine, Send, Receive, Deliver, HostStep, Ends
    <3>3. QED
      BY <3>1, <3>2 DEF Goroutine, Send, Receive, Deliver, HostStep, CallInv, CallsTyped
  <2>3. QED
    BY <2>1, <2>2 DEF CallInv, InTurn, Current
<1>4. QED
  BY <1>1, <1>2, <1>3 DEF CallInv

(* Every step keeps what is known of the calls.                            *)
LEMMA CallStep == ConnInv /\ CallInv /\ [Next]_vars => CallInv'
<1> SUFFICES ASSUME ConnTyped, CallInv, [Next]_vars PROVE CallInv'
  BY DEF ConnInv
<1>1. ASSUME NEW c \in Clients,
             \/ New(c) \/ Dial(c) \/ Handshake(c) \/ HandshakeFails(c)
             \/ Backoff(c) \/ Close(c) \/ LinkLost(c) \/ Cancel(c)
      PROVE  CallInv'
  <2>1. UNCHANGED calls
    BY <1>1 DEF New, Dial, Handshake, HandshakeFails, Backoff, Close, LinkLost,
                Cancel
  <2>2. \A d \in Clients : pc'[d] \in {"opening", "select"} => pc'[d] = pc[d]
    BY <1>1 DEF New, ConfigLeadsTo, Dial, Handshake, HandshakeFails, Backoff,
                Close, LinkLost, Cancel, AttemptFailed, Goto, ConnTyped
  <2>3. QED
    BY <2>1, <2>2, ConnKeepsCalls
<1>2. ASSUME NEW c \in Clients, SelectDone(c)
      PROVE  CallInv'
  <2>1. pc[c] = "select" /\ Current(c) \in Calls
    BY <1>2, CurrentIsCall DEF SelectDone
  <2>2. /\ done[Current(c)] \in {"error"} \cup Ends
        /\ done[Current(c)] \in Ends => ran[Current(c)] = done[Current(c)]
    BY <1>2, <2>1 DEF SelectDone, CallInv, CallsTyped, Conveyed
  <2>3. QED
    BY <1>2, <2>1, <2>2, AnswerKeeps DEF SelectDone, Answer, Goto
<1>3. ASSUME NEW c \in Clients, SelectCancelled(c) \/ NoSession(c)
      PROVE  CallInv'
  BY <1>3, AnswerKeeps DEF SelectCancelled, NoSession, Answer, Goto, Ends
<1>4. CASE UNCHANGED vars
  BY <1>4, ConnKeepsCalls DEF vars
<1>5. QED
  BY <1>1, <1>2, <1>3, <1>4, StartRunKeeps, SessionOpensKeeps, GoroutineKeeps
     DEF Next, Caller, NoticeLoss

(* It holds in every reachable state.                                      *)
LEMMA CallInvariant == Spec => []CallInv
<1>1. Init => CallInv
  BY SshAssumption DEF Init, CallInv, CallsTyped, Conveyed, InTurn, Calls, Runs, Ends
<1>2. QED
  BY <1>1, CallStep, ConnInvariant, PTL DEF Spec

(* The variables keep their types: no attempt is made when the time is     *)
(* used up, no connection opened beside another, no command run that       *)
(* nobody waits for (client.go).                                           *)
THEOREM TypeCorrect == Spec => []TypeOK
<1>1. ConnInv /\ CallInv => TypeOK
  BY DEF ConnInv, CallInv, ConnTyped, CallsTyped, TypeOK
<1>2. QED
  BY <1>1, ConnInvariant, CallInvariant, PTL

-----------------------------------------------------------------------------
(* SshSession implements RemoteCall. *)

(* What the host has done, as RemoteCall sees it. *)
Seen == [k \in Calls |-> IF ran[k] = "sent" THEN "no" ELSE ran[k]]

(* A caller's answer is one of RemoteCall's. *)
LEMMA AnswerMaps ==
  ASSUME CallInv, NEW c \in Clients, pc[c] \in {"opening", "select"},
         NEW r \in {"error"} \cup Ends, r \in Ends => ran[Current(c)] = r,
         answer' = [answer EXCEPT ![Current(c)] = r], ran' = ran
  PROVE  Promise!Next
<1> DEFINE k == Current(c)
<1>1. k \in Calls /\ answer[k] = "asked"
  BY CurrentIsCall DEF CallInv, InTurn
<1>2. answer' = [answer EXCEPT ![k] = r] /\ Seen' = Seen
  BY DEF Seen
<1> HIDE DEF k
<1>3. CASE r = "error"
  <2>1. Promise!GiveUp(k)
    BY <1>1, <1>2, <1>3 DEF Promise!GiveUp, Seen
  <2>2. QED
    BY <1>1, <2>1 DEF Promise!Next
<1>4. CASE r \in Ends
  <2>1. Seen[k] = r
    BY <1>1, <1>4 DEF Seen, Ends, k
  <2>2. Promise!Report(k)
    BY <1>1, <1>2, <1>4, <2>1 DEF Promise!Report, Seen, Ends
  <2>3. QED
    BY <1>1, <2>2 DEF Promise!Next
<1>5. QED
  BY <1>3, <1>4

(* Starting a Run asks.                                                    *)
LEMMA StartMaps ==
  ASSUME CallInv, NEW c \in Clients, StartRun(c)
  PROVE  Promise!Next
<1> DEFINE k == <<c, n[c] + 1>>
<1>1. k \in Calls /\ n[c] + 1 \in Runs /\ n[c] \in 0 .. MaxRuns
  BY SshAssumption DEF StartRun, CallInv, CallsTyped, Calls, Runs
<1>2. answer[k] = "unasked"
  BY <1>1 DEF CallInv, InTurn
<1>3. answer' = [answer EXCEPT ![k] = "asked"] /\ Seen' = Seen
  BY DEF StartRun, Seen
<1> HIDE DEF k
<1>4. Promise!Ask(k)
  BY <1>1, <1>2, <1>3 DEF Promise!Ask, Seen
<1>5. QED
  BY <1>1, <1>4 DEF Promise!Next

(* The host runs or finishes a command: RemoteCall's own step, or a        *)
(* stutter.                                                                *)
LEMMA HostMaps ==
  ASSUME CallInv, NEW k \in Calls, HostStep(k)
  PROVE  Promise!Next
<1>1. answer' = answer /\ ran \in [Calls -> {"no", "sent", "running"} \cup Ends]
  BY DEF HostStep, CallInv, CallsTyped
<1>2. CASE ran[k] = "sent" /\ ran' = [ran EXCEPT ![k] = "running"]
  <2>1. Seen[k] = "no" /\ Seen' = [Seen EXCEPT ![k] = "running"]
    BY <1>1, <1>2 DEF Seen
  <2>2. answer[k] \in {"asked", "error"}
    BY <1>2 DEF CallInv, CallsTyped, Conveyed, Ends
  <2>3. Promise!Begin(k)
    BY <1>1, <2>1, <2>2 DEF Promise!Begin, Seen
  <2>4. QED
    BY <2>3 DEF Promise!Next
<1>3. ASSUME NEW r \in Ends, ran[k] = "running", ran' = [ran EXCEPT ![k] = r]
      PROVE  Promise!Next
  <2>1. Seen[k] = "running" /\ Seen' = [Seen EXCEPT ![k] = r]
    BY <1>1, <1>3 DEF Seen, Ends
  <2>2. Promise!End(k)
    BY <1>1, <1>3, <2>1 DEF Promise!End, Seen, Ends
  <2>3. QED
    BY <2>2 DEF Promise!Next
<1>4. QED
  BY <1>2, <1>3 DEF HostStep

(* Run is a remote call as its callers understand it: the command runs at  *)
(* most once, and any answer but an error is the host's, whatever is lost, *)
(* cancelled or late (client.go, Run).                                     *)
THEOREM RunKeepsPromise == Spec => KeepsPromise
<1>1. Init => Promise!Init
  BY DEF Init, Promise!Init
<1>2. CallInv /\ [Next]_vars => [Promise!Next]_Promise!vars
  <2> SUFFICES ASSUME CallInv, [Next]_vars PROVE Promise!Next \/ UNCHANGED Promise!vars
    OBVIOUS
  <2>1. ASSUME answer' = answer, Seen' = Seen
        PROVE  UNCHANGED Promise!vars
    BY <2>1 DEF Promise!vars, Seen
  <2>2. ASSUME UNCHANGED calls
        PROVE  UNCHANGED Promise!vars
    BY <2>1, <2>2 DEF calls, Seen
  <2>3. ASSUME NEW c \in Clients,
               \/ New(c) \/ Dial(c) \/ Handshake(c) \/ HandshakeFails(c)
               \/ Backoff(c) \/ Close(c) \/ LinkLost(c) \/ Cancel(c)
        PROVE  UNCHANGED Promise!vars
    BY <2>2, <2>3 DEF New, Dial, Handshake, HandshakeFails, Backoff, Close,
                      LinkLost, Cancel
  <2>4. ASSUME NEW c \in Clients, SelectDone(c)
        PROVE  Promise!Next
    <3>1. pc[c] = "select" /\ Current(c) \in Calls
      BY <2>4, CurrentIsCall DEF SelectDone
    <3>2. /\ done[Current(c)] \in {"error"} \cup Ends
          /\ done[Current(c)] \in Ends => ran[Current(c)] = done[Current(c)]
      BY <2>4, <3>1 DEF SelectDone, CallInv, CallsTyped, Conveyed
    <3>3. QED
      BY <2>4, <3>1, <3>2, AnswerMaps DEF SelectDone, Answer
  <2>5. ASSUME NEW c \in Clients, SelectCancelled(c) \/ NoSession(c)
        PROVE  Promise!Next
    BY <2>5, AnswerMaps DEF SelectCancelled, NoSession, Answer, Ends
  <2>9. ASSUME NEW c \in Clients, SessionOpens(c)
        PROVE  UNCHANGED Promise!vars
    BY <2>1, <2>9 DEF SessionOpens, Seen
  <2>6. ASSUME NEW k \in Calls, Goroutine(k)
        PROVE  UNCHANGED Promise!vars
    <3>1. answer' = answer
      BY <2>6 DEF Goroutine, Send, Receive, Deliver
    <3>2. Seen' = Seen
      BY <2>6 DEF Goroutine, Send, Receive, Deliver, Seen, CallInv, CallsTyped,
                  Conveyed
    <3>3. QED
      BY <2>1, <3>1, <3>2
  <2>7. CASE UNCHANGED vars
    BY <2>2, <2>7 DEF vars
  <2>8. QED
    BY <2>3, <2>4, <2>5, <2>6, <2>7, <2>9, StartMaps, HostMaps
       DEF Next, Caller, NoticeLoss
<1>3. QED
  BY <1>1, <1>2, CallInvariant, PTL DEF Spec, KeepsPromise, Promise!Spec

-----------------------------------------------------------------------------
(* What ReturnsAtLast and GoroutinesEnd rest on besides fairness. *)

(* A Run that waits in the select is woken by what is in the channel or by *)
(* the goroutine, which has not ended (client.go:142).                     *)
SelectIsWoken ==
  \A c \in Clients :
    pc[c] = "select" => done[Current(c)] # "empty" \/ worker[Current(c)] # "none"

(* What a goroutine waits for comes when its client has returned: the end  *)
(* of its session, and room in the channel that nobody reads any more      *)
(* (client.go:133 and the deferred Close of the session).                  *)
GoroutineCanEnd ==
  \A k \in Calls :
    pc[k[1]] = "returned" /\ worker[k] # "none" => ~session[k] /\ done[k] = "empty"

(* A channel is written once, and only the call that a client is in has a  *)
(* session.                                                                *)
Channels ==
  \A k \in Calls :
    /\ worker[k] # "none" => done[k] = "empty"
    /\ answer[k] = "unasked" => done[k] = "empty"
    /\ pc[k[1]] = "opening" /\ n[k[1]] = k[2] => done[k] = "empty"
    /\ session[k] => pc[k[1]] = "select" /\ n[k[1]] = k[2]

Wakeable == Channels /\ SelectIsWoken

(* Steps outside Run. *)
LEMMA OutsideRun ==
  ASSUME Wakeable, UNCHANGED calls,
         \A c \in Clients : /\ (pc'[c] = "select") <=> (pc[c] = "select")
                            /\ pc'[c] = "opening" => pc[c] = "opening"
  PROVE  Wakeable'
<1>1. \A k \in Calls : k[1] \in Clients
  BY DEF Calls
<1>2. QED
  BY <1>1 DEF Wakeable, Channels, SelectIsWoken, Current, calls

LEMMA StartRunWakeable ==
  ASSUME ConnInv, CallInv, Wakeable, NEW c \in Clients, StartRun(c)
  PROVE  Wakeable'
<1> USE SshAssumption
<1> DEFINE k == <<c, n[c] + 1>>
<1>1. k \in Calls /\ k[1] = c /\ k[2] = n[c] + 1 /\ n[c] \in Nat
  BY DEF StartRun, CallInv, CallsTyped, Calls, Runs
<1>2. done[k] = "empty"
  BY <1>1 DEF CallInv, InTurn, Wakeable, Channels, Calls
<1>3. /\ n' = [n EXCEPT ![c] = n[c] + 1]
      /\ UNCHANGED <<worker, done, session, ran>>
      /\ answer' = [answer EXCEPT ![k] = "asked"]
      /\ pc' = [pc EXCEPT ![c] = "opening"]
      /\ pc[c] = "connected"
  BY DEF StartRun, Goto
<1>4. /\ pc'[c] = "opening" /\ n'[c] = n[c] + 1
      /\ \A d \in Clients \ {c} : n'[d] = n[d] /\ pc'[d] = pc[d]
      /\ \A g \in Calls \ {k} : answer'[g] = answer[g]
  BY <1>1, <1>3 DEF CallInv, CallsTyped, ConnInv, ConnTyped
<1>5. ASSUME NEW g \in Calls
      PROVE  /\ worker'[g] # "none" => done'[g] = "empty"
             /\ answer'[g] = "unasked" => done'[g] = "empty"
             /\ pc'[g[1]] = "opening" /\ n'[g[1]] = g[2] => done'[g] = "empty"
             /\ session'[g] => pc'[g[1]] = "select" /\ n'[g[1]] = g[2]
  <2>1. g[1] \in Clients /\ g = <<g[1], g[2]>>
    BY DEF Calls
  <2>2. CASE g = k
    BY <1>1, <1>2, <1>3, <2>2 DEF Wakeable, Channels
  <2>3. CASE g # k /\ g[1] = c
    <3>1. n'[g[1]] # g[2]
      BY <1>4, <2>1, <2>3
    <3>2. ~session[g]
      BY <1>3, <2>3 DEF Wakeable, Channels
    <3>3. QED
      BY <1>3, <1>4, <2>3, <3>1, <3>2 DEF Wakeable, Channels
  <2>4. CASE g # k /\ g[1] # c
    BY <1>3, <1>4, <2>1, <2>4 DEF Wakeable, Channels
  <2>5. QED
    BY <2>2, <2>3, <2>4
<1>6. ASSUME NEW d \in Clients, pc'[d] = "select"
      PROVE  done'[<<d, n'[d]>>] # "empty" \/ worker'[<<d, n'[d]>>] # "none"
  <2>1. d # c
    BY <1>4, <1>6
  <2>2. pc[d] = "select" /\ Current(d) = <<d, n'[d]>>
    BY <1>4, <1>6, <2>1 DEF Current
  <2>3. QED
    BY <1>3, <2>2 DEF Wakeable, SelectIsWoken
<1>7. QED
  BY <1>5, <1>6 DEF Wakeable, Channels, SelectIsWoken, Current

LEMMA SessionOpensWakeable ==
  ASSUME ConnInv, CallInv, Wakeable, NEW c \in Clients, SessionOpens(c)
  PROVE  Wakeable'
<1> DEFINE k == Current(c)
<1>1. k \in Calls /\ k[1] = c /\ k[2] = n[c] /\ pc[c] = "opening"
  BY CurrentIsCall DEF SessionOpens, Current
<1>2. done[k] = "empty"
  BY <1>1 DEF Wakeable, Channels
<1>3. /\ UNCHANGED <<n, done, ran, answer>>
      /\ pc'[c] = "select" /\ \A d \in Clients \ {c} : pc'[d] = pc[d]
      /\ worker'[k] = "send" /\ \A g \in Calls \ {k} : worker'[g] = worker[g]
      /\ \A g \in Calls \ {k} : session'[g] = session[g]
  BY <1>1 DEF SessionOpens, Goto, ConnInv, ConnTyped, CallInv, CallsTyped
<1>4. ASSUME NEW g \in Calls
      PROVE  /\ worker'[g] # "none" => done'[g] = "empty"
             /\ answer'[g] = "unasked" => done'[g] = "empty"
             /\ pc'[g[1]] = "opening" /\ n'[g[1]] = g[2] => done'[g] = "empty"
             /\ session'[g] => pc'[g[1]] = "select" /\ n'[g[1]] = g[2]
  <2>1. g[1] \in Clients
    BY DEF Calls
  <2>2. CASE g = k
    BY <1>1, <1>2, <1>3, <2>2
  <2>3. CASE g # k
    BY <1>1, <1>3, <2>1, <2>3 DEF Wakeable, Channels
  <2>4. QED
    BY <2>2, <2>3
<1>5. ASSUME NEW d \in Clients, pc'[d] = "select"
      PROVE  done'[<<d, n'[d]>>] # "empty" \/ worker'[<<d, n'[d]>>] # "none"
  <2>1. CASE d = c
    BY <1>3, <2>1 DEF Current
  <2>2. CASE d # c
    <3>1. pc[d] = "select" /\ Current(d) \in Calls /\ Current(d) # k
      BY <1>3, <1>5, <2>2, CurrentIsCall DEF Current
    <3>2. QED
      BY <1>3, <3>1 DEF Wakeable, SelectIsWoken, Current
  <2>3. QED
    BY <2>1, <2>2
<1>6. QED
  BY <1>4, <1>5 DEF Wakeable, Channels, SelectIsWoken, Current

LEMMA AnswerWakeable ==
  ASSUME ConnInv, CallInv, Wakeable, NEW c \in Clients,
         pc[c] \in {"opening", "select"}, NEW r, r # "unasked",
         answer' = [answer EXCEPT ![Current(c)] = r],
         pc' = [pc EXCEPT ![c] = "connected"], UNCHANGED <<n, worker, ran>>,
         \/ session' = [session EXCEPT ![Current(c)] = FALSE]
         \/ session' = session /\ pc[c] = "opening",
         done' = done \/ done' = [done EXCEPT ![Current(c)] = "empty"]
  PROVE  Wakeable'
<1> DEFINE k == Current(c)
<1>1. k \in Calls /\ k[1] = c /\ k[2] = n[c]
  BY CurrentIsCall DEF Current
<1>2. /\ pc'[c] = "connected" /\ \A d \in Clients \ {c} : pc'[d] = pc[d]
      /\ \A g \in Calls \ {k} : session'[g] = session[g]
      /\ answer'[k] = r /\ \A g \in Calls \ {k} : answer'[g] = answer[g]
      /\ \A g \in Calls \ {k} : done'[g] = done[g]
      /\ done'[k] = "empty" \/ done' = done
      /\ n' = n /\ worker' = worker
  BY <1>1 DEF ConnInv, ConnTyped, CallInv, CallsTyped
<1>6. ~session'[k]
  BY <1>1 DEF CallInv, CallsTyped, Wakeable, Channels
<1>3. \A g \in Calls \ {k} : g[1] = c => ~session[g]
  <2> SUFFICES ASSUME NEW g \in Calls, session[g], g[1] = c PROVE g = k
    OBVIOUS
  <2>1. n[c] = g[2] /\ g = <<g[1], g[2]>>
    BY DEF Wakeable, Channels, Calls
  <2>2. QED
    BY <2>1 DEF Current
<1>4. ASSUME NEW g \in Calls
      PROVE  /\ worker'[g] # "none" => done'[g] = "empty"
             /\ answer'[g] = "unasked" => done'[g] = "empty"
             /\ pc'[g[1]] = "opening" /\ n'[g[1]] = g[2] => done'[g] = "empty"
             /\ session'[g] => pc'[g[1]] = "select" /\ n'[g[1]] = g[2]
  <2>1. g[1] \in Clients
    BY DEF Calls
  <2>2. CASE g = k
    BY <1>1, <1>2, <1>6, <2>2 DEF Wakeable, Channels
  <2>3. CASE g # k
    BY <1>2, <1>3, <2>1, <2>3 DEF Wakeable, Channels
  <2>4. QED
    BY <2>2, <2>3
<1>5. ASSUME NEW d \in Clients, pc'[d] = "select"
      PROVE  done'[<<d, n'[d]>>] # "empty" \/ worker'[<<d, n'[d]>>] # "none"
  <2>1. d # c /\ pc[d] = "select"
    BY <1>2, <1>5
  <2>2. Current(d) \in Calls /\ Current(d) # k /\ Current(d) = <<d, n'[d]>>
    BY <1>2, <2>1, CurrentIsCall DEF Current
  <2>3. QED
    BY <1>2, <2>1, <2>2 DEF Wakeable, SelectIsWoken
<1>7. QED
  BY <1>4, <1>5 DEF Wakeable, Channels, SelectIsWoken, Current

LEMMA GoroutineWakeable ==
  ASSUME CallInv, Wakeable, NEW k \in Calls, Goroutine(k) \/ HostStep(k)
  PROVE  Wakeable'
<1>1. /\ UNCHANGED <<pc, n, session, answer>>
      /\ \A g \in Calls \ {k} : worker'[g] = worker[g] /\ done'[g] = done[g]
      /\ \/ worker'[k] = worker[k] /\ done'[k] = done[k]
         \/ worker[k] # "none" /\ worker'[k] # "none" /\ done'[k] = done[k]
         \/ worker[k] # "none" /\ worker'[k] = "none" /\ done'[k] # "empty"
  BY DEF Goroutine, Send, Receive, Deliver, HostStep, CallInv, CallsTyped, Ends
<1>2. worker[k] # "none" => answer[k] # "unasked"
  BY DEF CallInv, Conveyed
<1>6. pc[k[1]] = "opening" /\ n[k[1]] = k[2] => worker[k] = "none"
  BY DEF CallInv, InTurn, Current, Calls
<1>3. Channels'
  BY <1>1, <1>2, <1>6 DEF Wakeable, Channels
<1>4. ASSUME NEW d \in Clients, pc[d] = "select"
      PROVE  done'[<<d, n[d]>>] # "empty" \/ worker'[<<d, n[d]>>] # "none"
  <2>1. Current(d) \in Calls /\ Current(d) = <<d, n[d]>>
    BY <1>4, CurrentIsCall DEF Current
  <2>2. QED
    BY <1>1, <1>4, <2>1 DEF Wakeable, SelectIsWoken
<1>7. QED
  BY <1>1, <1>3, <1>4 DEF Wakeable, SelectIsWoken, Current

LEMMA WakeableInvariant == Spec => [](ConnInv /\ CallInv /\ Wakeable)
<1>1. Init => Wakeable
  BY DEF Init, Wakeable, Channels, SelectIsWoken
<1>2. ConnInv /\ CallInv /\ Wakeable /\ [Next]_vars => Wakeable'
  <2> SUFFICES ASSUME ConnInv, CallInv, Wakeable, [Next]_vars PROVE Wakeable'
    OBVIOUS
  <2>1. ASSUME NEW c \in Clients,
               \/ New(c) \/ Dial(c) \/ Handshake(c) \/ HandshakeFails(c)
               \/ Backoff(c) \/ Close(c) \/ LinkLost(c) \/ Cancel(c)
        PROVE  Wakeable'
    <3>1. UNCHANGED calls
      BY <2>1 DEF New, Dial, Handshake, HandshakeFails, Backoff, Close, LinkLost,
                  Cancel
    <3>2. \A d \in Clients : /\ (pc'[d] = "select") <=> (pc[d] = "select")
                             /\ pc'[d] = "opening" => pc[d] = "opening"
      BY <2>1 DEF New, ConfigLeadsTo, Dial, Handshake, HandshakeFails, Backoff,
                  Close, LinkLost, Cancel, AttemptFailed, Goto, ConnInv, ConnTyped
    <3>3. QED
      BY <3>1, <3>2, OutsideRun
  <2>2. ASSUME NEW c \in Clients, SelectDone(c) PROVE Wakeable'
    <3>1. pc[c] = "select" /\ Current(c) \in Calls
      BY <2>2, CurrentIsCall DEF SelectDone
    <3>2. done[Current(c)] # "unasked"
      BY <3>1 DEF CallInv, CallsTyped, Ends
    <3>3. QED
      BY <2>2, <3>1, <3>2, AnswerWakeable DEF SelectDone, Answer, Goto
  <2>3. ASSUME NEW c \in Clients, SelectCancelled(c) \/ NoSession(c) PROVE Wakeable'
    BY <2>3, AnswerWakeable DEF SelectCancelled, NoSession, Answer, Goto
  <2>4. CASE UNCHANGED vars
    BY <2>4, OutsideRun DEF vars
  <2>5. QED
    BY <2>1, <2>2, <2>3, <2>4, StartRunWakeable, SessionOpensWakeable,
       GoroutineWakeable DEF Next, Caller, NoticeLoss
<1>3. QED
  BY <1>1, <1>2, ConnInvariant, CallInvariant, PTL DEF Spec

(* Run never waits for a message that nobody is left to send, whatever     *)
(* happens to the connection and the session.                              *)
THEOREM SelectsAreWoken == Spec => []SelectIsWoken
<1>1. Wakeable => SelectIsWoken
  BY DEF Wakeable
<1>2. QED
  BY <1>1, WakeableInvariant, PTL

(* No goroutine is held up behind a client that has returned, however Run  *)
(* was left: it finds its session closed and its channel empty.            *)
THEOREM GoroutinesCanEnd == Spec => []GoroutineCanEnd
<1>1. Wakeable => GoroutineCanEnd
  BY DEF Wakeable, Channels, GoroutineCanEnd
<1>2. QED
  BY <1>1, WakeableInvariant, PTL

=============================================================================
