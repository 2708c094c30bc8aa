----------------------------- MODULE SshSession -----------------------------
(***************************************************************************)
(* The SSH client: New, Connect with its retries, Run with its goroutine,  *)
(* Close.  A client is used once, as in provisioner.withNode and in        *)
(* `bifrost node remove`: connect, run some commands one after the other,  *)
(* close.  Go's network stack, the ssh package and the host are external.  *)
(*                                                                         *)
(* An error of dialling or of the handshake is the set of what its text    *)
(* and type say about it: "auth", that the host does not let us in;        *)
(* "transient", that trying again may help.                                *)
(***************************************************************************)
EXTENDS Naturals

CONSTANTS
  Clients,   \* one per use of a connection
  MaxTries,  \* bound: attempts that fit into maxRetries (2 minutes)
  MaxRuns    \* bound: commands run on one connection

ASSUME SshAssumption == MaxTries \in Nat \ {0} /\ MaxRuns \in Nat \ {0}

Runs   == 1 .. MaxRuns
Calls  == Clients \X Runs
Errors == SUBSET {"auth", "transient"}
Ends   == {"ok", "fail"}

VARIABLES
  pc,         \* where each client's caller is
  tries,      \* attempts to connect so far
  open,       \* TCP connections that the client holds
  link,       \* the SSH connection c.conn stands for
  cancelled,  \* ctx.Done() is closed
  denials,    \* how often the host has turned the client away
  n,          \* Runs started so far
  worker,     \* per call: Run's goroutine
  done,       \* per call: the channel of capacity 1 between them
  session,    \* per call: the session is open
  ran,        \* per call: what the host has done
  answer      \* per call: what Run has returned

conn  == <<tries, open, link, denials>>
calls == <<n, worker, done, session, ran, answer>>
vars  == <<pc, conn, cancelled, calls>>

(* A command on its way to the host has not begun. *)
Promise == INSTANCE RemoteCall WITH
  ran <- [k \in Calls |-> IF ran[k] = "sent" THEN "no" ELSE ran[k]]

TypeOK ==
  /\ pc \in [Clients -> {"new", "dial", "handshake", "backoff", "connected",
                         "opening", "select", "returned"}]
  /\ tries \in [Clients -> 0 .. MaxTries]
  /\ open \in [Clients -> 0 .. 1]
  /\ link \in [Clients -> {"none", "up", "lost"}]
  /\ cancelled \in [Clients -> BOOLEAN]
  /\ denials \in [Clients -> 0 .. MaxTries]
  /\ n \in [Clients -> 0 .. MaxRuns]
  /\ worker \in [Calls -> {"none", "send", "wait"} \cup Ends \cup {"error"}]
  /\ done \in [Calls -> {"empty", "error"} \cup Ends]
  /\ session \in [Calls -> BOOLEAN]
  /\ ran \in [Calls -> {"no", "sent", "running"} \cup Ends]
  /\ answer \in [Calls -> {"unasked", "asked", "error"} \cup Ends]

Init ==
  /\ pc = [c \in Clients |-> "new"]
  /\ tries = [c \in Clients |-> 0]
  /\ open = [c \in Clients |-> 0]
  /\ link = [c \in Clients |-> "none"]
  /\ cancelled = [c \in Clients |-> FALSE]
  /\ denials = [c \in Clients |-> 0]
  /\ n = [c \in Clients |-> 0]
  /\ worker = [k \in Calls |-> "none"]
  /\ done = [k \in Calls |-> "empty"]
  /\ session = [k \in Calls |-> FALSE]
  /\ ran = [k \in Calls |-> "no"]
  /\ answer = [k \in Calls |-> "unasked"]

Goto(c, label) == pc' = [pc EXCEPT ![c] = label]

(* The call that client c is in. *)
Current(c) == <<c, n[c]>>

-----------------------------------------------------------------------------
(* New and Connect. *)

(* What a configuration leads to: the caller gives up if a field is missing *)
(* or the private key cannot be read or parsed.                            *)
ConfigLeadsTo == {"dial", "returned"}

(* Nothing is opened yet. *)
New(c) ==
  /\ pc[c] = "new"
  /\ \E next \in ConfigLeadsTo : Goto(c, next)
  /\ UNCHANGED <<conn, cancelled, calls>>

(* Variant: every error that looks transient is retried. *)
isRetryableAny(e) == "transient" \in e

(* What the host says about authentication counts before anything else. *)
isRetryableDialError(e) == "auth" \notin e /\ "transient" \in e

(* Variant: no limit in time, which is what a limit of 0 means to backoff. *)
AttemptFailedForever(c, e) ==
  Goto(c, IF isRetryableDialError(e) THEN "backoff" ELSE "returned")

(* An attempt has ended with error e: backoff.Retry gives up on a permanent *)
(* one and when maxRetries is used up, and else waits.                      *)
AttemptFailed(c, e) ==
  Goto(c, IF isRetryableDialError(e) /\ tries'[c] < MaxTries
          THEN "backoff" ELSE "returned")

(* Variant: time spent in earlier attempts does not count. *)
DialForever(c) ==
  /\ pc[c] = "dial"
  /\ UNCHANGED tries
  /\ \/ ~cancelled[c] /\ open' = [open EXCEPT ![c] = @ + 1] /\ Goto(c, "handshake")
     \/ ~cancelled[c] /\ UNCHANGED open
          /\ \E e \in SUBSET {"transient"} : AttemptFailed(c, e)
     \/ cancelled[c] /\ Goto(c, "returned") /\ UNCHANGED open
  /\ UNCHANGED <<link, denials, cancelled, calls>>

(* One attempt: the check of the context, then the TCP connection, which   *)
(* has a timeout.                                                          *)
Dial(c) ==
  /\ pc[c] = "dial"
  /\ tries' = [tries EXCEPT ![c] = @ + 1]
  /\ \/ ~cancelled[c] /\ open' = [open EXCEPT ![c] = @ + 1] /\ Goto(c, "handshake")
     \/ ~cancelled[c] /\ UNCHANGED open
          /\ \E e \in SUBSET {"transient"} : AttemptFailed(c, e)
     \/ cancelled[c] /\ Goto(c, "returned") /\ UNCHANGED open
  /\ UNCHANGED <<link, denials, cancelled, calls>>

Handshake(c) ==
  /\ pc[c] = "handshake"
  /\ link' = [link EXCEPT ![c] = "up"]
  /\ Goto(c, "connected")
  /\ UNCHANGED <<tries, open, denials, cancelled, calls>>

(* The ssh package closes the TCP connection of a handshake that fails;    *)
(* Connect closes it again, which does nothing.                            *)
HandshakeFails(c) ==
  /\ pc[c] = "handshake"
  /\ open' = [open EXCEPT ![c] = @ - 1]
  /\ UNCHANGED tries
  /\ \E e \in Errors :
       /\ AttemptFailed(c, e)
       /\ denials' = [denials EXCEPT ![c] = IF "auth" \in e THEN @ + 1 ELSE @]
  /\ UNCHANGED <<link, cancelled, calls>>

(* The next attempt, or the context ends the wait for it. *)
Backoff(c) ==
  /\ pc[c] = "backoff"
  /\ \/ Goto(c, "dial")
     \/ cancelled[c] /\ Goto(c, "returned")
  /\ UNCHANGED <<conn, cancelled, calls>>

-----------------------------------------------------------------------------
(* Run: the caller. *)

(* The next command of the caller.  NewSession asks the host for a channel *)
(* and waits for the answer: Run does not look at ctx meanwhile.           *)
StartRun(c) ==
  /\ pc[c] = "connected" /\ n[c] < MaxRuns
  /\ n' = [n EXCEPT ![c] = @ + 1]
  /\ answer' = [answer EXCEPT ![<<c, n[c] + 1>>] = "asked"]
  /\ Goto(c, "opening")
  /\ UNCHANGED <<conn, cancelled, worker, done, session, ran>>

(* The host opens the channel; the goroutine that runs the command in it   *)
(* is started.                                                             *)
SessionOpens(c) ==
  /\ pc[c] = "opening" /\ link[c] = "up"
  /\ session' = [session EXCEPT ![Current(c)] = TRUE]
  /\ worker' = [worker EXCEPT ![Current(c)] = "send"]
  /\ Goto(c, "select")
  /\ UNCHANGED <<conn, cancelled, n, done, ran, answer>>

(* The host refuses, or the connection is lost. *)
NoSession(c) ==
  /\ pc[c] = "opening"
  /\ answer' = [answer EXCEPT ![Current(c)] = "error"]
  /\ Goto(c, "connected")
  /\ UNCHANGED <<conn, cancelled, n, worker, done, session, ran>>

NoticeLoss(c) == link[c] = "lost" /\ NoSession(c)

(* Run returns r; its deferred call closes the session. *)
Answer(c, r) ==
  /\ answer' = [answer EXCEPT ![Current(c)] = r]
  /\ session' = [session EXCEPT ![Current(c)] = FALSE]
  /\ Goto(c, "connected")

(* Variant: only an exit status other than 0 is an error. *)
SelectDoneExitOnly(c) ==
  /\ pc[c] = "select" /\ done[Current(c)] # "empty"
  /\ done' = [done EXCEPT ![Current(c)] = "empty"]
  /\ Answer(c, IF done[Current(c)] = "fail" THEN "fail" ELSE "ok")
  /\ UNCHANGED <<conn, cancelled, n, worker, ran>>

SelectDone(c) ==
  /\ pc[c] = "select" /\ done[Current(c)] # "empty"
  /\ done' = [done EXCEPT ![Current(c)] = "empty"]
  /\ Answer(c, done[Current(c)])
  /\ UNCHANGED <<conn, cancelled, n, worker, ran>>

SelectCancelled(c) ==
  /\ pc[c] = "select" /\ cancelled[c]
  /\ Answer(c, "error")
  /\ UNCHANGED <<conn, cancelled, n, worker, done, ran>>

(* Variant: Close is called after the commands, and an error of one is     *)
(* passed on before it.                                                    *)
CloseUnlessFailed(c) ==
  /\ pc[c] = "connected"
  /\ \/ /\ \A r \in Runs : answer[<<c, r>>] # "error"
        /\ open' = [open EXCEPT ![c] = 0]
        /\ link' = [link EXCEPT ![c] = "none"]
     \/ /\ \E r \in Runs : answer[<<c, r>>] = "error"
        /\ UNCHANGED <<open, link>>
  /\ Goto(c, "returned")
  /\ UNCHANGED <<tries, denials, cancelled, calls>>

(* The caller has what it wants, or an error that it passes on. *)
Close(c) ==
  /\ pc[c] = "connected"
  /\ open' = [open EXCEPT ![c] = 0]
  /\ link' = [link EXCEPT ![c] = "none"]
  /\ Goto(c, "returned")
  /\ UNCHANGED <<tries, denials, cancelled, calls>>

-----------------------------------------------------------------------------
(* Run: the goroutine of call k, and the host. *)

Usable(k) == session[k] /\ link[k[1]] = "up"

(* sess.Run sends the command, or cannot any more. *)
Send(k) ==
  /\ worker[k] = "send"
  /\ \/ /\ Usable(k)
        /\ worker' = [worker EXCEPT ![k] = "wait"]
        /\ ran' = [ran EXCEPT ![k] = "sent"]
     \/ ~Usable(k) /\ worker' = [worker EXCEPT ![k] = "error"] /\ UNCHANGED ran
  /\ UNCHANGED <<pc, conn, cancelled, n, done, session, answer>>

(* The exit status arrives, or the end of the session or the connection.   *)
Receive(k) ==
  /\ worker[k] = "wait"
  /\ \/ Usable(k) /\ ran[k] \in Ends /\ worker' = [worker EXCEPT ![k] = ran[k]]
     \/ ~Usable(k) /\ worker' = [worker EXCEPT ![k] = "error"]
  /\ UNCHANGED <<pc, conn, cancelled, n, done, session, ran, answer>>

(* Variant: a channel without a buffer: the send waits for its receiver. *)
DeliverUnbuffered(k) ==
  /\ worker[k] \in Ends \cup {"error"}
  /\ session[k]
  /\ done' = [done EXCEPT ![k] = worker[k]]
  /\ worker' = [worker EXCEPT ![k] = "none"]
  /\ UNCHANGED <<pc, conn, cancelled, n, session, ran, answer>>

(* done has room for the one value it ever gets. *)
Deliver(k) ==
  /\ worker[k] \in Ends \cup {"error"}
  /\ done' = [done EXCEPT ![k] = worker[k]]
  /\ worker' = [worker EXCEPT ![k] = "none"]
  /\ UNCHANGED <<pc, conn, cancelled, n, session, ran, answer>>

Goroutine(k) == Send(k) \/ Receive(k) \/ Deliver(k)

(* The host runs a command it was sent, whatever becomes of the session.   *)
HostStep(k) ==
  /\ \/ ran[k] = "sent" /\ ran' = [ran EXCEPT ![k] = "running"]
     \/ ran[k] = "running" /\ \E r \in Ends : ran' = [ran EXCEPT ![k] = r]
  /\ UNCHANGED <<pc, conn, cancelled, n, worker, done, session, answer>>

LinkLost(c) ==
  /\ link[c] = "up"
  /\ link' = [link EXCEPT ![c] = "lost"]
  /\ UNCHANGED <<pc, tries, open, denials, cancelled, calls>>

Cancel(c) ==
  /\ ~cancelled[c] /\ pc[c] # "returned"
  /\ cancelled' = [cancelled EXCEPT ![c] = TRUE]
  /\ UNCHANGED <<pc, conn, calls>>

-----------------------------------------------------------------------------
Caller(c) ==
  \/ New(c) \/ Dial(c) \/ Backoff(c) \/ StartRun(c) \/ NoticeLoss(c)
  \/ SelectDone(c) \/ SelectCancelled(c) \/ Close(c)

Next ==
  \/ \E c \in Clients : \/ Caller(c) \/ Handshake(c) \/ HandshakeFails(c)
                       \/ SessionOpens(c) \/ NoSession(c)
                       \/ LinkLost(c) \/ Cancel(c)
  \/ \E k \in Calls : Goroutine(k) \/ HostStep(k)

(* The process is scheduled, dialling has a timeout, and a lost connection *)
(* is noticed.  Nothing is assumed of the host: it may accept a connection *)
(* and stay silent, leave the request for a session unanswered, and a      *)
(* command may never end.                                                  *)
Spec ==
  /\ Init /\ [][Next]_vars
  /\ \A c \in Clients : WF_vars(Caller(c))
  /\ \A k \in Calls : WF_vars(Goroutine(k))

-----------------------------------------------------------------------------
(* Properties. *)

(* Whatever fails on the way, nothing is left open behind a client: Close  *)
(* is deferred before anything can fail (provisioner.go:63, node.go:75),   *)
(* and what Connect gives up is closed.                                    *)
NothingLeftOpen ==
  \A c \in Clients : pc[c] = "returned" => open[c] = 0 /\ link[c] = "none"

(* A host that does not let us in is asked once per Connect, also when its *)
(* answer reads like a passing failure: retries would look like an attempt *)
(* to guess and get the operator locked out (retry.go:16 before :22).      *)
RejectedOnce == \A c \in Clients : denials[c] <= 1

(* Run keeps the promise of RemoteCall: no command runs twice, although    *)
(* Connect retries, and an answer other than an error is the host's.       *)
KeepsPromise == Promise!Spec

(* The client returns to its caller, whatever fails, if the host answers   *)
(* while a handshake or a NewSession waits for it, and its commands end or *)
(* the context does: attempts to connect are limited in time, and every    *)
(* way out of the goroutine, or the context, wakes the select              *)
(* (client.go:110, :142).  The context ends neither of the two waits that  *)
(* are left to the host (client.go:96, :127).                              *)
ReturnsAtLast ==
  \A c \in Clients :
    /\ []<>(pc[c] # "handshake") /\ []<>(pc[c] # "opening")
    /\ \A r \in Runs : []<>(cancelled[c] \/ ran[<<c, r>>] \notin {"sent", "running"})
    => <>(pc[c] = "returned")

(* No goroutine outlives its client for ever, however Run was left         *)
(* (client.go:133, the capacity of done).                                  *)
GoroutinesEnd ==
  \A k \in Calls : pc[k[1]] = "returned" ~> worker[k] = "none"

=============================================================================
