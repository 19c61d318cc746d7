------------------------------ MODULE Serving ------------------------------
(***************************************************************************)
(* The two server processes around the store: the OAuth gateway            *)
(* (cmd/coggo-oauth-gateway/main.go) in front of coggo (internal/mcp,      *)
(* internal/cli/serve.go), each stopped by a signal, by the failure of its *)
(* listener, or by a crash, and started again.                             *)
(*                                                                         *)
(* A request comes to coggo from a client on the machine, or through the   *)
(* gateway.  Inside coggo its statements are those of StorePool.  The two  *)
(* processes stop differently: coggo waits for its requests without a      *)
(* deadline and then closes the store, the gateway waits five seconds and  *)
(* exits, which leaves the request it forwarded running in coggo with no   *)
(* one to hear the answer.                                                 *)
(*                                                                         *)
(* What the gateway's validator and limiters decide is a free choice here: *)
(* GatewayValidator and RateLimiter model it.                              *)
(***************************************************************************)
EXTENDS StorePool

CONSTANT Local      \* the requests of clients that speak to coggo themselves

ASSUME LocalAssumption == Local \subseteq Requests

VARIABLES
    gate,       \* the gateway: up, draining, down
    coggo,      \* coggo: up, draining, closing (the store is closed), down
    stage,      \* where each request is
    answer,     \* what its client was told
    struck      \* ghost: requests in flight when a process died under them

vars == <<poolVars, gate, coggo, stage, answer, struck>>

TypeOK ==
    /\ PoolTypeOK
    /\ gate \in {"up", "draining", "down"}
    /\ coggo \in {"up", "draining", "closing", "down"}
    /\ stage \in [Requests -> {"unsent", "gateway", "upstream", "direct", "orphan", "done"}]
    /\ answer \in [Requests -> {"none", "ok", "error", "refused", "unreachable", "lost"}]
    /\ struck \subseteq Requests

Init ==
    /\ PoolInit
    /\ gate = "down"
    /\ coggo = "down"
    /\ stage = [r \in Requests |-> "unsent"]
    /\ answer = [r \in Requests |-> "none"]
    /\ struck = {}

\* Requests that a handler of coggo is running, and requests inside the gateway.
InCoggo == {r \in Requests : stage[r] \in {"upstream", "direct", "orphan"}}
InGate == {r \in Requests : stage[r] \in {"gateway", "upstream"}}

Finish(r, what) ==
    /\ stage' = [stage EXCEPT ![r] = "done"]
    /\ answer' = [answer EXCEPT ![r] = what]

-----------------------------------------------------------------------------
(***************************************************************************)
(* A request through the gateway: globalLimiter, the validator, the limit  *)
(* of the email, the reverse proxy.                                        *)
(***************************************************************************)
GateAccept(r) ==
    /\ gate = "up"
    /\ r \notin Local
    /\ stage[r] = "unsent"
    /\ stage' = [stage EXCEPT ![r] = "gateway"]
    /\ UNCHANGED <<poolVars, gate, coggo, answer, struck>>

\* A limiter or the validator answers 429, 401, 403 or 503.
Refuse(r) ==
    /\ stage[r] = "gateway"
    /\ Finish(r, "refused")
    /\ UNCHANGED <<poolVars, gate, coggo, struck>>

\* The proxy forwards it; 502 from its ErrorHandler when coggo does not listen.
Proxy(r) ==
    /\ stage[r] = "gateway"
    /\ \/ /\ coggo = "up"
          /\ Accept(r)
          /\ stage' = [stage EXCEPT ![r] = "upstream"]
          /\ UNCHANGED answer
       \/ /\ coggo # "up"
          /\ Finish(r, "unreachable")
          /\ UNCHANGED poolVars
    /\ UNCHANGED <<gate, coggo, struck>>

\* A client on the machine speaks to coggo itself.
Direct(r) ==
    /\ coggo = "up"
    /\ r \in Local
    /\ stage[r] = "unsent"
    /\ Accept(r)
    /\ stage' = [stage EXCEPT ![r] = "direct"]
    /\ UNCHANGED <<gate, coggo, answer, struck>>

\* A statement of its handler.  Once the store is closed no statement gets the
\* connection any more; the one that has it goes on.
Serve(r) ==
    /\ coggo = "closing" => ~NeedsConn(r)
    /\ Step(r)
    /\ UNCHANGED <<gate, coggo, stage, answer, struck>>

\* A statement fails, also because the store is closed or the request cancelled.
Break(r) ==
    /\ Fail(r)
    /\ UNCHANGED <<gate, coggo, stage, answer, struck>>

\* Mutant: the answer is written while the handler still runs.
ReplyEarly(r) ==
    /\ r \in InCoggo
    /\ Finish(r, pc[r])
    /\ Forget({r})
    /\ UNCHANGED <<db, conn, pc, arg, txn, revived, gate, coggo, struck>>

\* The handler returns and its answer is written, if anyone is there to read it.
Reply(r) ==
    /\ r \in InCoggo
    /\ Return(r)
    /\ IF stage[r] = "orphan"
       THEN stage' = [stage EXCEPT ![r] = "done"] /\ UNCHANGED answer
       ELSE Finish(r, pc[r])
    /\ UNCHANGED <<gate, coggo, struck>>

-----------------------------------------------------------------------------
(***************************************************************************)
(* The gateway starts and stops (run).                                     *)
(***************************************************************************)
GateStart ==
    /\ gate = "down"
    /\ gate' = "up"
    /\ UNCHANGED <<poolVars, coggo, stage, answer, struck>>

\* SIGINT or SIGTERM: srv.Shutdown with a context of five seconds.
GateSignal ==
    /\ gate = "up"
    /\ gate' = "draining"
    /\ UNCHANGED <<poolVars, coggo, stage, answer, struck>>

\* The process exits under its requests: their clients hear nothing, and coggo
\* goes on with those that it has.
GateGone ==
    /\ gate' = "down"
    /\ stage' = [r \in Requests |->
                    IF r \notin InGate THEN stage[r]
                    ELSE IF stage[r] = "upstream" THEN "orphan" ELSE "done"]
    /\ answer' = [r \in Requests |-> IF r \in InGate THEN "lost" ELSE answer[r]]
    /\ struck' = struck \cup (InGate \cap InCoggo)
    /\ UNCHANGED <<poolVars, coggo>>

\* Shutdown returns: no request is left, or the five seconds are over.
GateDrained ==
    /\ gate = "draining"
    /\ GateGone

\* The listener fails, or the process crashes.
GateDies ==
    /\ gate = "up"
    /\ GateGone

-----------------------------------------------------------------------------
(***************************************************************************)
(* Coggo starts and stops (actionServe, Server.Start, Runtime.Close).      *)
(***************************************************************************)
Start ==
    /\ coggo = "down"
    /\ coggo' = "up"
    /\ UNCHANGED <<poolVars, gate, stage, answer, struck>>

\* The signal cancels ctx: Shutdown, with a context that has no deadline.
Signal ==
    /\ coggo = "up"
    /\ coggo' = "draining"
    /\ UNCHANGED <<poolVars, gate, stage, answer, struck>>

\* Mutant: Shutdown with a deadline, as in the gateway.
DrainedAnyhow ==
    /\ coggo = "draining"
    /\ coggo' = "closing"
    /\ UNCHANGED <<poolVars, gate, stage, answer, struck>>

\* Shutdown returns when no handler is running; the deferred Close follows.
Drained ==
    /\ coggo = "draining"
    /\ InCoggo = {}
    /\ coggo' = "closing"
    /\ UNCHANGED <<poolVars, gate, stage, answer, struck>>

\* The listener fails: Start returns at once and the store is closed while
\* handlers run.
ListenFails ==
    /\ coggo = "up"
    /\ coggo' = "closing"
    /\ struck' = struck \cup InCoggo
    /\ UNCHANGED <<poolVars, gate, stage, answer>>

\* The process is gone.  The gateway's proxy answers 502 for the requests it had
\* forwarded; a client on the machine sees its connection break.
Gone ==
    /\ coggo' = "down"
    /\ PoolReset
    /\ stage' = [r \in Requests |-> IF r \in InCoggo THEN "done" ELSE stage[r]]
    /\ answer' = [r \in Requests |->
                    CASE stage[r] = "upstream" -> "unreachable"
                      [] stage[r] = "direct"   -> "lost"
                      [] OTHER                 -> answer[r]]
    /\ UNCHANGED gate

Exit ==
    /\ coggo = "closing"
    /\ Gone
    /\ UNCHANGED struck

Crash ==
    /\ coggo \in {"up", "draining"}
    /\ Gone
    /\ struck' = struck \cup InCoggo

-----------------------------------------------------------------------------
RequestStep(r) ==
    Refuse(r) \/ Proxy(r) \/ Serve(r) \/ Reply(r)

Next ==
    \/ \E r \in Requests : GateAccept(r) \/ Direct(r) \/ RequestStep(r) \/ Break(r)
    \/ GateStart \/ GateSignal \/ GateDrained \/ GateDies
    \/ Start \/ Signal \/ Drained \/ ListenFails \/ Exit \/ Crash

Spec == Init /\ [][Next]_vars

\* A request that has what it needs goes on, a process that was told to stop
\* stops, the gateway's timer runs out.  Nobody has to send a request, a signal,
\* or to start a process.  The requests that compete for the connection are
\* finitely many, and database/sql hands it to those that wait.
FairSpec ==
    /\ Spec
    /\ \A r \in Requests : WF_vars(RequestStep(r))
    /\ WF_vars(GateDrained)
    /\ WF_vars(Drained)
    /\ WF_vars(Exit)

-----------------------------------------------------------------------------
(***************************************************************************)
(* Properties.                                                             *)
(***************************************************************************)

\* A client that was told "ok" has its write in the database, through crashes and
\* restarts of either process and stores closed under running handlers: the event of
\* an update or an archive, the vector with its row, and the archival itself unless an
\* update that had read the row before brought the entity back.
AnsweredDurable ==
    \A r \in Requests : answer[r] = "ok" =>
        LET e == arg[r].entity IN
        /\ arg[r].op \in {"archive", "update"} => r \in events
        /\ arg[r].op = "archive" => e \notin live \/ e \in revived
        /\ arg[r].op = "embed" => e \in vectors \cap meta

\* Stopping coggo with a signal loses no request it has accepted: a client is left
\* without the answer of its handler only if a process died under the request
\* (crash, failed listener, the gateway's five seconds).
StopLosesNone ==
    \A r \in Requests :
        pc[r] # "idle" /\ r \notin struck => answer[r] \in {"none", "ok", "error"}

\* Every request comes to an end: no handler waits for the one connection while it
\* or another handler that waits for it keeps that connection.
RequestsEnd == \A r \in Requests : stage[r] # "unsent" ~> stage[r] = "done"

\* Coggo comes to rest after its signal although its Shutdown has no deadline: no
\* handler of a request it accepted is stuck in the store.
SignalStops == coggo = "draining" ~> coggo = "down"

=============================================================================
