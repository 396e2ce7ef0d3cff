------------------------------- MODULE Server -------------------------------
(***************************************************************************)
(* The life of the gateway process (internal/server/server.go, run of      *)
(* cmd/backupgate/main.go): main opens the listeners and starts one Serve  *)
(* goroutine for each, waits for a signal, and shuts the servers down one  *)
(* after the other under one deadline of three seconds, while the clients  *)
(* go on sending requests and the backups of others still run.             *)
(*                                                                         *)
(* A request is answered when its handler returns; a detached backup keeps *)
(* its handler, and so its request, running.  net/http is modelled from    *)
(* how Server uses it.                                                     *)
(***************************************************************************)
EXTENDS Naturals, SequencesExt

CONSTANTS
  Configs,    \* the servers to start: groups that are started together
  Requests,   \* the requests of the clients
  MaxFaults   \* bound on Serve calls that fail

Servers == UNION {UNION {ToSet(groups[k]) : k \in DOMAIN groups} : groups \in Configs}
NoServer == "none"

\* Start makes an http.Server of its own for every listener.
ASSUME ServerAssumption ==
  /\ \A groups \in Configs : groups \in Seq(Seq(STRING) \ {<<>>})
  /\ \A groups \in Configs : \A k \in DOMAIN groups : IsInjective(groups[k])
  /\ NoServer \notin Servers
  /\ MaxFaults \in Nat

VARIABLES
  main,      \* where main stands
  todo,      \* the groups main still has to start
  servers,   \* Server.servers
  listener,  \* the listener of each server
  serve,     \* the Serve goroutine of each server (Server.wg counts them)
  down,      \* the servers whose Shutdown has begun
  queue,     \* the servers the loop of Shutdown has not finished with
  expired,   \* shutdownCtx is done
  failed,    \* lastErr of Shutdown is set
  req,       \* each request
  at,        \* the server it came to
  signalled, \* the process got SIGINT or SIGTERM
  exit,      \* how the process ended
  faults

conns == <<req, at>>
vars == <<main, todo, servers, listener, serve, down, queue, expired, failed,
          req, at, signalled, exit, faults>>

TypeOK ==
  /\ main \in {"start", "started", "running", "shutdown", "wait", "exited"}
  /\ todo \in Seq(Seq(Servers))
  /\ servers \in Seq(Servers) /\ IsInjective(servers)
  /\ listener \in [Servers -> {"none", "open", "closed"}]
  /\ serve \in [Servers -> {"none", "starting", "serving", "ended"}]
  /\ \A s \in Servers : serve[s] # "none" => s \in ToSet(servers) /\ listener[s] # "none"
  /\ down \subseteq ToSet(servers)
  /\ queue \in Seq(Servers)
  /\ expired \in BOOLEAN /\ failed \in BOOLEAN /\ signalled \in BOOLEAN
  /\ req \in [Requests -> {"new", "active", "answered", "killed"}]
  /\ at \in [Requests -> Servers \cup {NoServer}]
  /\ exit \in {"none", "ok", "error", "signal"}
  /\ faults \in 0..MaxFaults

Init ==
  /\ main = "start"
  /\ todo \in Configs
  /\ servers = <<>>
  /\ listener = [s \in Servers |-> "none"]
  /\ serve = [s \in Servers |-> "none"]
  /\ down = {}
  /\ queue = <<>>
  /\ expired = FALSE /\ failed = FALSE /\ signalled = FALSE
  /\ req = [r \in Requests |-> "new"]
  /\ at = [r \in Requests |-> NoServer]
  /\ exit = "none"
  /\ faults = 0

\* The process ends, whatever its handlers are doing.
Exit(how) ==
  /\ main' = "exited" /\ exit' = how
  /\ req' = [r \in Requests |-> IF req[r] = "active" THEN "killed" ELSE req[r]]

Active(s) == {r \in Requests : req[r] = "active" /\ at[r] = s}
Unlistened(group) == {k \in DOMAIN group : listener[group[k]] = "none"}

-----------------------------------------------------------------------------
(* Start                                                                    *)

\* The servers of a group are listed before the first of them listens.
AppendServers ==
  /\ main = "start" /\ todo # <<>>
  /\ ToSet(Head(todo)) \cap ToSet(servers) = {}
  /\ servers' = servers \o Head(todo)
  /\ UNCHANGED <<main, todo, listener, serve, down, queue, expired, failed, conns,
                 signalled, exit, faults>>

\* net.Listen, in the order of the group; when it fails, the listeners of the
\* group are closed again and main gives up.
Listen ==
  /\ main = "start" /\ todo # <<>>
  /\ ToSet(Head(todo)) \subseteq ToSet(servers)
  /\ \E k \in Unlistened(Head(todo)) :
       /\ \A j \in Unlistened(Head(todo)) : k <= j
       /\ \/ /\ listener' = [listener EXCEPT ![Head(todo)[k]] = "open"]
             /\ UNCHANGED <<main, exit, req>>
          \/ /\ listener' = [s \in Servers |->
                  IF s \in ToSet(Head(todo)) /\ listener[s] = "open" THEN "closed"
                                                                     ELSE listener[s]]
             /\ Exit("error")
  /\ UNCHANGED <<todo, servers, serve, down, queue, expired, failed, at,
                 signalled, faults>>

\* wg.Go for each server of the group.
StartServing ==
  /\ main = "start" /\ todo # <<>>
  /\ ToSet(Head(todo)) \subseteq ToSet(servers) /\ Unlistened(Head(todo)) = {}
  /\ serve' = [s \in Servers |-> IF s \in ToSet(Head(todo)) THEN "starting" ELSE serve[s]]
  /\ todo' = Tail(todo)
  /\ UNCHANGED <<main, servers, listener, down, queue, expired, failed, conns,
                 signalled, exit, faults>>

\* Start returns, and only then main asks for the signals.
StartReturns ==
  /\ main = "start" /\ todo = <<>>
  /\ main' = "started"
  /\ UNCHANGED <<todo, servers, listener, serve, down, queue, expired, failed, conns,
                 signalled, exit, faults>>

Notify ==
  /\ main = "started"
  /\ main' = "running"
  /\ UNCHANGED <<todo, servers, listener, serve, down, queue, expired, failed, conns,
                 signalled, exit, faults>>

-----------------------------------------------------------------------------
(* The Serve goroutines and the requests                                    *)

\* Serve begins, or finds that its server was shut down before it began.
Serve(s) ==
  /\ main # "exited" /\ serve[s] = "starting"
  /\ IF s \in down
     THEN /\ serve' = [serve EXCEPT ![s] = "ended"]
          /\ listener' = [listener EXCEPT ![s] = "closed"]
     ELSE serve' = [serve EXCEPT ![s] = "serving"] /\ UNCHANGED listener
  /\ UNCHANGED <<main, todo, servers, down, queue, expired, failed, conns,
                 signalled, exit, faults>>

\* Serve returns: its server is shut down, or accepting failed, which is only
\* logged and leaves the process without this listener.
ServeReturns(s) ==
  /\ main # "exited" /\ serve[s] = "serving"
  /\ \/ s \in down /\ UNCHANGED faults
     \/ faults < MaxFaults /\ faults' = faults + 1
  /\ serve' = [serve EXCEPT ![s] = "ended"]
  /\ listener' = [listener EXCEPT ![s] = "closed"]
  /\ UNCHANGED <<main, todo, servers, down, queue, expired, failed, conns,
                 signalled, exit>>

Accept(r, s) ==
  /\ main # "exited" /\ req[r] = "new"
  /\ serve[s] = "serving" /\ s \notin down
  /\ req' = [req EXCEPT ![r] = "active"]
  /\ at' = [at EXCEPT ![r] = s]
  /\ UNCHANGED <<main, todo, servers, listener, serve, down, queue, expired, failed,
                 signalled, exit, faults>>

\* The handler returns, for a detached backup when the backup is stored.
Answer(r) ==
  /\ main # "exited" /\ req[r] = "active"
  /\ req' = [req EXCEPT ![r] = "answered"]
  /\ UNCHANGED <<main, todo, servers, listener, serve, down, queue, expired, failed,
                 at, signalled, exit, faults>>

-----------------------------------------------------------------------------
(* Shutdown                                                                 *)

\* Before Notify a signal kills the process.
Signal ==
  /\ main \in {"start", "started", "running"}
  /\ signalled' = TRUE
  /\ IF main = "running"
     THEN main' = "shutdown" /\ queue' = servers /\ UNCHANGED <<exit, req>>
     ELSE Exit("signal") /\ UNCHANGED queue
  /\ UNCHANGED <<todo, servers, listener, serve, down, expired, failed, at, faults>>

\* Only a listener that Serve has begun to use is known to the server; the
\* others are closed by their goroutine.
CloseListener(s) ==
  IF serve[s] = "serving" THEN listener' = [listener EXCEPT ![s] = "closed"]
                          ELSE UNCHANGED listener

\* Variant: the requests of the server are not waited for.
BeginShutdownUnwaited ==
  /\ main = "shutdown" /\ queue # <<>> /\ Head(queue) \notin down
  /\ down' = down \cup {Head(queue)}
  /\ CloseListener(Head(queue))
  /\ queue' = Tail(queue)
  /\ UNCHANGED <<main, todo, servers, serve, expired, failed, conns, signalled,
                 exit, faults>>

\* http.Server.Shutdown closes the listener and returns if nothing is active.
BeginShutdown ==
  /\ main = "shutdown" /\ queue # <<>> /\ Head(queue) \notin down
  /\ down' = down \cup {Head(queue)}
  /\ CloseListener(Head(queue))
  /\ queue' = IF Active(Head(queue)) = {} THEN Tail(queue) ELSE queue
  /\ UNCHANGED <<main, todo, servers, serve, expired, failed, conns, signalled,
                 exit, faults>>

\* Variants: the loop of Shutdown ends at the first error; the context is not
\* looked at.
ShutdownReturnsAtOnce ==
  /\ main = "shutdown" /\ queue # <<>> /\ Head(queue) \in down
  /\ \/ Active(Head(queue)) = {} /\ queue' = Tail(queue) /\ UNCHANGED failed
     \/ expired /\ queue' = <<>> /\ failed' = TRUE
  /\ UNCHANGED <<main, todo, servers, listener, serve, down, expired, conns,
                 signalled, exit, faults>>
ShutdownReturnsIdle ==
  /\ main = "shutdown" /\ queue # <<>> /\ Head(queue) \in down
  /\ Active(Head(queue)) = {}
  /\ queue' = Tail(queue)
  /\ UNCHANGED <<main, todo, servers, listener, serve, down, expired, failed, conns,
                 signalled, exit, faults>>

\* It polls until nothing is active or the context is done.
ShutdownReturns ==
  /\ main = "shutdown" /\ queue # <<>> /\ Head(queue) \in down
  /\ \/ Active(Head(queue)) = {} /\ UNCHANGED failed
     \/ expired /\ failed' = TRUE
  /\ queue' = Tail(queue)
  /\ UNCHANGED <<main, todo, servers, listener, serve, down, expired, conns,
                 signalled, exit, faults>>

\* An error of a server ends main, otherwise it waits for the goroutines.
EndShutdown ==
  /\ main = "shutdown" /\ queue = <<>>
  /\ IF failed THEN Exit("error") ELSE main' = "wait" /\ UNCHANGED <<exit, req>>
  /\ UNCHANGED <<todo, servers, listener, serve, down, queue, expired, failed, at,
                 signalled, faults>>

Wait ==
  /\ main = "wait"
  /\ \/ (\A s \in Servers : serve[s] \in {"none", "ended"}) /\ Exit("ok")
     \/ expired /\ Exit("error")
  /\ UNCHANGED <<todo, servers, listener, serve, down, queue, expired, failed, at,
                 signalled, faults>>

\* Three seconds after the signal.
Expire ==
  /\ main \in {"shutdown", "wait"} /\ ~expired
  /\ expired' = TRUE
  /\ UNCHANGED <<main, todo, servers, listener, serve, down, queue, failed, conns,
                 signalled, exit, faults>>

Exited == main = "exited" /\ UNCHANGED vars

MainStep ==
  \/ AppendServers \/ Listen \/ StartServing \/ StartReturns \/ Notify
  \/ BeginShutdown \/ ShutdownReturns \/ EndShutdown \/ Wait

Next ==
  \/ MainStep \/ Signal \/ Expire \/ Exited
  \/ \E s \in Servers : Serve(s) \/ ServeReturns(s)
  \/ \E r \in Requests : Answer(r) \/ \E s \in Servers : Accept(r, s)

Spec == Init /\ [][Next]_vars

\* main and the goroutines run and time passes; handlers need not return.
FairSpec ==
  /\ Spec /\ WF_vars(MainStep) /\ WF_vars(Expire)
  /\ \A s \in Servers : WF_vars(Serve(s)) /\ WF_vars(s \in down /\ ServeReturns(s))

-----------------------------------------------------------------------------
(* Properties.                                                              *)

\* When the process reports a clean end, no backup was cut off and no listener
\* is left open, although the servers are shut down one after the other and the
\* later ones accept requests while the earlier ones wait (Server.Shutdown).
CleanExitAnswersAll ==
  exit = "ok" => /\ \A r \in Requests : req[r] # "killed"
                 /\ \A s \in Servers : listener[s] # "open"

\* A running backup is cut off only when the three seconds are over or by a
\* signal or a failure before main asked for signals.
KilledOnlyAfterGrace ==
  [][(\E r \in Requests : req[r] = "active" /\ req'[r] = "killed")
       => expired \/ main \in {"start", "started"}]_vars

\* An error of one server does not keep the others from being shut down.
AllAreShutDown ==
  [][main = "shutdown" /\ main' # "shutdown" => down = ToSet(servers)]_vars

\* After a signal the process ends, whether or not its backups do.
ExitsAfterSignal == signalled ~> main = "exited"
=============================================================================
