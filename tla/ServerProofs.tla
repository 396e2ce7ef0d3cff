---------------------------- MODULE ServerProofs ----------------------------
(***************************************************************************)
(* Proofs about Server for every configuration of servers, every set of    *)
(* requests and every number of failing Serve calls: a clean exit cuts     *)
(* nothing off, backups are killed only when the grace is over, and every  *)
(* server is shut down.                                                    *)
(***************************************************************************)
EXTENDS Server, SequenceTheorems, TLAPS

Typed ==
  /\ main \in {"start", "started", "running", "shutdown", "wait", "exited"}
  /\ todo \in Seq(Seq(STRING))
  /\ servers \in Seq(STRING) /\ queue \in Seq(STRING)
  /\ listener \in [Servers -> {"none", "open", "closed"}]
  /\ serve \in [Servers -> {"none", "starting", "serving", "ended"}]
  /\ req \in [Requests -> {"new", "active", "answered", "killed"}]
  /\ at \in [Requests -> Servers \cup {NoServer}]
  /\ expired \in BOOLEAN /\ failed \in BOOLEAN
  /\ exit \in {"none", "ok", "error", "signal"}

\* Only servers that are listed are served, and so only they have requests.
Listed ==
  /\ \A s \in Servers : serve[s] # "none" => s \in ToSet(servers)
  /\ \A r \in Requests : req[r] = "active" => at[r] \in ToSet(servers)

\* A listener is open for a Serve goroutine, or until the goroutines of its
\* group are started.
Listening ==
  \A s \in Servers : listener[s] = "open" =>
    \/ serve[s] \in {"starting", "serving"}
    \/ main = "start" /\ todo # <<>> /\ s \in ToSet(Head(todo))
    \/ exit = "signal"

\* The loop of Shutdown has begun with every server that is not in the queue.
Looped ==
  /\ main \in {"shutdown", "wait"} =>
       ToSet(servers) \subseteq down \cup ToSet(queue)
  /\ ToSet(queue) \subseteq ToSet(servers) /\ down \subseteq ToSet(servers)
  /\ main \in {"start", "started", "running"} => down = {} /\ queue = <<>>
  /\ main = "wait" => queue = <<>> /\ ~failed

\* A server the loop is through with has no request, unless time ran out.
Drained ==
  /\ failed => expired
  /\ ~failed => \A r \in Requests :
       req[r] = "active" /\ at[r] \in down => at[r] \in ToSet(queue)

\* Nobody is cut off before the end.
Alive ==
  /\ main # "exited" => exit = "none" /\ \A r \in Requests : req[r] # "killed"
  /\ CleanExitAnswersAll

IInv == Typed /\ Listed /\ Listening /\ Looped /\ Drained /\ Alive

-----------------------------------------------------------------------------
\* The first element of a sequence and the others are all of them.
LEMMA HeadAndTail ==
  ASSUME NEW S, NEW q \in Seq(S), q # <<>>
  PROVE  /\ Head(q) \in S /\ Tail(q) \in Seq(S)
         /\ ToSet(q) = {Head(q)} \cup ToSet(Tail(q))
<1>1. Len(q) \in Nat \ {0} /\ DOMAIN q = 1..Len(q) /\ Head(q) = q[1] /\ Head(q) \in S
  OBVIOUS
<1>2. /\ Tail(q) \in Seq(S) /\ Len(Tail(q)) = Len(q) - 1
      /\ \A i \in 1..(Len(q) - 1) : Tail(q)[i] = q[i + 1]
  BY <1>1
<1>3. DOMAIN Tail(q) = 1..(Len(q) - 1)
  BY <1>1, <1>2
<1>4. ASSUME NEW i \in DOMAIN q
      PROVE  q[i] \in {Head(q)} \cup ToSet(Tail(q))
  <2>1. CASE i = 1
    BY <1>1, <2>1
  <2>2. CASE i # 1
    <3>1. i - 1 \in 1..(Len(q) - 1) /\ Tail(q)[i - 1] = q[i]
      BY <1>1, <1>2, <2>2
    <3> QED BY <1>3, <3>1 DEF ToSet
  <2> QED BY <2>1, <2>2
<1>5. ASSUME NEW i \in DOMAIN Tail(q)
      PROVE  Tail(q)[i] \in ToSet(q)
  <2>1. i + 1 \in DOMAIN q /\ Tail(q)[i] = q[i + 1]
    BY <1>1, <1>2, <1>3
  <2> QED BY <2>1 DEF ToSet
<1>6. Head(q) \in ToSet(q)
  BY <1>1 DEF ToSet
<1> QED BY <1>1, <1>2, <1>4, <1>5, <1>6 DEF ToSet

\* Appending loses nothing.
LEMMA Concatenation ==
  ASSUME NEW S, NEW p \in Seq(S), NEW q \in Seq(S)
  PROVE  p \o q \in Seq(S) /\ ToSet(p) \subseteq ToSet(p \o q)
<1>1. /\ Len(p \o q) = Len(p) + Len(q) /\ DOMAIN (p \o q) = 1..(Len(p) + Len(q))
      /\ Len(p) \in Nat /\ Len(q) \in Nat /\ DOMAIN p = 1..Len(p)
      /\ \A i \in 1..Len(p) : (p \o q)[i] = p[i]
  OBVIOUS
<1>2. ASSUME NEW i \in DOMAIN p
      PROVE  p[i] \in ToSet(p \o q)
  <2>1. i \in DOMAIN (p \o q) /\ (p \o q)[i] = p[i]
    BY <1>1
  <2> QED BY <2>1 DEF ToSet
<1> QED BY <1>2 DEF ToSet

\* An empty queue holds nothing.
LEMMA EmptyQueue == ToSet(<<>>) = {}
<1> QED BY DEF ToSet

\* At first nothing runs.
LEMMA InitInv == Init => IInv
<1> SUFFICES ASSUME Init PROVE IInv
  OBVIOUS
<1>1. todo \in Seq(Seq(STRING))
  <2>1. todo \in Seq(Seq(STRING) \ {<<>>})
    BY ServerAssumption DEF Init
  <2> QED BY <2>1
<1>2. Typed
  <2>1. servers \in Seq(STRING) /\ queue \in Seq(STRING)
    BY DEF Init
  <2>2. listener \in [Servers -> {"none", "open", "closed"}]
        /\ serve \in [Servers -> {"none", "starting", "serving", "ended"}]
    BY DEF Init
  <2> QED BY <1>1, <2>1, <2>2 DEF Init, Typed
<1> QED BY <1>2, EmptyQueue DEF Init, IInv, Listed, Listening, Looped, Drained, Alive,
  CleanExitAnswersAll

\* The servers of a group join the list.
LEMMA AppendServersInv ==
  ASSUME IInv, AppendServers
  PROVE  IInv'
<1>1. Typed'
  BY HeadAndTail, Concatenation DEF AppendServers, conns, IInv, Typed
<1>2. Listed'
  BY HeadAndTail, Concatenation DEF AppendServers, conns, IInv, Typed, Listed
<1>3. Listening'
  BY HeadAndTail, Concatenation DEF AppendServers, conns, IInv, Typed, Listed, Listening, Looped
<1>4. Looped'
  BY HeadAndTail, Concatenation DEF AppendServers, conns, IInv, Typed, Looped
<1>5. Drained'
  BY HeadAndTail, Concatenation DEF AppendServers, conns, IInv, Typed, Listed, Looped, Drained
<1>6. Alive'
  BY HeadAndTail, Concatenation DEF AppendServers, conns, IInv, Typed, Listed, Listening,
     Looped, Drained, Alive, CleanExitAnswersAll
<1> QED BY <1>1, <1>2, <1>3, <1>4, <1>5, <1>6 DEF IInv

\* A listener opens, or main gives up.
LEMMA ListenInv ==
  ASSUME IInv, Listen
  PROVE  IInv'
<1>1. Typed'
  BY DEF Listen, Exit, IInv, Typed
<1>2. Listed'
  BY DEF Listen, Exit, IInv, Typed, Listed
<1>3. Listening'
  <2>1. \A k \in Unlistened(Head(todo)) : Head(todo)[k] \in ToSet(Head(todo))
    BY DEF Unlistened, ToSet
  <2>2. main = "start" /\ todo # <<>> /\ UNCHANGED <<todo, serve>>
    BY DEF Listen
  <2>3. CASE Exit("error")
    <3>1. listener' = [s \in Servers |->
             IF s \in ToSet(Head(todo)) /\ listener[s] = "open" THEN "closed" ELSE listener[s]]
      BY <2>2, <2>3 DEF Listen, Exit
    <3> QED BY <2>2, <3>1 DEF IInv, Listening, Alive
  <2>4. CASE ~Exit("error")
    <3>1. PICK k \in Unlistened(Head(todo)) :
            /\ listener' = [listener EXCEPT ![Head(todo)[k]] = "open"]
            /\ UNCHANGED <<main, exit>>
      BY <2>4 DEF Listen
    <3> QED BY <2>1, <2>2, <3>1 DEF IInv, Typed, Listening
  <2> QED BY <2>3, <2>4
<1>4. Looped'
  BY DEF Listen, Exit, IInv, Typed, Looped
<1>5. Drained'
  BY DEF Listen, Exit, IInv, Typed, Listed, Looped, Drained
<1>6. Alive'
  BY DEF Listen, Exit, IInv, Typed, Listed, Listening, Looped, Drained, Alive,
     CleanExitAnswersAll
<1> QED BY <1>1, <1>2, <1>3, <1>4, <1>5, <1>6 DEF IInv

\* Whatever listens has a goroutine now.
LEMMA StartServingInv ==
  ASSUME IInv, StartServing
  PROVE  IInv'
<1>1. Typed'
  BY HeadAndTail DEF StartServing, conns, IInv, Typed
<1>2. Listed'
  BY HeadAndTail DEF StartServing, conns, IInv, Typed, Listed
<1>3. Listening'
  BY HeadAndTail DEF StartServing, conns, IInv, Typed, Listed, Listening, Looped
<1>4. Looped'
  BY HeadAndTail DEF StartServing, conns, IInv, Typed, Looped
<1>5. Drained'
  BY HeadAndTail DEF StartServing, conns, IInv, Typed, Listed, Looped, Drained
<1>6. Alive'
  BY HeadAndTail DEF StartServing, conns, IInv, Typed, Listed, Listening, Looped, Drained,
     Alive, CleanExitAnswersAll
<1> QED BY <1>1, <1>2, <1>3, <1>4, <1>5, <1>6 DEF IInv

\* main begins to wait for signals.
LEMMA StartedInv ==
  ASSUME IInv, StartReturns \/ Notify
  PROVE  IInv'
<1>1. Typed'
  BY DEF StartReturns, Notify, conns, IInv, Typed
<1>2. Listed'
  BY DEF StartReturns, Notify, conns, IInv, Typed, Listed
<1>3. Listening'
  BY DEF StartReturns, Notify, conns, IInv, Typed, Listed, Listening, Looped
<1>4. Looped'
  BY DEF StartReturns, Notify, conns, IInv, Typed, Looped
<1>5. Drained'
  BY DEF StartReturns, Notify, conns, IInv, Typed, Listed, Looped, Drained
<1>6. Alive'
  BY DEF StartReturns, Notify, conns, IInv, Typed, Listed, Listening, Looped, Drained, Alive,
     CleanExitAnswersAll
<1> QED BY <1>1, <1>2, <1>3, <1>4, <1>5, <1>6 DEF IInv

\* A goroutine begins to serve.
LEMMA ServeInv ==
  ASSUME IInv, NEW s \in Servers, Serve(s)
  PROVE  IInv'
<1>1. Typed'
  BY DEF Serve, conns, IInv, Typed
<1>2. Listed'
  BY DEF Serve, conns, IInv, Typed, Listed
<1>3. Listening'
  BY DEF Serve, conns, IInv, Typed, Listed, Listening, Looped
<1>4. Looped'
  BY DEF Serve, conns, IInv, Typed, Looped
<1>5. Drained'
  BY DEF Serve, conns, IInv, Typed, Listed, Looped, Drained
<1>6. Alive'
  BY DEF Serve, conns, IInv, Typed, Listed, Listening, Looped, Drained, Alive,
     CleanExitAnswersAll
<1> QED BY <1>1, <1>2, <1>3, <1>4, <1>5, <1>6 DEF IInv

\* A goroutine ends with its listener.
LEMMA ServeReturnsInv ==
  ASSUME IInv, NEW s \in Servers, ServeReturns(s)
  PROVE  IInv'
<1>1. Typed'
  BY DEF ServeReturns, conns, IInv, Typed
<1>2. Listed'
  BY DEF ServeReturns, conns, IInv, Typed, Listed
<1>3. Listening'
  BY DEF ServeReturns, conns, IInv, Typed, Listed, Listening, Looped
<1>4. Looped'
  BY DEF ServeReturns, conns, IInv, Typed, Looped
<1>5. Drained'
  BY DEF ServeReturns, conns, IInv, Typed, Listed, Looped, Drained
<1>6. Alive'
  BY DEF ServeReturns, conns, IInv, Typed, Listed, Listening, Looped, Drained, Alive,
     CleanExitAnswersAll
<1> QED BY <1>1, <1>2, <1>3, <1>4, <1>5, <1>6 DEF IInv

\* A request comes to a server that is not shut down.
LEMMA AcceptInv ==
  ASSUME IInv, NEW r \in Requests, NEW s \in Servers, Accept(r, s)
  PROVE  IInv'
<1>1. Typed'
  BY DEF Accept, IInv, Typed
<1>2. Listed'
  BY DEF Accept, IInv, Typed, Listed
<1>3. Listening'
  BY DEF Accept, IInv, Typed, Listed, Listening, Looped
<1>4. Looped'
  BY DEF Accept, IInv, Typed, Looped
<1>5. Drained'
  BY DEF Accept, IInv, Typed, Listed, Looped, Drained
<1>6. Alive'
  BY DEF Accept, IInv, Typed, Listed, Listening, Looped, Drained, Alive, CleanExitAnswersAll
<1> QED BY <1>1, <1>2, <1>3, <1>4, <1>5, <1>6 DEF IInv

\* A request is answered.
LEMMA AnswerInv ==
  ASSUME IInv, NEW r \in Requests, Answer(r)
  PROVE  IInv'
<1>1. Typed'
  BY DEF Answer, IInv, Typed
<1>2. Listed'
  BY DEF Answer, IInv, Typed, Listed
<1>3. Listening'
  BY DEF Answer, IInv, Typed, Listed, Listening, Looped
<1>4. Looped'
  BY DEF Answer, IInv, Typed, Looped
<1>5. Drained'
  BY DEF Answer, IInv, Typed, Listed, Looped, Drained
<1>6. Alive'
  BY DEF Answer, IInv, Typed, Listed, Listening, Looped, Drained, Alive, CleanExitAnswersAll
<1> QED BY <1>1, <1>2, <1>3, <1>4, <1>5, <1>6 DEF IInv

\* A signal begins the shutdown, or ends the process at its start.
LEMMA SignalInv ==
  ASSUME IInv, Signal
  PROVE  IInv'
<1>1. Typed'
  BY EmptyQueue DEF Signal, Exit, IInv, Typed
<1>2. Listed'
  BY EmptyQueue DEF Signal, Exit, IInv, Typed, Listed
<1>3. Listening'
  BY EmptyQueue DEF Signal, Exit, IInv, Typed, Listed, Listening, Looped
<1>4. Looped'
  BY EmptyQueue DEF Signal, Exit, IInv, Typed, Looped
<1>5. Drained'
  BY EmptyQueue DEF Signal, Exit, IInv, Typed, Listed, Looped, Drained
<1>6. Alive'
  BY EmptyQueue DEF Signal, Exit, IInv, Typed, Listed, Listening, Looped, Drained, Alive,
     CleanExitAnswersAll
<1> QED BY <1>1, <1>2, <1>3, <1>4, <1>5, <1>6 DEF IInv

\* A server without requests leaves the queue at once.
LEMMA BeginShutdownInv ==
  ASSUME IInv, BeginShutdown
  PROVE  IInv'
<1>1. Typed'
  BY HeadAndTail DEF BeginShutdown, CloseListener, Active, conns, IInv, Typed
<1>2. Listed'
  BY HeadAndTail DEF BeginShutdown, CloseListener, Active, conns, IInv, Typed, Listed
<1>3. Listening'
  BY HeadAndTail DEF BeginShutdown, CloseListener, Active, conns, IInv, Typed, Listed,
     Listening, Looped
<1>4. Looped'
  BY HeadAndTail DEF BeginShutdown, CloseListener, Active, conns, IInv, Typed, Looped
<1>5. Drained'
  BY HeadAndTail DEF BeginShutdown, CloseListener, Active, conns, IInv, Typed, Listed, Looped,
     Drained
<1>6. Alive'
  BY HeadAndTail DEF BeginShutdown, CloseListener, Active, conns, IInv, Typed, Listed,
     Listening, Looped, Drained, Alive, CleanExitAnswersAll
<1> QED BY <1>1, <1>2, <1>3, <1>4, <1>5, <1>6 DEF IInv

\* A server leaves the queue without requests or with an error.
LEMMA ShutdownReturnsInv ==
  ASSUME IInv, ShutdownReturns
  PROVE  IInv'
<1>1. Typed'
  BY HeadAndTail DEF ShutdownReturns, Active, conns, IInv, Typed
<1>2. Listed'
  BY HeadAndTail DEF ShutdownReturns, Active, conns, IInv, Typed, Listed
<1>3. Listening'
  BY HeadAndTail DEF ShutdownReturns, Active, conns, IInv, Typed, Listed, Listening, Looped
<1>4. Looped'
  BY HeadAndTail DEF ShutdownReturns, Active, conns, IInv, Typed, Looped
<1>5. Drained'
  BY HeadAndTail DEF ShutdownReturns, Active, conns, IInv, Typed, Listed, Looped, Drained
<1>6. Alive'
  BY HeadAndTail DEF ShutdownReturns, Active, conns, IInv, Typed, Listed, Listening, Looped,
     Drained, Alive, CleanExitAnswersAll
<1> QED BY <1>1, <1>2, <1>3, <1>4, <1>5, <1>6 DEF IInv

\* After the loop nobody is active.
LEMMA EndShutdownInv ==
  ASSUME IInv, EndShutdown
  PROVE  IInv'
<1>1. Typed'
  BY EmptyQueue DEF EndShutdown, Exit, IInv, Typed
<1>2. Listed'
  BY EmptyQueue DEF EndShutdown, Exit, IInv, Typed, Listed
<1>3. Listening'
  BY EmptyQueue DEF EndShutdown, Exit, IInv, Typed, Listed, Listening, Looped, Alive
<1>4. Looped'
  BY EmptyQueue DEF EndShutdown, Exit, IInv, Typed, Looped
<1>5. Drained'
  BY EmptyQueue DEF EndShutdown, Exit, IInv, Typed, Listed, Looped, Drained
<1>6. Alive'
  BY EmptyQueue DEF EndShutdown, Exit, IInv, Typed, Listed, Listening, Looped, Drained, Alive,
     CleanExitAnswersAll
<1> QED BY <1>1, <1>2, <1>3, <1>4, <1>5, <1>6 DEF IInv

\* The process ends after its goroutines or its time.
LEMMA WaitInv ==
  ASSUME IInv, Wait
  PROVE  IInv'
<1>1. Typed'
  BY EmptyQueue DEF Wait, Exit, IInv, Typed
<1>2. Listed'
  BY EmptyQueue DEF Wait, Exit, IInv, Typed, Listed
<1>3. Listening'
  BY EmptyQueue DEF Wait, Exit, IInv, Typed, Listed, Listening, Looped, Alive
<1>4. Looped'
  BY EmptyQueue DEF Wait, Exit, IInv, Typed, Looped
<1>5. Drained'
  BY EmptyQueue DEF Wait, Exit, IInv, Typed, Listed, Looped, Drained
<1>6. Alive'
  BY EmptyQueue DEF Wait, Exit, IInv, Typed, Listed, Listening, Looped, Drained, Alive,
     CleanExitAnswersAll
<1> QED BY <1>1, <1>2, <1>3, <1>4, <1>5, <1>6 DEF IInv

\* Time only runs out.
LEMMA ExpireInv ==
  ASSUME IInv, Expire
  PROVE  IInv'
<1>1. Typed'
  BY DEF Expire, conns, IInv, Typed
<1>2. Listed'
  BY DEF Expire, conns, IInv, Typed, Listed
<1>3. Listening'
  BY DEF Expire, conns, IInv, Typed, Listed, Listening, Looped
<1>4. Looped'
  BY DEF Expire, conns, IInv, Typed, Looped
<1>5. Drained'
  BY DEF Expire, conns, IInv, Typed, Listed, Looped, Drained
<1>6. Alive'
  BY DEF Expire, conns, IInv, Typed, Listed, Listening, Looped, Drained, Alive,
     CleanExitAnswersAll
<1> QED BY <1>1, <1>2, <1>3, <1>4, <1>5, <1>6 DEF IInv

\* Every step preserves the invariant.
LEMMA NextInv == IInv /\ [Next]_vars => IInv'
<1> SUFFICES ASSUME IInv, [Next]_vars PROVE IInv'
  OBVIOUS
<1>1. CASE MainStep
  BY <1>1, AppendServersInv, ListenInv, StartServingInv, StartedInv, BeginShutdownInv,
     ShutdownReturnsInv, EndShutdownInv, WaitInv DEF MainStep
<1>2. CASE Signal \/ Expire
  BY <1>2, SignalInv, ExpireInv
<1>3. CASE \E s \in Servers : Serve(s) \/ ServeReturns(s)
  BY <1>3, ServeInv, ServeReturnsInv
<1>4. CASE \E r \in Requests : Answer(r) \/ \E s \in Servers : Accept(r, s)
  BY <1>4, AnswerInv, AcceptInv
<1>5. CASE UNCHANGED vars
  BY <1>5 DEF vars, conns, IInv, Typed, Listed, Listening, Looped, Drained, Alive,
     CleanExitAnswersAll
<1> QED BY <1>1, <1>2, <1>3, <1>4, <1>5 DEF Next, Exited

\* At every moment servers, requests and the loop of Shutdown fit together.
THEOREM Invariance == Spec => []IInv
<1> QED BY InitInv, NextInv, PTL DEF Spec

\* A process that reports a clean end has cut nothing off.
THEOREM CleanExit == Spec => []CleanExitAnswersAll
<1>1. IInv => CleanExitAnswersAll
  BY DEF IInv, Alive
<1> QED BY <1>1, Invariance, PTL

\* Who is killed had the whole time, or met the start of the process.
THEOREM GraceKept == Spec => KilledOnlyAfterGrace
<1>1. IInv /\ [Next]_vars =>
        [(\E r \in Requests : req[r] = "active" /\ req'[r] = "killed")
           => expired \/ main \in {"start", "started"}]_vars
  <2> SUFFICES ASSUME IInv, Next, NEW r \in Requests, req[r] = "active", req'[r] = "killed",
                      main \notin {"start", "started"}
               PROVE  expired
    OBVIOUS
  <2>1. EndShutdown \/ Wait
    BY DEF Next, MainStep, AppendServers, Listen, StartServing, StartReturns, Notify, Serve,
       ServeReturns, Accept, Answer, Signal, BeginShutdown, ShutdownReturns, Expire, Exited,
       conns, vars, IInv, Typed
  <2>2. CASE EndShutdown
    BY <2>2 DEF EndShutdown, Exit, IInv, Drained
  <2>3. CASE Wait
    <3>1. at[r] \notin ToSet(queue) /\ at[r] \in down /\ ~failed
      BY <2>3, EmptyQueue DEF Wait, IInv, Listed, Looped
    <3> QED BY <3>1 DEF IInv, Drained
  <2> QED BY <2>1, <2>2, <2>3
<1> QED BY <1>1, Invariance, PTL DEF Spec, KilledOnlyAfterGrace

\* The loop of Shutdown ends with every server shut down.
THEOREM AllShutDown == Spec => AllAreShutDown
<1>1. IInv /\ [Next]_vars =>
        [main = "shutdown" /\ main' # "shutdown" => down = ToSet(servers)]_vars
  <2> SUFFICES ASSUME IInv, Next, main = "shutdown", main' # "shutdown"
               PROVE  down = ToSet(servers)
    OBVIOUS
  <2>1. EndShutdown
    BY DEF Next, MainStep, AppendServers, Listen, StartServing, StartReturns, Notify, Serve,
       ServeReturns, Accept, Answer, Signal, BeginShutdown, ShutdownReturns, Wait, Expire,
       Exited, vars
  <2> QED BY <2>1, EmptyQueue DEF EndShutdown, IInv, Looped
<1> QED BY <1>1, Invariance, PTL DEF Spec, AllAreShutDown

-----------------------------------------------------------------------------
(* Types                                                                    *)

\* What the type invariant says beyond Typed: no server is listed twice, and a
\* goroutine serves only what listened.
Group == {g \in Seq(Servers) : IsInjective(g)}
Bounds ==
  /\ todo \in Seq(Group)
  /\ servers \in Group /\ queue \in Seq(Servers)
  /\ \A s \in Servers : serve[s] # "none" => listener[s] # "none"
  /\ signalled \in BOOLEAN /\ faults \in 0..MaxFaults

\* A sequence is one over every set its elements belong to.
LEMMA SeqOver ==
  ASSUME NEW S, NEW T, NEW q \in Seq(S), \A k \in DOMAIN q : q[k] \in T
  PROVE  q \in Seq(T)
<1>1. Len(q) \in Nat /\ DOMAIN q = 1..Len(q) /\ q \in [1..Len(q) -> S]
  OBVIOUS
<1>2. q \in [1..Len(q) -> T]
  BY <1>1
<1> QED BY <1>1, <1>2, SeqDef

\* A configuration consists of groups of servers.
LEMMA ConfigType ==
  ASSUME NEW groups \in Configs
  PROVE  groups \in Seq(Group)
<1>1. groups \in Seq(Seq(STRING) \ {<<>>})
  BY ServerAssumption
<1>2. ASSUME NEW k \in DOMAIN groups
      PROVE  groups[k] \in Group
  <2>1. groups[k] \in Seq(STRING) /\ IsInjective(groups[k])
    BY <1>1, <1>2, ServerAssumption
  <2>2. ASSUME NEW i \in DOMAIN groups[k]
        PROVE  groups[k][i] \in Servers
    BY <1>2, <2>2 DEF Servers, ToSet
  <2>3. groups[k] \in Seq(Servers)
    BY <2>1, <2>2, SeqOver
  <2> QED BY <2>1, <2>3 DEF Group
<1> QED BY <1>1, <1>2, SeqOver

\* Two groups without a common server make a list without repetition.
LEMMA Appended ==
  ASSUME NEW p \in Group, NEW q \in Group, ToSet(q) \cap ToSet(p) = {}
  PROVE  p \o q \in Group
<1>1. /\ p \in Seq(Servers) /\ q \in Seq(Servers)
      /\ IsInjective(p) /\ IsInjective(q)
  BY DEF Group
<1>2. /\ p \o q \in Seq(Servers) /\ DOMAIN (p \o q) = 1..(Len(p) + Len(q))
      /\ Len(p) \in Nat /\ Len(q) \in Nat
      /\ DOMAIN p = 1..Len(p) /\ DOMAIN q = 1..Len(q)
      /\ \A i \in 1..(Len(p) + Len(q)) :
           (p \o q)[i] = IF i <= Len(p) THEN p[i] ELSE q[i - Len(p)]
  BY <1>1
<1>3. ASSUME NEW i \in 1..Len(p), NEW j \in 1..Len(q)
      PROVE  p[i] # q[j]
  <2>1. p[i] \in ToSet(p) /\ q[j] \in ToSet(q)
    BY <1>2 DEF ToSet
  <2> QED BY <2>1
<1>4. ASSUME NEW i \in DOMAIN (p \o q), NEW j \in DOMAIN (p \o q), (p \o q)[i] = (p \o q)[j]
      PROVE  i = j
  <2>1. CASE i <= Len(p) /\ j <= Len(p)
    BY <1>1, <1>2, <1>4, <2>1 DEF IsInjective
  <2>2. CASE i <= Len(p) /\ ~(j <= Len(p))
    BY <1>2, <1>3, <1>4, <2>2
  <2>3. CASE ~(i <= Len(p)) /\ j <= Len(p)
    BY <1>2, <1>3, <1>4, <2>3
  <2>4. CASE ~(i <= Len(p)) /\ ~(j <= Len(p))
    <3>1. /\ i - Len(p) \in DOMAIN q /\ j - Len(p) \in DOMAIN q
          /\ q[i - Len(p)] = q[j - Len(p)]
      BY <1>2, <1>4, <2>4
    <3>2. i - Len(p) = j - Len(p)
      BY <1>1, <3>1 DEF IsInjective
    <3> QED BY <1>2, <3>2
  <2> QED BY <2>1, <2>2, <2>3, <2>4
<1> QED BY <1>2, <1>4 DEF Group, IsInjective

LEMMA InitBounds == Init => Bounds
<1> SUFFICES ASSUME Init PROVE Bounds
  OBVIOUS
<1>1. todo \in Seq(Group)
  BY ConfigType DEF Init
<1>2. <<>> \in Group /\ <<>> \in Seq(Servers)
  BY DEF Group, IsInjective
<1>3. 0 \in 0..MaxFaults
  BY ServerAssumption
<1>4. \A s \in Servers : serve[s] # "none" => listener[s] # "none"
  BY DEF Init
<1> QED BY <1>1, <1>2, <1>3, <1>4 DEF Init, Bounds

\* The list of servers grows by groups, and each group listens before it serves.
LEMMA BoundsKept == IInv /\ Bounds /\ [Next]_vars => Bounds'
<1> SUFFICES ASSUME IInv, Bounds, [Next]_vars PROVE Bounds'
  OBVIOUS
<1> USE DEF conns
<1>1. CASE AppendServers
  <2>1. Head(todo) \in Group
    BY <1>1, HeadAndTail DEF AppendServers, Bounds
  <2>2. servers' \in Group
    BY <1>1, <2>1, Appended DEF AppendServers, Bounds
  <2> QED BY <1>1, <2>2 DEF AppendServers, Bounds
<1>2. CASE Listen
  BY <1>2 DEF Listen, Exit, Bounds, IInv, Typed
<1>3. CASE StartServing
  <2>1. Tail(todo) \in Seq(Group)
    BY <1>3, HeadAndTail DEF StartServing, Bounds
  <2>2. \A s \in ToSet(Head(todo)) : listener[s] # "none"
    BY <1>3 DEF StartServing, Unlistened, ToSet
  <2>3. \A s \in Servers : serve'[s] # "none" => listener'[s] # "none"
    BY <1>3, <2>2 DEF StartServing, Bounds
  <2> QED BY <1>3, <2>1, <2>3 DEF StartServing, Bounds
<1>4. CASE \E s \in Servers : Serve(s) \/ ServeReturns(s)
  BY <1>4, ServerAssumption DEF Serve, ServeReturns, Bounds, IInv, Typed
<1>5. CASE Signal
  <2>1. servers \in Seq(Servers)
    BY DEF Bounds, Group
  <2> QED BY <1>5, <2>1 DEF Signal, Exit, Bounds
<1>6. CASE BeginShutdown \/ ShutdownReturns
  <2>1. Tail(queue) \in Seq(Servers)
    BY <1>6, HeadAndTail DEF BeginShutdown, ShutdownReturns, Bounds
  <2>2. \A s \in Servers : serve'[s] # "none" => listener'[s] # "none"
    BY <1>6 DEF BeginShutdown, ShutdownReturns, CloseListener, Bounds, IInv, Typed
  <2> QED BY <1>6, <2>1, <2>2 DEF BeginShutdown, ShutdownReturns, CloseListener, Bounds
<1>7. CASE \/ StartReturns \/ Notify \/ EndShutdown \/ Wait \/ Expire \/ UNCHANGED vars
           \/ \E r \in Requests : Answer(r) \/ \E s \in Servers : Accept(r, s)
  BY <1>7 DEF StartReturns, Notify, EndShutdown, Wait, Expire, Answer, Accept, Bounds, vars
<1> QED BY <1>1, <1>2, <1>3, <1>4, <1>5, <1>6, <1>7 DEF Next, MainStep, Exited

\* Every reachable state is well typed: no server is listed twice, only listed
\* servers that listened are served, and Shutdown has begun with listed ones.
THEOREM TypeCorrect == Spec => []TypeOK
<1>1. IInv /\ Bounds => TypeOK
  BY DEF IInv, Typed, Listed, Looped, Bounds, Group, TypeOK
<1>2. Spec => []Bounds
  BY InitBounds, BoundsKept, Invariance, PTL DEF Spec
<1> QED BY <1>1, <1>2, Invariance, PTL
=============================================================================
