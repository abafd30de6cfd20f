---------------------------- MODULE ServerProofs ----------------------------
(***************************************************************************)
(* Theorems about Server, for any finite set of connections, any callers   *)
(* and any bounds.                                                         *)
(***************************************************************************)
EXTENDS Server, FiniteSetTheorems, TLAPS

\* Types hold in every reachable state of the server.
LEMMA TypeInit == Init => TypeOK
BY StartsAssumption, FaultsAssumption DEF Init, TypeOK, CallReturned

---------------------------------------------------------------------------
(* The two counters.  They are natural numbers because they count, so the  *)
(* counting is part of the same induction as the types.                    *)

Busy == {c \in Conns : Active(c)}

Counted == {c \in Conns : goroutine[c] \in {"handling", "returned"}}

LEMMA Finite == IsFiniteSet(Busy) /\ IsFiniteSet(Counted)
BY ConnsAssumption, FS_Subset DEF Busy, Counted

Counting == TypeOK /\ CountersMatch

LEMMA CountingInit == Init => Counting
<1> SUFFICES ASSUME Init PROVE CountersMatch
  BY TypeInit DEF Counting
<1>1. {c \in Conns : Active(c)} = {}
  BY DEF Init, Active
<1>2. {c \in Conns : goroutine[c] \in {"handling", "returned"}} = {}
  BY DEF Init
<1> QED
  BY <1>1, <1>2, FS_EmptySet DEF CountersMatch, Init

LEMMA CountingNext == Counting /\ [Next]_vars => Counting'
<1> SUFFICES ASSUME Counting, [Next]_vars PROVE Counting'
  OBVIOUS
<1> USE StartsAssumption, FaultsAssumption DEF Counting
<1> DEFINE H == {c \in Conns : Active(c)}
           K == {c \in Conns : goroutine[c] \in {"handling", "returned"}}
<1>0. /\ IsFiniteSet(H) /\ IsFiniteSet(K)
      /\ Cardinality(H) \in Nat /\ Cardinality(K) \in Nat
      /\ wgConnections = Cardinality(H) /\ countConnections = Cardinality(K)
  BY Finite, FS_CardinalityType DEF Busy, Counted, CountersMatch
<1>1. ASSUME goroutine' = goroutine, wgConnections' = wgConnections,
             countConnections' = countConnections
      PROVE  CountersMatch'
  BY <1>1 DEF CountersMatch, Active
<1>2. CASE UNCHANGED vars
  BY <1>1, <1>2 DEF vars, mainVars, connVars, callVars, TypeOK
<1>3. CASE MainStep
  <2> USE DEF TypeOK, CallReturned, connVars, callVars, Up, Fault
  <2>1. CountersMatch'
    BY <1>1, <1>3 DEF MainStep, Start, StartFails, Listen, ListenFails,
          Publish, AcceptFails, Wait, CloseChannel
  <2>2. TypeOK'
    <3>1. CASE Start
      BY <3>1 DEF Start, SetDefaults
    <3>2. CASE StartFails
      BY <3>2 DEF StartFails
    <3>3. CASE Listen
      BY <3>3 DEF Listen
    <3>4. CASE ListenFails
      BY <3>4 DEF ListenFails
    <3>5. CASE Publish
      BY <3>5 DEF Publish
    <3>6. CASE AcceptFails
      BY <3>6 DEF AcceptFails
    <3>7. CASE Wait
      BY <3>7 DEF Wait
    <3>8. CASE CloseChannel
      BY <3>8 DEF CloseChannel
    <3> QED
      BY <1>3, <3>1, <3>2, <3>3, <3>4, <3>5, <3>6, <3>7, <3>8 DEF MainStep
  <2> QED
    BY <2>1, <2>2
<1>4. ASSUME NEW k \in Callers, CallStep(k) PROVE Counting'
  <2> USE DEF SetCaller, Up, TypeOK, mainVars, connVars, callVars, CallReturned
  <2>1. CASE ShutdownEarly(k)
    BY <1>1, <2>1 DEF ShutdownEarly
  <2>2. CASE ShutdownLoad(k)
    BY <1>1, <2>2 DEF ShutdownLoad
  <2>3. CASE ShutdownClose(k)
    BY <1>1, <2>3 DEF ShutdownClose
  <2>4. CASE ShutdownNil(k)
    BY <1>1, <2>4 DEF ShutdownNil
  <2>5. CASE ContextDone(k)
    BY <1>1, <2>5 DEF ContextDone
  <2> QED
    BY ONLY <1>4, <2>1, <2>2, <2>3, <2>4, <2>5 DEF CallStep
<1>5. ASSUME NEW c \in Conns, ConnStep(c) PROVE Counting'
  <2> USE DEF mainVars, callVars, connVars, Up
  <2>1. CASE Accept(c)
    <3>1. c \notin H /\ c \notin K
      BY <2>1 DEF Accept, Active
    <3>2. H' = H \cup {c} /\ K' = K \cup {c}
      BY <2>1 DEF Accept, Active, TypeOK
    <3>3. Cardinality(H \cup {c}) = Cardinality(H) + 1
          /\ Cardinality(K \cup {c}) = Cardinality(K) + 1
      BY <1>0, <3>1, FS_AddElement
    <3>4. wgConnections' = Cardinality(H') /\ countConnections' = Cardinality(K')
      BY <1>0, <2>1, <3>2, <3>3 DEF Accept
    <3>5. TypeOK'
      BY <2>1 DEF Accept, TypeOK
    <3> QED
      BY <3>4, <3>5 DEF CountersMatch
  <2>2. CASE Greet(c) \/ Command(c) \/ DataTurn(c) \/ StartTLSTurn(c)
    <3>1. PICK from, to \in {"Greeting", "Cmd", "Data", "StartTLS", "Shutdown"} :
             Turn(c, from, to)
      BY ONLY <2>2 DEF Greet, Command, DataTurn, StartTLSTurn
    <3>2. TypeOK'
      BY ONLY Counting, <3>1 DEF Counting, Turn, TypeOK
    <3> QED
      BY <1>1, <3>1, <3>2 DEF Turn
  <2>3. CASE Return(c) \/ HandlerPanics(c)
    <3>1. H' = H /\ K' = K
      BY <2>3 DEF Return, HandlerPanics, Active, TypeOK
    <3>2. TypeOK'
      BY <2>3 DEF Return, HandlerPanics, TypeOK
    <3> QED
      BY <1>0, <2>3, <3>1, <3>2 DEF CountersMatch, Return, HandlerPanics
  <2>4. CASE Uncount(c)
    <3>1. c \in K
      BY <2>4 DEF Uncount
    <3>2. H' = H /\ K' = K \ {c}
      BY <2>4 DEF Uncount, Active, TypeOK
    <3>3. Cardinality(K \ {c}) = Cardinality(K) - 1 /\ Cardinality(K \ {c}) \in Nat
      BY <1>0, <3>1, FS_RemoveElement, FS_CardinalityType
    <3>4. wgConnections' = Cardinality(H') /\ countConnections' = Cardinality(K')
      BY <1>0, <2>4, <3>2, <3>3 DEF Uncount
    <3>5. TypeOK'
      BY <1>0, <2>4, <3>3 DEF Uncount, TypeOK
    <3> QED
      BY <3>4, <3>5 DEF CountersMatch
  <2>5. CASE Done(c)
    <3>1. c \in H
      BY <2>5 DEF Done, Active
    <3>2. H' = H \ {c} /\ K' = K
      BY <2>5 DEF Done, Active, TypeOK
    <3>3. Cardinality(H \ {c}) = Cardinality(H) - 1 /\ Cardinality(H \ {c}) \in Nat
      BY <1>0, <3>1, FS_RemoveElement, FS_CardinalityType
    <3>4. wgConnections' = Cardinality(H') /\ countConnections' = Cardinality(K')
      BY <1>0, <2>5, <3>2, <3>3 DEF Done
    <3>5. TypeOK'
      BY <1>0, <2>5, <3>3 DEF Done, TypeOK
    <3> QED
      BY <3>4, <3>5 DEF CountersMatch
  <2>6. CASE PanicEnds(c)
    BY <1>1, <2>6 DEF PanicEnds, TypeOK
  <2> QED
    BY <1>5, <2>1, <2>2, <2>3, <2>4, <2>5, <2>6 DEF ConnStep
<1> QED
  BY <1>2, <1>3, <1>4, <1>5 DEF Next

\* The types, and the counters being what the goroutines make them
\* (server.go:196-205), for every set of connections.
THEOREM CountersCorrect == Spec => [](TypeOK /\ CountersMatch)
<1>1. Init => Counting
  BY CountingInit
<1>2. Counting /\ [Next]_vars => Counting'
  BY CountingNext
<1> QED
  BY <1>1, <1>2, PTL DEF Spec, Counting

---------------------------------------------------------------------------
(* Draining.  The invariant says where the channel closedListener is along *)
(* the program of ListenAndServe, and that a zero wait group leaves nobody *)
(* behind it.                                                              *)

Draining ==
    /\ main = "idle" => starts = 0
    /\ starts = 0 => main = "idle" /\ closedListener = "nil"
    /\ main \in {"listen", "publish", "accept", "wait", "close"}
          => closedListener # "nil"
    /\ closedListener = "nil" => \A c \in Conns : goroutine[c] = "none"
    /\ main = "close" => Busy = {}
    /\ starts <= 1 /\ closedListener = "closed" => main = "returned" /\ Busy = {}
    /\ \A k \in Callers : caller[k] = "ok" => closedListener = "closed"
    /\ starts <= 1 => \A c \in Conns : connState[c] # "Shutdown"
    /\ \A c \in Conns : goroutine[c] = "none" => connState[c] = "Greeting"

LEMMA DrainingInit == Init => Draining
BY DEF Init, Draining, Busy, Active

LEMMA ZeroIsDrained == Counting /\ wgConnections = 0 => Busy = {}
BY Finite, FS_EmptySet DEF Counting, CountersMatch, Busy

LEMMA DrainingNext == Counting /\ Draining /\ [Next]_vars => Draining'
<1> SUFFICES ASSUME Counting, Draining, [Next]_vars PROVE Draining'
  OBVIOUS
<1> TypeOK
  BY DEF Counting
<1> USE StartsAssumption DEF TypeOK, Draining, Busy, Active, mainVars, connVars, callVars, Up
<1>1. CASE UNCHANGED vars
  BY <1>1 DEF vars
<1>2. CASE MainStep
  <2>1. CASE Start \/ StartFails
    BY <2>1 DEF Start, StartFails, SetDefaults
  <2>2. CASE Listen \/ ListenFails \/ Publish \/ AcceptFails
    BY <2>2 DEF Listen, ListenFails, Publish, AcceptFails
  <2>3. CASE Wait
    BY <2>3, ZeroIsDrained DEF Wait
  <2>4. CASE CloseChannel
    BY <2>4 DEF CloseChannel
  <2> QED
    BY <1>2, <2>1, <2>2, <2>3, <2>4 DEF MainStep
<1>3. ASSUME NEW k \in Callers, CallStep(k) PROVE Draining'
  BY <1>3 DEF CallStep, ShutdownEarly, ShutdownLoad, ShutdownClose,
        ShutdownNil, ContextDone, SetCaller
<1>4. ASSUME NEW c \in Conns, ConnStep(c) PROVE Draining'
  <2>1. CASE Accept(c)
    BY <2>1 DEF Accept
  <2>2. CASE Greet(c) \/ Command(c) \/ DataTurn(c) \/ StartTLSTurn(c)
    BY <2>2 DEF Greet, Command, DataTurn, StartTLSTurn, Turn, isShuttingDown
  <2>3. CASE Return(c) \/ HandlerPanics(c)
    BY <2>3 DEF Return, HandlerPanics
  <2>4. CASE Uncount(c) \/ Done(c) \/ PanicEnds(c)
    BY <2>4 DEF Uncount, Done, PanicEnds
  <2> QED
    BY <1>4, <2>1, <2>2, <2>3, <2>4 DEF ConnStep
<1> QED
  BY <1>1, <1>2, <1>3, <1>4 DEF Next

LEMMA Drains == Spec => [](Counting /\ Draining)
<1>1. Init => Counting /\ Draining
  BY CountingInit, DrainingInit
<1>2. Counting /\ Draining /\ [Next]_vars => (Counting /\ Draining)'
  BY CountingNext, DrainingNext
<1> QED
  BY <1>1, <1>2, PTL DEF Spec

\* A Shutdown that waited and returned nil found the connections drained, in
\* a server started once (server.go:187-191, 217).
THEOREM ShutdownNilIsDrained == Spec => []ShutdownNilMeansDrained
<1>1. Counting /\ Draining => ShutdownNilMeansDrained
  <2> SUFFICES ASSUME Counting, Draining, starts <= 1,
                      NEW k \in Callers, caller[k] = "ok"
               PROVE  countConnections = 0 /\ Busy = {}
    BY DEF ShutdownNilMeansDrained, Busy
  <2>1. Busy = {}
    BY DEF Draining
  <2>2. {c \in Conns : goroutine[c] \in {"handling", "returned"}} = {}
    BY <2>1 DEF Busy, Active
  <2> QED
    BY <2>1, <2>2, FS_EmptySet DEF Counting, CountersMatch
<1> QED
  BY <1>1, Drains, PTL

\* The Shutdown state of a connection is dead code in a server started once
\* (server.go:311-314, 606-608, 637-640).
THEOREM NobodyIsTurnedAway == Spec => []NobodyTurnedAway
<1>1. Counting /\ Draining => NobodyTurnedAway
  BY DEF Draining, NobodyTurnedAway
<1> QED
  BY <1>1, Drains, PTL

\* Every close of the channel finds the connections drained (server.go:189-190).
THEOREM ChannelClosesDrained == Spec => ClosesOnlyWhenDrained
<1>1. Counting /\ Draining /\ [Next]_vars
        => [closedListener = "open" /\ closedListener' = "closed"
              => \A c \in Conns : ~Active(c)]_vars
  <2> SUFFICES ASSUME Counting, Draining, [Next]_vars,
                      closedListener = "open", closedListener' = "closed"
               PROVE  main = "close"
    BY DEF Draining, Busy
  <2> USE DEF mainVars, connVars, callVars
  <2>1. CASE UNCHANGED vars
    BY <2>1 DEF vars
  <2>2. CASE MainStep
    BY <2>2 DEF MainStep, Start, StartFails, Listen, ListenFails, Publish,
          AcceptFails, Wait, CloseChannel, SetDefaults
  <2>3. ASSUME NEW k \in Callers, CallStep(k) PROVE main = "close"
    BY <2>3 DEF CallStep, ShutdownEarly, ShutdownLoad, ShutdownClose,
          ShutdownNil, ContextDone, SetCaller
  <2>4. ASSUME NEW c \in Conns, ConnStep(c) PROVE main = "close"
    BY <2>4 DEF ConnStep, Accept, Greet, Command, DataTurn, StartTLSTurn, Turn,
          Return, HandlerPanics, Uncount, Done, PanicEnds
  <2> QED
    BY <2>1, <2>2, <2>3, <2>4 DEF Next
<1> QED
  BY <1>1, Drains, PTL DEF Spec, ClosesOnlyWhenDrained

---------------------------------------------------------------------------
(* A stop is final.                                                        *)

LEMMA FinalInit == Init => StopIsFinal
BY DEF Init, StopIsFinal, crashed

LEMMA FinalNext == Counting /\ Draining /\ StopIsFinal /\ [Next]_vars => StopIsFinal'
<1> SUFFICES ASSUME Counting, Draining, StopIsFinal, [Next]_vars PROVE StopIsFinal'
  OBVIOUS
<1> TypeOK
  BY DEF Counting
<1> USE StartsAssumption DEF TypeOK, StopIsFinal, crashed, mainVars, connVars, callVars, Up
<1>1. CASE UNCHANGED vars
  BY <1>1 DEF vars
<1>2. CASE MainStep
  <2>1. CASE Start \/ StartFails
    BY <2>1 DEF Start, StartFails, SetDefaults
  <2>2. CASE Listen \/ ListenFails \/ Publish \/ AcceptFails \/ Wait
    BY <2>2 DEF Listen, ListenFails, Publish, AcceptFails, Wait
  <2>3. CASE CloseChannel
    <3>1. main = "close" /\ \A c \in Conns : goroutine[c] # "handling"
      BY <2>3 DEF CloseChannel, Draining, Busy, Active
    <3>2. starts <= 1 => closedListener # "closed"
      BY <3>1 DEF Draining
    <3> QED
      BY <2>3, <3>1, <3>2 DEF CloseChannel
  <2> QED
    BY <1>2, <2>1, <2>2, <2>3 DEF MainStep
<1>3. ASSUME NEW k \in Callers, CallStep(k) PROVE StopIsFinal'
  BY <1>3 DEF CallStep, ShutdownEarly, ShutdownLoad, ShutdownClose,
        ShutdownNil, ContextDone, SetCaller
<1>4. ASSUME NEW c \in Conns, ConnStep(c) PROVE StopIsFinal'
  <2>1. CASE Accept(c)
    BY <2>1 DEF Accept, Draining
  <2>2. CASE Greet(c) \/ Command(c) \/ DataTurn(c) \/ StartTLSTurn(c)
    BY <2>2 DEF Greet, Command, DataTurn, StartTLSTurn, Turn, isShuttingDown
  <2>3. CASE Return(c) \/ HandlerPanics(c)
    BY <2>3 DEF Return, HandlerPanics
  <2>4. CASE Uncount(c) \/ Done(c) \/ PanicEnds(c)
    BY <2>4 DEF Uncount, Done, PanicEnds
  <2> QED
    BY <1>4, <2>1, <2>2, <2>3, <2>4 DEF ConnStep
<1> QED
  BY <1>1, <1>2, <1>3, <1>4 DEF Next

\* A server that has stopped takes no mail when it is started again, and one
\* stop does not kill the process (server.go:120-122, 183-191, 209-235).
THEOREM AStopIsFinal == Spec => []StopIsFinal
BY FinalInit, FinalNext, Drains, PTL DEF Spec

---------------------------------------------------------------------------
(* Every connection implements ConnLifecycle, under restarts too.          *)

\* The moves of ConnLifecycle.
Moved(c, from, to) == Standing(c) \in from /\ Standing(c)' \in to

LEMMA LifeMoves ==
    ASSUME NEW c \in Conns, closedListener' = closedListener,
           \/ Standing(c)' = Standing(c)
           \/ Moved(c, {"none"}, {"Greeting"})
           \/ Moved(c, {"Greeting", "StartTLS"}, {"Cmd"}) 
           \/ ~isShuttingDown /\ Moved(c, {"Cmd"}, {"Data", "StartTLS"})
           \/ ~isShuttingDown /\ Moved(c, {"Data"}, {"Cmd"})
           \/ isShuttingDown /\ Moved(c, {"Cmd", "Data"}, {"Shutdown"})
           \/ Moved(c, CL(c)!Serving, {"ended"})
    PROVE  LifeStep(c)
BY DEF LifeStep, Moved, isShuttingDown, CL!Next, CL!vars, CL!Accepted, CL!Greeted,
       CL!Began, CL!Secured, CL!Delivered, CL!TurnedAway, CL!Ended, CL!Move, CL!Serving

\* A step that leaves a connection where it is may close the channel, once.
LEMMA LifeStops ==
    ASSUME NEW c \in Conns, Standing(c)' = Standing(c),
           closedListener' = closedListener
             \/ closedListener # "closed"
    PROVE  LifeStep(c)
BY DEF LifeStep, CL!Next, CL!vars, CL!Stop

LEMMA LifeInit == Init => \A c \in Conns : CL(c)!Init
BY DEF Init, Standing, CL!Init

LEMMA LifeNext == Counting /\ Draining /\ [Next]_vars => \A c \in Conns : LifeStep(c)
<1> SUFFICES ASSUME Counting, Draining, [Next]_vars, NEW c \in Conns PROVE LifeStep(c)
  OBVIOUS
<1> TypeOK
  BY DEF Counting
<1> USE DEF mainVars, connVars, callVars, Up
<1>1. CASE UNCHANGED vars
  BY <1>1, LifeStops DEF vars, Standing
<1>2. CASE MainStep
  <2>1. Standing(c)' = Standing(c)
    BY <1>2 DEF MainStep, Start, StartFails, Listen, ListenFails, Publish,
          AcceptFails, Wait, CloseChannel, Standing
  <2>2. closedListener' = closedListener \/ closedListener # "closed"
    BY <1>2 DEF MainStep, Start, StartFails, Listen, ListenFails, Publish,
          AcceptFails, Wait, CloseChannel, SetDefaults
  <2> QED
    BY <2>1, <2>2, LifeStops
<1>3. ASSUME NEW k \in Callers, CallStep(k) PROVE LifeStep(c)
  <2>1. Standing(c)' = Standing(c) /\ closedListener' = closedListener
    BY <1>3 DEF CallStep, ShutdownEarly, ShutdownLoad, ShutdownClose,
          ShutdownNil, ContextDone, SetCaller, Standing
  <2> QED
    BY <2>1, LifeStops
<1>4. ASSUME NEW d \in Conns, ConnStep(d) PROVE LifeStep(c)
  <2>1. closedListener' = closedListener
    BY <1>4 DEF ConnStep, Accept, Greet, Command, DataTurn, StartTLSTurn, Turn,
          Return, HandlerPanics, Uncount, Done, PanicEnds
  <2>2. CASE c # d
    <3>1. Standing(c)' = Standing(c)
      BY <1>4, <2>2 DEF ConnStep, Accept, Greet, Command, DataTurn, StartTLSTurn,
            Turn, Return, HandlerPanics, Uncount, Done, PanicEnds, Standing, TypeOK
    <3> QED
      BY <2>1, <3>1, LifeStops
  <2>3. CASE c = d
    <3> USE <2>3 DEF Standing, TypeOK, Moved
    <3>1. CASE Accept(d)
      <4>1. Moved(c, {"none"}, {"Greeting"})
        BY <3>1 DEF Accept, Draining
      <4> QED
        BY <2>1, <4>1, LifeMoves
    <3>2. CASE Greet(d)
      <4>1. Moved(c, {"Greeting", "StartTLS"}, {"Cmd"})
        BY <3>2 DEF Greet, Turn
      <4> QED
        BY <2>1, <4>1, LifeMoves
    <3>3. CASE Command(d)
      <4>1. \/ ~isShuttingDown /\ Moved(c, {"Cmd"}, {"Data", "StartTLS"})
            \/ isShuttingDown /\ Moved(c, {"Cmd", "Data"}, {"Shutdown"})
        BY <3>3 DEF Command, Turn
      <4> QED
        BY <2>1, <4>1, LifeMoves
    <3>4. CASE DataTurn(d)
      <4>1. \/ ~isShuttingDown /\ Moved(c, {"Data"}, {"Cmd"})
            \/ isShuttingDown /\ Moved(c, {"Cmd", "Data"}, {"Shutdown"})
        BY <3>4 DEF DataTurn, Turn
      <4> QED
        BY <2>1, <4>1, LifeMoves
    <3>5. CASE StartTLSTurn(d)
      <4>1. Moved(c, {"Greeting", "StartTLS"}, {"Cmd"})
        BY <3>5 DEF StartTLSTurn, Turn
      <4> QED
        BY <2>1, <4>1, LifeMoves
    <3>6. CASE Return(d) \/ HandlerPanics(d)
      <4>1. Moved(c, CL(c)!Serving, {"ended"})
        BY <3>6 DEF Return, HandlerPanics, CL!Serving
      <4> QED
        BY <2>1, <4>1, LifeMoves
    <3>7. CASE Uncount(d) \/ Done(d) \/ PanicEnds(d)
      <4>1. Standing(c)' = Standing(c)
        BY <3>7 DEF Uncount, Done, PanicEnds
      <4> QED
        BY <2>1, <4>1, LifeStops
    <3> QED
      BY <1>4, <3>1, <3>2, <3>3, <3>4, <3>5, <3>6, <3>7 DEF ConnStep
  <2> QED
    BY <2>2, <2>3
<1> QED
  BY <1>1, <1>2, <1>3, <1>4 DEF Next

\* Every connection implements ConnLifecycle, whatever the other connections
\* do and however often the server is started (server.go:228-235, 277-644).
THEOREM ServerImplementsLifecycle == Spec => LifecycleImplemented
<1>1. Counting /\ Draining /\ [Next]_vars => [\A c \in Conns : LifeStep(c)]_vars
  BY LifeNext
<1> QED
  BY <1>1, LifeInit, Drains, PTL DEF Spec, LifecycleImplemented
=============================================================================
