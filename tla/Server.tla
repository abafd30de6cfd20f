------------------------------- MODULE Server -------------------------------
(***************************************************************************)
(* The life cycle of a Server (server.go): the goroutine that runs         *)
(* ListenAndServe, one goroutine per accepted connection, and the          *)
(* goroutines that call Shutdown.  They share the listener, the channel    *)
(* closedListener, the wait group and the connection counter.  What a      *)
(* connection says is in module Session; here it is only the state its     *)
(* handleConn loop is in.                                                  *)
(***************************************************************************)
EXTENDS Integers, FiniteSets

CONSTANTS
    Conns,      \* the connections clients may open, each accepted once
    Callers,    \* the goroutines that call Shutdown, once each
    MaxStarts,  \* bound: how often ListenAndServe is called, one after another
    MaxFaults   \* bound: failures of os.Hostname, net.Listen and Accept

ASSUME ConnsAssumption == IsFiniteSet(Conns)
ASSUME StartsAssumption == MaxStarts \in Nat
ASSUME FaultsAssumption == MaxFaults \in Nat

VARIABLES
    main,             \* program counter of the ListenAndServe goroutine
    starts,           \* calls of ListenAndServe so far
    faults,           \* failures so far
    listener,         \* s.listener: the start that made it, 0 for nil
    open,             \* the starts whose listener is open
    closedListener,   \* s.closedListener: "nil", "open" or "closed"
    state,            \* s.state
    wgConnections,    \* s.wgConnections
    countConnections, \* s.countConnections
    goroutine,        \* of a connection: where its goroutine is
    connState,        \* of a connection: conn.state, as handleConn sees it
    panicking,        \* the connections whose handler has panicked
    caller,           \* of a caller: where its Shutdown is
    seen,             \* of a caller: the listener its Shutdown has loaded
    process           \* "up", or "dead" of an unrecovered panic

mainVars == <<main, starts, faults, listener, state>>
connVars == <<wgConnections, countConnections, goroutine, connState, panicking>>
callVars == <<caller, seen>>
vars == <<mainVars, open, closedListener, connVars, callVars, process>>

CallReturned == {"early", "ok", "ctx"}

TypeOK ==
    /\ main \in {"idle", "listen", "publish", "accept", "wait", "close",
                 "returned", "failed"}
    /\ starts \in 0 .. MaxStarts /\ (main # "idle" => starts # 0)
    /\ faults \in 0 .. MaxFaults
    /\ listener \in 0 .. starts
    /\ open \subseteq 1 .. starts
    /\ closedListener \in {"nil", "open", "closed"}
    /\ state \in {"New", "StartError", "Running", "Stopped"}
    /\ wgConnections \in Nat
    /\ countConnections \in Nat
    /\ goroutine \in [Conns -> {"none", "handling", "returned", "uncounted", "done"}]
    /\ connState \in [Conns -> {"Greeting", "Cmd", "Data", "StartTLS", "Shutdown"}]
    /\ panicking \subseteq Conns
    /\ caller \in [Callers -> {"idle", "close", "waiting"} \cup CallReturned]
    /\ seen \in [Callers -> 0 .. starts]
    /\ process \in {"up", "dead"}

Init ==
    /\ main = "idle" /\ starts = 0 /\ faults = 0
    /\ listener = 0 /\ open = {} /\ closedListener = "nil"
    /\ state = "New"
    /\ wgConnections = 0 /\ countConnections = 0
    /\ goroutine = [c \in Conns |-> "none"]
    /\ connState = [c \in Conns |-> "Greeting"]
    /\ panicking = {}
    /\ caller = [k \in Callers |-> "idle"]
    /\ seen = [k \in Callers |-> 0]
    /\ process = "up"

Fault == faults < MaxFaults /\ faults' = faults + 1

crashed == process = "dead"

\* A step that the process survives.
Up == ~crashed /\ UNCHANGED process

---------------------------------------------------------------------------
(* The goroutine that calls ListenAndServe.                                *)

\* setDefaults: the channel is made once and kept by every later start.
SetDefaults ==
    closedListener' = IF closedListener = "nil" THEN "open" ELSE closedListener

Start ==
    /\ Up
    /\ main \in {"idle", "returned", "failed"}
    /\ starts < MaxStarts
    /\ starts' = starts + 1
    /\ main' = "listen"
    /\ SetDefaults
    /\ UNCHANGED <<faults, listener, state, open, connVars, callVars>>

\* os.Hostname fails: ListenAndServe returns before the channel is made.
StartFails ==
    /\ Up
    /\ main \in {"idle", "returned", "failed"}
    /\ starts < MaxStarts
    /\ starts' = starts + 1
    /\ Fault
    /\ main' = "failed"
    /\ UNCHANGED <<listener, state, open, closedListener, connVars, callVars>>

\* net.Listen has a listener; the store into s.listener comes after.
Listen ==
    /\ Up
    /\ main = "listen"
    /\ open' = open \cup {starts}
    /\ main' = "publish"
    /\ UNCHANGED <<starts, faults, listener, state, closedListener, connVars, callVars>>

ListenFails ==
    /\ Up
    /\ main = "listen"
    /\ Fault
    /\ listener' = 0
    /\ state' = "StartError"
    /\ main' = "failed"
    /\ UNCHANGED <<starts, open, closedListener, connVars, callVars>>

Publish ==
    /\ Up
    /\ main = "publish"
    /\ listener' = starts
    /\ state' = "Running"
    /\ main' = "accept"
    /\ UNCHANGED <<starts, faults, open, closedListener, connVars, callVars>>

\* Mutant: the wait group counts in the goroutine, which may not have run yet.
AcceptCountsLate(c) ==
    /\ Up
    /\ main = "accept"
    /\ listener \in open
    /\ goroutine[c] = "none"
    /\ countConnections' = countConnections + 1
    /\ goroutine' = [goroutine EXCEPT ![c] = "handling"]
    /\ UNCHANGED <<mainVars, open, closedListener, wgConnections, connState,
                   panicking, callVars>>

\* A client connects: the connection is counted before its goroutine exists.
Accept(c) ==
    /\ Up
    /\ main = "accept"
    /\ listener \in open
    /\ goroutine[c] = "none"
    /\ wgConnections' = wgConnections + 1
    /\ countConnections' = countConnections + 1
    /\ goroutine' = [goroutine EXCEPT ![c] = "handling"]
    /\ UNCHANGED <<mainVars, open, closedListener, connState, panicking, callVars>>

\* Mutant: an error of Accept is a reason to try again.
AcceptRetries ==
    /\ Up
    /\ main = "accept"
    /\ listener \notin open
    /\ UNCHANGED <<mainVars, open, closedListener, connVars, callVars>>

\* Accept returns an error, whatever the error: because Shutdown closed the
\* listener, or because of a fault that leaves the listener open.
AcceptFails ==
    /\ Up
    /\ main = "accept"
    /\ \/ listener \notin open /\ UNCHANGED faults
       \/ listener \in open /\ Fault
    /\ state' = "Stopped"
    /\ main' = "wait"
    /\ UNCHANGED <<starts, listener, open, closedListener, connVars, callVars>>

\* Mutant: nobody waits for the connections.
WaitForNobody ==
    /\ Up
    /\ main = "wait"
    /\ main' = "close"
    /\ UNCHANGED <<starts, faults, listener, state, open, closedListener, connVars, callVars>>

Wait ==
    /\ Up
    /\ main = "wait"
    /\ wgConnections = 0
    /\ main' = "close"
    /\ UNCHANGED <<starts, faults, listener, state, open, closedListener, connVars, callVars>>

\* close(s.closedListener); closing it a second time is a panic of the runtime.
CloseChannel ==
    /\ ~crashed
    /\ main = "close"
    /\ \/ /\ closedListener = "open"
          /\ closedListener' = "closed"
          /\ main' = "returned"
          /\ UNCHANGED process
       \/ /\ closedListener = "closed"
          /\ process' = "dead"
          /\ UNCHANGED <<main, closedListener>>
    /\ UNCHANGED <<starts, faults, listener, state, open, connVars, callVars>>

---------------------------------------------------------------------------
(* The goroutine of a connection: the turns of the handleConn loop, then   *)
(* the deferred calls of ListenAndServe's closure, last deferred first.    *)

isShuttingDown == closedListener = "closed"

Turn(c, from, to) ==
    /\ Up
    /\ goroutine[c] = "handling"
    /\ connState[c] = from
    /\ connState' = [connState EXCEPT ![c] = to]
    /\ UNCHANGED <<mainVars, open, closedListener, wgConnections,
                   countConnections, goroutine, panicking, callVars>>

Greet(c) == Turn(c, "Greeting", "Cmd")

\* Mutant: the channel is not looked at.
CommandAnyway(c) == \E next \in {"Data", "StartTLS"} : Turn(c, "Cmd", next)

\* A command has been read.  Only then is the channel looked at.
Command(c) ==
    \/ isShuttingDown /\ Turn(c, "Cmd", "Shutdown")
    \/ ~isShuttingDown /\ \E next \in {"Data", "StartTLS"} : Turn(c, "Cmd", next)

\* The body has been read and the handler has answered.
DataTurn(c) ==
    Turn(c, "Data", IF isShuttingDown THEN "Shutdown" ELSE "Cmd")

StartTLSTurn(c) == Turn(c, "StartTLS", "Cmd")

\* handleConn returns: the client left, quit or was cut off, a reply could
\* not be written, or the 421 of the Shutdown turn went out.
Return(c) ==
    /\ Up
    /\ goroutine[c] = "handling"
    /\ goroutine' = [goroutine EXCEPT ![c] = "returned"]
    /\ UNCHANGED <<mainVars, open, closedListener, wgConnections,
                   countConnections, connState, panicking, callVars>>

\* A handler or middleware panics with no Recover around it: the deferred
\* calls still run, and then the process dies.
HandlerPanics(c) ==
    /\ Up
    /\ goroutine[c] = "handling"
    /\ connState[c] = "Data"
    /\ goroutine' = [goroutine EXCEPT ![c] = "returned"]
    /\ panicking' = panicking \cup {c}
    /\ UNCHANGED <<mainVars, open, closedListener, wgConnections,
                   countConnections, connState, callVars>>

Uncount(c) ==
    /\ Up
    /\ goroutine[c] = "returned"
    /\ goroutine' = [goroutine EXCEPT ![c] = "uncounted"]
    /\ countConnections' = countConnections - 1
    /\ UNCHANGED <<mainVars, open, closedListener, wgConnections,
                   connState, panicking, callVars>>

Done(c) ==
    /\ Up
    /\ goroutine[c] = "uncounted"
    /\ goroutine' = [goroutine EXCEPT ![c] = "done"]
    /\ wgConnections' = wgConnections - 1
    /\ UNCHANGED <<mainVars, open, closedListener, countConnections,
                   connState, panicking, callVars>>

PanicEnds(c) ==
    /\ ~crashed
    /\ goroutine[c] = "done"
    /\ c \in panicking
    /\ process' = "dead"
    /\ UNCHANGED <<mainVars, open, closedListener, connVars, callVars>>

---------------------------------------------------------------------------
(* Shutdown, which reads s.listener with nothing that orders the read      *)
(* after ListenAndServe's write.                                           *)

SetCaller(k, to) ==
    /\ Up
    /\ caller' = [caller EXCEPT ![k] = to]
    /\ UNCHANGED <<mainVars, open, closedListener, connVars>>

\* s.listener is nil: Shutdown returns nil and leaves no trace.
ShutdownEarly(k) ==
    /\ caller[k] = "idle"
    /\ listener = 0
    /\ SetCaller(k, "early")
    /\ UNCHANGED seen

\* s.listener is not nil.  A read that races with the first Publish may see
\* the type word of the interface without its pointer: not nil, and Close on
\* it does nothing.
ShutdownLoad(k) ==
    /\ caller[k] = "idle"
    /\ listener # 0 \/ main = "publish"
    /\ SetCaller(k, "close")
    /\ seen' = [seen EXCEPT ![k] = listener]

\* Mutant: Shutdown tells the connections, too, that the server stops.
ShutdownCloseTells(k) ==
    /\ Up
    /\ caller[k] = "close"
    /\ caller' = [caller EXCEPT ![k] = "waiting"]
    /\ open' = open \ {seen[k]}
    /\ closedListener' = "closed"
    /\ UNCHANGED <<mainVars, connVars, seen>>

ShutdownClose(k) ==
    /\ Up
    /\ caller[k] = "close"
    /\ caller' = [caller EXCEPT ![k] = "waiting"]
    /\ open' = open \ {seen[k]}
    /\ UNCHANGED <<mainVars, closedListener, connVars, seen>>

ShutdownNil(k) ==
    /\ caller[k] = "waiting"
    /\ closedListener = "closed"
    /\ SetCaller(k, "ok")
    /\ UNCHANGED seen

ContextDone(k) ==
    /\ caller[k] = "waiting"
    /\ SetCaller(k, "ctx")
    /\ UNCHANGED seen

---------------------------------------------------------------------------

MainStep == \/ Start \/ StartFails \/ Listen \/ ListenFails \/ Publish
            \/ AcceptFails \/ Wait \/ CloseChannel

ConnStep(c) == \/ Accept(c)
               \/ Greet(c) \/ Command(c) \/ DataTurn(c) \/ StartTLSTurn(c)
               \/ Return(c) \/ HandlerPanics(c)
               \/ Uncount(c) \/ Done(c) \/ PanicEnds(c)

CallStep(k) == \/ ShutdownEarly(k) \/ ShutdownLoad(k) \/ ShutdownClose(k)
               \/ ShutdownNil(k) \/ ContextDone(k)

Next == \/ MainStep
        \/ \E c \in Conns : ConnStep(c)
        \/ \E k \in Callers : CallStep(k)

Spec == Init /\ [][Next]_vars

\* The Go scheduler runs every goroutine that can run.  When clients leave or
\* a handler returns is not the server's to decide: Return is fair because
\* the README's assumption on clients says so, ContextDone is not.
Fairness ==
    /\ WF_vars(Listen) /\ WF_vars(Publish) /\ WF_vars(Wait) /\ WF_vars(CloseChannel)
    /\ WF_vars(AcceptFails /\ listener \notin open)
    /\ \A c \in Conns :
         /\ WF_vars(Return(c))
         /\ WF_vars(Uncount(c) \/ Done(c))
         /\ WF_vars(PanicEnds(c))
    /\ \A k \in Callers : WF_vars(ShutdownClose(k) \/ ShutdownNil(k))

FairSpec == Spec /\ Fairness

---------------------------------------------------------------------------
(* Properties.                                                             *)

Active(c) == goroutine[c] \in {"handling", "returned", "uncounted"}

\* The wait group and the counter are what the goroutines make them: the wait
\* group holds every connection whose last deferred call has not run, the
\* counter every connection whose counting one has not (server.go:196-205).
CountersMatch ==
    /\ wgConnections = Cardinality({c \in Conns : Active(c)})
    /\ countConnections =
          Cardinality({c \in Conns : goroutine[c] \in {"handling", "returned"}})

\* In a server started once, a Shutdown that waited and returned nil has left
\* no connection being served and no handler at work (server.go:187-191, 217).
ShutdownNilMeansDrained ==
    starts <= 1 /\ (\E k \in Callers : caller[k] = "ok")
        => countConnections = 0 /\ ~ \E c \in Conns : Active(c)

\* In a server started once the states of server.go:311-314, 606-608 and
\* 637-640 are dead code: the channel isShuttingDown looks at is closed after
\* the last connection has gone, so nobody is ever answered 421.
NobodyTurnedAway ==
    starts <= 1 => \A c \in Conns : connState[c] # "Shutdown"

\* Every start: closedListener is closed by a step that finds the connections
\* drained, those whose handler panicked included (server.go:189-190).
ClosesOnlyWhenDrained ==
    [][closedListener = "open" /\ closedListener' = "closed"
         => \A c \in Conns : ~Active(c)]_vars

\* A server that has stopped takes no mail again, although it may be started
\* again: whoever it then serves is greeted and turned away.  And the process
\* dies of a handler's panic, or when a server stops for the second time, but
\* never of one stop, whatever callers and faults bring it about
\* (server.go:120-122, 183-191, 209-235, 310-314).
StopIsFinal ==
    /\ closedListener = "closed" =>
          \A c \in Conns : goroutine[c] = "handling"
                             => connState[c] \in {"Greeting", "Cmd", "Shutdown"}
    /\ crashed => \/ \E c \in panicking : goroutine[c] = "done"
                  \/ starts > 1 /\ closedListener = "closed"

\* Where a connection is in its life, for ConnLifecycle.
Standing(c) == IF goroutine[c] = "none" THEN "none"
               ELSE IF goroutine[c] = "handling" THEN connState[c] ELSE "ended"

CL(c) == INSTANCE ConnLifecycle WITH
            st <- Standing(c), stopping <- closedListener = "closed"

LifeStep(c) == CL(c)!Next \/ UNCHANGED CL(c)!vars

\* Every connection lives the life ConnLifecycle promises, under restarts too
\* (the loop of server.go:277-644 with isShuttingDown, 228-235).
LifecycleImplemented ==
    /\ \A c \in Conns : CL(c)!Init
    /\ [][\A c \in Conns : LifeStep(c)]_vars

\* Once the listener it accepts on is closed, ListenAndServe returns if the
\* clients leave (or the process dies of a panic) (server.go:183-191).  It
\* releases every Shutdown that closed a listener, even one with a context
\* that is never done (212-219).
StopCompletes ==
    /\ main = "accept" /\ listener \notin open ~> main = "returned" \/ crashed
    /\ \A k \in Callers :
          caller[k] = "waiting" /\ seen[k] # 0 ~> caller[k] \in CallReturned \/ crashed

---------------------------------------------------------------------------
(* What the documentation says and the code does not do.                   *)

\* server.go:161, "Will block unless there is an error or Server.Shutdown() is
\* called": when Shutdown has returned, ListenAndServe does not go on serving.
ShutdownEndsServing ==
    (\E k \in Callers : caller[k] \in CallReturned) /\ main = "accept"
        ~> main # "accept" \/ crashed
=============================================================================
