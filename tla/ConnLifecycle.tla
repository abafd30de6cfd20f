--------------------------- MODULE ConnLifecycle ---------------------------
(***************************************************************************)
(* What the server promises about the life of one SMTP connection, seen    *)
(* from outside: the states of connection.go (ConnGreeting .. ConnShutdown)*)
(* and the moves between them that handleConn may make.  `stopping' is     *)
(* what isShuttingDown() answers.  Server and Session implement it.        *)
(***************************************************************************)
VARIABLES
    st,         \* where the connection is
    stopping    \* the closedListener channel has been closed

vars == <<st, stopping>>

Serving == {"Greeting", "Cmd", "Data", "StartTLS", "Shutdown"}

States == Serving \cup {"none", "ended"}

TypeOK == st \in States /\ stopping \in BOOLEAN

\* A session module starts with its connection, a server module before it.
Init == st \in {"none", "Greeting"} /\ stopping \in BOOLEAN

Move(from, to) == st = from /\ st' = to /\ UNCHANGED stopping

Accepted == Move("none", "Greeting")

Greeted == Move("Greeting", "Cmd")

\* A command that opens a new phase is obeyed only by a server that is not
\* known to be stopping.
Began == ~stopping /\ (Move("Cmd", "Data") \/ Move("Cmd", "StartTLS"))

Secured == Move("StartTLS", "Cmd")

Delivered == ~stopping /\ Move("Data", "Cmd")

\* 421: only a stopping server turns a connection away.
TurnedAway == stopping /\ (Move("Cmd", "Shutdown") \/ Move("Data", "Shutdown"))

Ended == st \in Serving /\ st' = "ended" /\ UNCHANGED stopping

Stop == ~stopping /\ stopping' = TRUE /\ UNCHANGED st

Next == \/ Accepted \/ Greeted \/ Began \/ Secured \/ Delivered
        \/ TurnedAway \/ Ended \/ Stop

Spec == Init /\ [][Next]_vars
=============================================================================
