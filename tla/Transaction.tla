---------------------------- MODULE Transaction ----------------------------
(***************************************************************************)
(* What one connection promises about mail: a transaction collects a       *)
(* sender and recipients, is given up as a whole, or is handed to the      *)
(* handler as a whole, once, and what was handed over never changes.       *)
(* Session implements it.                                                  *)
(***************************************************************************)
EXTENDS Naturals, Sequences

CONSTANTS Addrs,      \* mail addresses
          NoAddr,     \* no sender yet
          MostRcpts   \* no transaction has more recipients

VARIABLES sender, rcpts, outbox

vars == <<sender, rcpts, outbox>>

Init == sender = NoAddr /\ rcpts = <<>> /\ outbox = <<>>

Empty == sender' = NoAddr /\ rcpts' = <<>>

Begin(a) == sender = NoAddr /\ sender' = a /\ UNCHANGED <<rcpts, outbox>>

AddRcpt(a) ==
    /\ Len(rcpts) < MostRcpts
    /\ rcpts' = Append(rcpts, a)
    /\ UNCHANGED <<sender, outbox>>

GiveUp == Empty /\ UNCHANGED outbox

\* The source does not ask for a sender here.
HandOver ==
    /\ rcpts # <<>>
    /\ outbox' = Append(outbox, [sender |-> sender, rcpts |-> rcpts])
    /\ Empty

Next == \/ \E a \in Addrs : Begin(a) \/ AddRcpt(a)
        \/ GiveUp \/ HandOver

Spec == Init /\ [][Next]_vars
=============================================================================
