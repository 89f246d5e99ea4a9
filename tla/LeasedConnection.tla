-------------------------- MODULE LeasedConnection --------------------------
(***************************************************************************)
(* What conn.py promises of its connections, whoever reconnects, abandons  *)
(* a call or shuts down: a call runs on the connection that was current    *)
(* when it began, and a connection is closed at most once, after it was    *)
(* replaced, and while nobody is inside a call on it.  It need not be      *)
(* closed at all.  ConnectionManager implements it; nothing here knows of  *)
(* the mutex, epochs or counts.                                            *)
(***************************************************************************)
EXTENDS Naturals

CONSTANTS Thread

VARIABLES
    current,  \* the connection that is handed out, or 0
    made,     \* connections opened so far: they are 1..made
    used,     \* Thread -> the connection it is inside a call on, or 0
    dead      \* closed connections

connections == <<current, made, used, dead>>

Init == current = 0 /\ made = 0 /\ used = [t \in Thread |-> 0] /\ dead = {}

Fresh == made' = made + 1 /\ current' = made'

Replace == Fresh /\ UNCHANGED <<used, dead>>

Withdraw == current' = 0 /\ UNCHANGED <<made, used, dead>>

Take(t) ==
    /\ used[t] = 0
    /\ Fresh \/ (current # 0 /\ UNCHANGED <<current, made>>)
    /\ used' = [used EXCEPT ![t] = current']
    /\ UNCHANGED dead

Return(t) == used' = [used EXCEPT ![t] = 0] /\ UNCHANGED <<current, made, dead>>

Close(c) ==
    /\ c # current /\ c \notin dead /\ \A t \in Thread : used[t] # c
    /\ dead' = dead \cup {c}
    /\ UNCHANGED <<current, made, used>>

Next ==
    \/ Replace \/ Withdraw
    \/ \E t \in Thread : Take(t) \/ Return(t)
    \/ \E c \in 1..made : Close(c)

Spec == Init /\ [][Next]_connections
=============================================================================
