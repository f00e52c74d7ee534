---------------------------- MODULE SchedulerLease ----------------------------
(***************************************************************************)
(* What the scheduler's advisory lock promises, whatever takes and frees   *)
(* it: the processes that schedule or sweep, and those whose connection    *)
(* the database server has ended behind their back.  A process whose       *)
(* connection stands becomes active only while every other active one has  *)
(* lost its own.                                                           *)
(***************************************************************************)
CONSTANT Members
VARIABLES active, severed

leaseVars == <<active, severed>>

LeaseInit == active = {} /\ severed = {}

Begin(p) ==
    /\ p \notin active /\ (p \notin severed => active \subseteq severed)
    /\ active' = active \cup {p} /\ UNCHANGED severed

\* A process may end with its connection, or before it.
End(p) ==
    /\ active' = active \ {p}
    /\ severed' \in {severed, severed \ {p}}

Sever(p) == severed' = severed \cup {p} /\ UNCHANGED active

\* Only a process that does not schedule gets a new connection.
Reconnect(p) == p \notin active /\ severed' = severed \ {p} /\ UNCHANGED active

LeaseNext == \E p \in Members : Begin(p) \/ End(p) \/ Sever(p) \/ Reconnect(p)

LeaseSpec == LeaseInit /\ [][LeaseNext]_leaseVars

\* Two active processes: the server has ended the connection of one of them.
Exclusion == \A p, q \in active : p # q => p \in severed \/ q \in severed
===============================================================================
