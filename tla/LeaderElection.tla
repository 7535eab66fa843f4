---------------------------- MODULE LeaderElection -----------------------------
(***************************************************************************)
(* Several Escalator processes of which one may act (--leader-elect):      *)
(* cmd/main.go starts the elector of client-go, which is external, and     *)
(* scans once it leads; when the elector gives up, its context is          *)
(* cancelled and awaitLeaderDeposed ends the process, while the main       *)
(* goroutine goes on until it does.  Times are ages, so that no clock has  *)
(* to be bounded: all processes measure the same seconds.                  *)
(***************************************************************************)
EXTENDS Integers

CONSTANTS
    Process,         \* the replicas
    LeaseDuration,   \* --leader-elect-lease-duration
    RenewDeadline,   \* --leader-elect-renew-deadline
    RetryPeriod,     \* --leader-elect-retry-period
    ExitLag,         \* how long a cancelled context may take to end the process
    MaxFaults        \* bound on crashes and on renewals that fail for too long

\* A round of renewals begins RetryPeriod after the last success and lasts RenewDeadline.
GiveUp == RenewDeadline + RetryPeriod

\* The default is 15s against 10s + 2s.
ASSUME LeaseAssumption ==
    /\ {LeaseDuration, RenewDeadline, RetryPeriod, ExitLag, MaxFaults} \subseteq Nat
    /\ 0 < RetryPeriod /\ RetryPeriod < RenewDeadline /\ RenewDeadline < LeaseDuration
    /\ GiveUp + ExitLag < LeaseDuration

VARIABLES
    holder,     \* the holder in the Lease object, or none: a set
    role,       \* "down", "candidate", "leading" or "deposed"
    age,        \* how long ago the process last knew to have renewed the lease
    deposed,    \* how long ago its context was cancelled
    seen,       \* whether it has seen the record the Lease object now has
    wait,       \* how long ago it saw that record first
    faults      \* what has failed so far

electionVars == <<holder, role, age, deposed, seen, wait, faults>>

ElectionTypeOK ==
    /\ holder \subseteq Process
    /\ role \in [Process -> {"down", "candidate", "leading", "deposed"}]
    /\ age \in [Process -> Nat] /\ deposed \in [Process -> Nat]
    /\ seen \in [Process -> BOOLEAN] /\ wait \in [Process -> Nat]
    /\ faults \in Nat

ElectionInit ==
    /\ holder = {}
    /\ role = [p \in Process |-> "down"]
    /\ age = [p \in Process |-> 0] /\ deposed = [p \in Process |-> 0]
    /\ seen = [p \in Process |-> FALSE] /\ wait = [p \in Process |-> 0]
    /\ faults = 0

\* The main goroutine runs, or is on its way to.
Acting(p) == role[p] \in {"leading", "deposed"}

Fault == faults < MaxFaults /\ faults' = faults + 1

--------------------------------------------------------------------------------
\* p writes the Lease object: everybody has a new record to see.
Write(p) ==
    /\ holder' = {p}
    /\ seen' = [q \in Process |-> q = p]
    /\ wait' = [wait EXCEPT ![p] = 0]

\* A candidate reads a record that is new to it and starts to wait.
Observe(p) ==
    /\ role[p] = "candidate" /\ ~seen[p]
    /\ seen' = [seen EXCEPT ![p] = TRUE] /\ wait' = [wait EXCEPT ![p] = 0]
    /\ UNCHANGED <<holder, role, age, deposed, faults>>

\* Mutant: a lease that was once seen is taken.
Acquire_NoWait(p, heard) ==
    /\ role[p] = "candidate"
    /\ holder \subseteq {p} \/ seen[p]
    /\ Write(p)
    /\ role' = IF heard THEN [role EXCEPT ![p] = "leading"] ELSE role
    /\ age' = IF heard THEN [age EXCEPT ![p] = 0] ELSE age
    /\ UNCHANGED <<deposed, faults>>

\* A candidate takes a lease that is free, its own (a container that was restarted has the
\* POD_NAME it had), or unchanged for LeaseDuration.  The answer may be lost.
Acquire(p, heard) ==
    /\ role[p] = "candidate"
    /\ holder \subseteq {p} \/ (seen[p] /\ wait[p] >= LeaseDuration)
    /\ Write(p)
    /\ role' = IF heard THEN [role EXCEPT ![p] = "leading"] ELSE role
    /\ age' = IF heard THEN [age EXCEPT ![p] = 0] ELSE age
    /\ UNCHANGED <<deposed, faults>>

\* The leader renews; the answer may be lost.
Renew(p, heard) ==
    /\ role[p] = "leading" /\ holder = {p}
    /\ Write(p)
    /\ age' = IF heard THEN [age EXCEPT ![p] = 0] ELSE age
    /\ UNCHANGED <<role, deposed, faults>>

\* Renewals have failed for too long: OnStoppedLeading cancels the context.
StopLeading(p) ==
    /\ role[p] = "leading" /\ age[p] >= RenewDeadline
    /\ Fault
    /\ role' = [role EXCEPT ![p] = "deposed"] /\ deposed' = [deposed EXCEPT ![p] = 0]
    /\ UNCHANGED <<holder, age, seen, wait>>

\* The process ends: the lease is not released.
End(p) ==
    /\ role[p] # "down"
    /\ role' = [role EXCEPT ![p] = "down"]
    /\ age' = [age EXCEPT ![p] = 0] /\ deposed' = [deposed EXCEPT ![p] = 0]
    /\ seen' = [seen EXCEPT ![p] = FALSE] /\ wait' = [wait EXCEPT ![p] = 0]
    /\ UNCHANGED holder

\* It is started again, and stands for election.
Stand(p) ==
    /\ role[p] = "down"
    /\ role' = [role EXCEPT ![p] = "candidate"]
    /\ UNCHANGED <<holder, age, deposed, seen, wait, faults>>

\* Mutant: a leader does not give up.
OnTime_NoDeadline(p) == role[p] = "deposed" => deposed[p] < ExitLag

\* A leader gives up in time, and a deposed one is gone in time.
OnTime(p) ==
    /\ role[p] = "leading" => age[p] < GiveUp
    /\ role[p] = "deposed" => deposed[p] < ExitLag

\* A second passes.  A wait is counted up to the lease's duration, where it matters, and an
\* age while the process acts.
Second ==
    /\ \A p \in Process : OnTime(p)
    /\ age' = [p \in Process |-> IF Acting(p) THEN age[p] + 1 ELSE 0]
    /\ deposed' = [p \in Process |-> IF role[p] = "deposed" THEN deposed[p] + 1 ELSE 0]
    /\ wait' = [p \in Process |-> IF seen[p] /\ wait[p] < LeaseDuration THEN wait[p] + 1 ELSE wait[p]]
    /\ UNCHANGED <<holder, role, seen, faults>>

\* Something fails that is none of the elector's business.
OtherFault == Fault /\ UNCHANGED <<holder, role, age, deposed, seen, wait>>

ElectionNext ==
    \/ Second \/ OtherFault
    \/ \E p \in Process :
         \/ Observe(p) \/ StopLeading(p) \/ Stand(p)
         \/ \E heard \in BOOLEAN : Acquire(p, heard) \/ Renew(p, heard)
         \/ End(p) /\ (Fault \/ UNCHANGED faults)

ElectionSpec == ElectionInit /\ [][ElectionNext]_electionVars

--------------------------------------------------------------------------------
\* Why there is one: who acts holds the lease, and nobody has been waiting for longer
\* than the actor has gone without renewing.
LeaseInv ==
    \A p \in Process : Acting(p) =>
        /\ holder = {p}
        /\ age[p] <= GiveUp + deposed[p] /\ deposed[p] <= ExitLag
        /\ role[p] = "leading" => deposed[p] = 0
        /\ \A q \in Process \ {p} : seen[q] => wait[q] <= age[p]
================================================================================
