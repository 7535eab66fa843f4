-------------------------------- MODULE MainLoop -------------------------------
(***************************************************************************)
(* RunForever and RunOnce over several node groups, in every process of an *)
(* election: the controller is built when the process leads; a pass        *)
(* refreshes the provider's copies of the groups, or rebuilds the          *)
(* provider, and scans the groups one after the other.  What a scan does   *)
(* is NodeGroupController; here it may last, fail, or meet a group that is *)
(* not there.                                                              *)
(***************************************************************************)
EXTENDS LeaderElection, Sequences

CONSTANTS
    Groups,       \* node_groups of the configuration, in their order
    MaxRebuilds   \* how often a pass rebuilds the provider: 2

Group == {Groups[i] : i \in 1..Len(Groups)}

ASSUME LoopAssumption ==
    /\ MaxRebuilds \in Nat \ {0}
    /\ Groups \in Seq(Group) /\ Len(Groups) > 0

VARIABLES
    loop,      \* where the main goroutine is
    tries,     \* rebuilds in this pass
    todo,      \* groups this pass has not scanned
    known,     \* the provider's node groups
    fresh,     \* those whose copy was read in this pass
    tick,      \* the ticker's channel holds a tick
    stopping,  \* stopChan is closed
    cloud      \* auto scaling groups that exist

loopVars == <<loop, tries, todo, known, fresh, tick, stopping, cloud>>
vars == <<electionVars, loopVars>>

LoopTypeOK ==
    /\ ElectionTypeOK
    /\ loop \in [Process -> {"off", "refresh", "build", "scan", "idle"}]
    /\ tries \in [Process -> 0..MaxRebuilds]
    /\ todo \in [Process -> {SubSeq(Groups, i, Len(Groups)) : i \in 1..(Len(Groups) + 1)}]
    /\ known \in [Process -> SUBSET Group] /\ fresh \in [Process -> SUBSET Group]
    /\ tick \in [Process -> BOOLEAN] /\ stopping \in [Process -> BOOLEAN]
    /\ cloud \in SUBSET Group

Init ==
    /\ ElectionInit
    /\ loop = [p \in Process |-> "off"]
    /\ tries = [p \in Process |-> 0] /\ todo = [p \in Process |-> <<>>]
    /\ known = [p \in Process |-> {}] /\ fresh = [p \in Process |-> {}]
    /\ tick = [p \in Process |-> FALSE] /\ stopping = [p \in Process |-> FALSE]
    /\ cloud = Group

--------------------------------------------------------------------------------
(* A process ends, from wherever its goroutines are.                       *)

Ends(p) ==
    /\ End(p)
    /\ loop' = [loop EXCEPT ![p] = "off"]
    /\ tries' = [tries EXCEPT ![p] = 0] /\ todo' = [todo EXCEPT ![p] = <<>>]
    /\ known' = [known EXCEPT ![p] = {}] /\ fresh' = [fresh EXCEPT ![p] = {}]
    /\ tick' = [tick EXCEPT ![p] = FALSE] /\ stopping' = [stopping EXCEPT ![p] = FALSE]
    /\ UNCHANGED cloud

Crash(p) == Fault /\ Ends(p)

\* awaitLeaderDeposed: log.Fatal
Deposed(p) == role[p] = "deposed" /\ Ends(p) /\ UNCHANGED faults

--------------------------------------------------------------------------------
(* RunOnce.                                                                *)

\* A pass begins with a refresh.
BeginPass(p) ==
    /\ loop' = [loop EXCEPT ![p] = "refresh"]
    /\ tries' = [tries EXCEPT ![p] = 0] /\ fresh' = [fresh EXCEPT ![p] = {}]

\* startedLeading: NewController builds the provider and finds every group; the first
\* pass follows at once.
StartController(p) ==
    /\ Acting(p) /\ loop[p] = "off" /\ cloud = Group
    /\ known' = [known EXCEPT ![p] = Group]
    /\ BeginPass(p)
    /\ UNCHANGED <<electionVars, todo, tick, stopping, cloud>>

\* A group is missing, or the cloud does not answer: log.Fatal.
StartFails(p) ==
    /\ Acting(p) /\ loop[p] = "off"
    /\ Ends(p)
    /\ Fault \/ (cloud # Group /\ UNCHANGED faults)

\* Every group of the configuration is to be scanned, whatever the provider knows.
ScanFrom(p) == loop' = [loop EXCEPT ![p] = "scan"] /\ todo' = [todo EXCEPT ![p] = Groups]

\* Refresh updates the copies of the groups that are in the answer; the others stay.
Refresh(p) ==
    /\ loop[p] = "refresh"
    /\ fresh' = [fresh EXCEPT ![p] = known[p] \cap cloud]
    /\ ScanFrom(p)
    /\ UNCHANGED <<electionVars, tries, known, tick, stopping, cloud>>

\* A provider without groups asks for all of them: RegisterNodeGroups has no
\* configuration for what it gets, and panics.
RefreshPanics(p) ==
    /\ loop[p] = "refresh" /\ known[p] = {}
    /\ Ends(p) /\ UNCHANGED faults

\* Mutant: the provider is not rebuilt.
RefreshFails_NoRebuild(p) ==
    /\ loop[p] = "refresh"
    /\ ScanFrom(p)
    /\ UNCHANGED <<electionVars, tries, known, fresh, tick, stopping, cloud>>

\* Mutant: one rebuild too many.
RefreshFails_OffByOne(p) ==
    /\ loop[p] = "refresh"
    /\ IF tries[p] <= MaxRebuilds
       THEN loop' = [loop EXCEPT ![p] = "build"] /\ UNCHANGED todo
       ELSE ScanFrom(p)
    /\ UNCHANGED <<electionVars, tries, known, fresh, tick, stopping, cloud>>

\* A failed refresh has the provider rebuilt; the error of the last one is dropped.
RefreshFails(p) ==
    /\ loop[p] = "refresh"
    /\ IF tries[p] < MaxRebuilds
       THEN loop' = [loop EXCEPT ![p] = "build"] /\ UNCHANGED todo
       ELSE ScanFrom(p)
    /\ UNCHANGED <<electionVars, tries, known, fresh, tick, stopping, cloud>>

\* The new provider registers the groups the cloud has, and is refreshed again.
Build(p) ==
    /\ loop[p] = "build"
    /\ known' = [known EXCEPT ![p] = cloud] /\ fresh' = [fresh EXCEPT ![p] = cloud]
    /\ tries' = [tries EXCEPT ![p] = @ + 1]
    /\ loop' = [loop EXCEPT ![p] = "refresh"]
    /\ UNCHANGED <<electionVars, todo, tick, stopping, cloud>>

\* RunOnce and RunForever return the error: log.Fatal.
BuildFails(p) == loop[p] = "build" /\ Fault /\ Ends(p)

\* Mutant: an error ends the pass.
ScanGroup_ErrorEndsPass(p) ==
    /\ loop[p] = "scan" /\ Head(todo[p]) \in known[p]
    /\ \E failed \in BOOLEAN :
         /\ todo' = [todo EXCEPT ![p] = IF failed THEN <<>> ELSE Tail(@)]
         /\ loop' = [loop EXCEPT ![p] = IF failed \/ Len(todo[p]) = 1 THEN "idle" ELSE "scan"]
    /\ UNCHANGED <<electionVars, tries, known, fresh, tick, stopping, cloud>>

\* scaleNodeGroup of the next group, on the provider's copy, from which min_nodes and
\* max_nodes are taken too where they are auto-discovered.  An error is logged.
ScanGroup(p) ==
    /\ loop[p] = "scan" /\ Head(todo[p]) \in known[p]
    /\ todo' = [todo EXCEPT ![p] = Tail(@)]
    /\ loop' = [loop EXCEPT ![p] = IF Len(todo[p]) = 1 THEN "idle" ELSE "scan"]
    /\ UNCHANGED <<electionVars, tries, known, fresh, tick, stopping, cloud>>

\* "could not find node group": RunForever returns, log.Fatal.
GroupMissing(p) ==
    /\ loop[p] = "scan" /\ Head(todo[p]) \notin known[p]
    /\ Ends(p) /\ UNCHANGED faults

--------------------------------------------------------------------------------
(* RunForever.                                                             *)

\* The ticker's channel holds one tick, also while a pass runs.
Ticker(p) ==
    /\ loop[p] # "off" /\ ~tick[p]
    /\ tick' = [tick EXCEPT ![p] = TRUE]
    /\ UNCHANGED <<electionVars, loop, tries, todo, known, fresh, stopping, cloud>>

\* The select of RunForever, when it chooses the ticker, even if stopChan is closed.
NextPass(p) ==
    /\ loop[p] = "idle" /\ tick[p]
    /\ tick' = [tick EXCEPT ![p] = FALSE]
    /\ BeginPass(p)
    /\ UNCHANGED <<electionVars, todo, known, stopping, cloud>>

\* awaitStopSignal: a pass in progress is not interrupted.
StopSignal(p) ==
    /\ loop[p] # "off" /\ ~stopping[p] /\ OtherFault
    /\ stopping' = [stopping EXCEPT ![p] = TRUE]
    /\ UNCHANGED <<loop, tries, todo, known, fresh, tick, cloud>>

\* Mutant: the ticker has priority.
StopLoop_TickerFirst(p) ==
    loop[p] = "idle" /\ stopping[p] /\ ~tick[p] /\ Ends(p) /\ UNCHANGED faults

\* "main loop stopped", log.Fatal
StopLoop(p) == loop[p] = "idle" /\ stopping[p] /\ Ends(p) /\ UNCHANGED faults

\* An operator removes an auto scaling group.
RemoveGroup(g) ==
    /\ g \in cloud /\ OtherFault
    /\ cloud' = cloud \ {g}
    /\ UNCHANGED <<loop, tries, todo, known, fresh, tick, stopping>>

--------------------------------------------------------------------------------
\* The elector of a process: it tries every RetryPeriod.
Candidacy(p) == (Stand(p) \/ Observe(p) \/ \E heard \in BOOLEAN : Acquire(p, heard)) /\ UNCHANGED loopVars

Renewal(p) == (\E heard \in BOOLEAN : Renew(p, heard)) /\ UNCHANGED loopVars

GivesUp(p) == StopLeading(p) /\ UNCHANGED loopVars

Time == Second /\ UNCHANGED loopVars

\* The main goroutine's own steps, but for the select it may leave undecided.
PassStep(p) ==
    \/ StartController(p) \/ StartFails(p) \/ Refresh(p) \/ RefreshPanics(p) \/ RefreshFails(p)
    \/ Build(p) \/ BuildFails(p) \/ ScanGroup(p) \/ GroupMissing(p) \/ NextPass(p)

Next ==
    \/ Time \/ (\E i \in 1..Len(Groups) : RemoveGroup(Groups[i]))
    \/ \E p \in Process :
         \/ Candidacy(p) \/ Renewal(p) \/ GivesUp(p) \/ Crash(p) \/ Deposed(p)
         \/ PassStep(p) \/ Ticker(p) \/ StopSignal(p) \/ StopLoop(p)

\* An answer that reaches its elector.
Answered(p) == (Acquire(p, TRUE) \/ Renew(p, TRUE)) /\ UNCHANGED loopVars

\* Kubernetes restarts a container that ended, the elector and the ticker never rest, not
\* every answer is lost, and a select does not choose the ticker forever.
Fairness ==
    /\ WF_vars(Time)
    /\ \A p \in Process :
         /\ WF_vars(Candidacy(p)) /\ SF_vars(Answered(p)) /\ WF_vars(Deposed(p))
         /\ WF_vars(PassStep(p)) /\ WF_vars(Ticker(p)) /\ SF_vars(StopLoop(p))

Spec == Init /\ [][Next]_vars /\ Fairness

--------------------------------------------------------------------------------
(* Properties.                                                             *)

\* Never two processes are in their main loop, although a deposed leader goes on with its
\* pass until log.Fatal and the next leader begins without asking whether it did.
OneLoops == \A p, q \in Process : loop[p] # "off" /\ loop[q] # "off" => p = q

\* RunOnce drops the error of its last Refresh.  Even so a group is scanned on a copy read
\* in the same pass, unless the group is gone from the cloud.
ScanUsesFreshCopy ==
    [][\A p \in Process :
         loop[p] = "scan" /\ todo[p] # <<>> /\ todo'[p] = Tail(todo[p]) =>
            Head(todo[p]) \in fresh[p] \/ Head(todo[p]) \notin cloud]_vars

\* As long as no group is taken away, every group is scanned again and again, whatever
\* process crashes, loses its lease, is stopped, or cannot reach the cloud for a while.
EveryGroupIsScanned ==
    [](cloud = Group) =>
        \A i \in 1..Len(Groups) : []<>(\E p \in Process : loop[p] = "scan" /\ Head(todo[p]) = Groups[i])

\* A stop signal ends the process, also when passes outlast the scan interval, so that
\* the select of RunForever always finds a tick as well.
StopIsHeard == \A p \in Process : stopping[p] ~> ~stopping[p]
================================================================================
