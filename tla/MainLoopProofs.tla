----------------------------- MODULE MainLoopProofs ----------------------------
(***************************************************************************)
(* Proofs about LeaderElection and MainLoop, for any number of replicas    *)
(* and of node groups.                                                     *)
(***************************************************************************)
EXTENDS MainLoop, SequenceTheorems, TLAPS

(***************************************************************************)
(* The election.                                                           *)
(***************************************************************************)

\* Who does not act has not been deposed.
RestInv == \A p \in Process : ~Acting(p) => deposed[p] = 0

ElectionInv == ElectionTypeOK /\ RestInv /\ LeaseInv

\* The lease outlasts the time a leader may go on without renewing.
LEMMA LeaseIsLonger ==
    /\ LeaseDuration \in Nat /\ ExitLag \in Nat /\ GiveUp \in Nat /\ MaxFaults \in Nat
    /\ GiveUp + ExitLag < LeaseDuration
BY LeaseAssumption DEF GiveUp

\* A candidate takes the lease only when nobody acts: of a lease that is free or its own
\* because an actor holds it, and of an old one because an actor renews it in time.
LEMMA NobodyActs ==
    ASSUME ElectionInv, NEW p \in Process, NEW heard, Acquire(p, heard)
    PROVE  \A q \in Process : ~Acting(q)
<1> SUFFICES ASSUME NEW q \in Process, Acting(q) PROVE FALSE
  OBVIOUS
<1>1. role[p] = "candidate" /\ p # q
  BY DEF Acquire, Acting
<1>2. holder = {q}
  BY DEF ElectionInv, LeaseInv
<1>3. seen[p] /\ wait[p] >= LeaseDuration
  BY <1>1, <1>2 DEF Acquire
<1>4. wait[p] <= age[q] /\ age[q] <= GiveUp + deposed[q] /\ deposed[q] <= ExitLag
  BY <1>1, <1>3 DEF ElectionInv, LeaseInv
<1>5. wait[p] \in Nat /\ age[q] \in Nat /\ deposed[q] \in Nat
  BY DEF ElectionInv, ElectionTypeOK
<1> QED  BY <1>3, <1>4, <1>5, LeaseIsLonger

\* A candidate that takes the lease, and knows or does not know it.
LEMMA AcquireElection ==
    ASSUME ElectionInv, NEW p \in Process, NEW heard \in BOOLEAN, Acquire(p, heard)
    PROVE  ElectionInv'
<1> USE DEF ElectionInv, ElectionTypeOK
<1>1. \A q \in Process : ~Acting(q) /\ deposed[q] = 0
  BY NobodyActs DEF RestInv
<1>2. /\ holder' = {p} /\ deposed' = deposed /\ faults' = faults
      /\ seen' = [q \in Process |-> q = p] /\ wait' = [wait EXCEPT ![p] = 0]
      /\ role[p] = "candidate"
      /\ role' = IF heard THEN [role EXCEPT ![p] = "leading"] ELSE role
      /\ age' = IF heard THEN [age EXCEPT ![p] = 0] ELSE age
  BY DEF Acquire, Write
<1>3. ElectionTypeOK'
  BY <1>2
<1>4. /\ \A q \in Process \ {p} : ~Acting(q)' /\ ~seen'[q] /\ deposed'[q] = 0
      /\ deposed'[p] = 0 /\ role'[p] # "deposed"
      /\ Acting(p)' => age'[p] = 0
  BY <1>1, <1>2 DEF Acting
<1>5. RestInv'
  BY <1>4 DEF RestInv
<1>6. LeaseInv'
  BY <1>2, <1>4, LeaseIsLonger DEF LeaseInv
<1> QED  BY <1>3, <1>5, <1>6

\* One replica acts at a time: the steps of the elector.
LEMMA ElectionStep ==
    ASSUME ElectionInv, [ElectionNext]_electionVars
    PROVE  ElectionInv'
<1> USE DEF ElectionInv, ElectionTypeOK
<1>1. CASE Second
  <2>1. ElectionTypeOK'
    BY <1>1 DEF Second
  <2>2. RestInv'
    BY <1>1 DEF Second, RestInv, Acting
  <2>3. LeaseInv'
    <3> SUFFICES ASSUME NEW p \in Process, Acting(p)'
                 PROVE  /\ holder' = {p}
                        /\ age'[p] <= GiveUp + deposed'[p] /\ deposed'[p] <= ExitLag
                        /\ role'[p] = "leading" => deposed'[p] = 0
                        /\ \A q \in Process \ {p} : seen'[q] => wait'[q] <= age'[p]
      BY DEF LeaseInv
    <3>1. Acting(p) /\ OnTime(p)
      BY <1>1 DEF Second, Acting
    <3>2. /\ holder = {p} /\ age[p] <= GiveUp + deposed[p] /\ deposed[p] <= ExitLag
          /\ role[p] = "leading" => deposed[p] = 0
          /\ \A q \in Process \ {p} : seen[q] => wait[q] <= age[p]
      BY <3>1 DEF LeaseInv
    <3>3. /\ age'[p] = age[p] + 1 /\ holder' = holder /\ role'[p] = role[p] /\ seen' = seen
          /\ deposed'[p] = IF role[p] = "deposed" THEN deposed[p] + 1 ELSE 0
      BY <1>1, <3>1 DEF Second
    <3>4. ASSUME NEW q \in Process \ {p}, seen'[q] PROVE wait'[q] <= age'[p]
      <4>1. wait'[q] <= wait[q] + 1
        BY <1>1 DEF Second
      <4>2. wait'[q] \in Nat /\ wait[q] \in Nat /\ age[p] \in Nat
        BY <2>1
      <4> QED  BY <3>2, <3>3, <3>4, <4>1, <4>2
    <3>5. /\ age'[p] <= GiveUp + deposed'[p] /\ deposed'[p] <= ExitLag
          /\ role'[p] = "leading" => deposed'[p] = 0
      BY <3>1, <3>2, <3>3, LeaseIsLonger DEF OnTime, Acting
    <3> QED  BY <3>2, <3>3, <3>4, <3>5
  <2> QED  BY <2>1, <2>2, <2>3
<1>2. CASE OtherFault \/ UNCHANGED electionVars
  BY <1>2 DEF OtherFault, Fault, electionVars, RestInv, LeaseInv, Acting
<1>3. ASSUME NEW p \in Process, Observe(p) PROVE ElectionInv'
  BY <1>3 DEF Observe, RestInv, LeaseInv, Acting
<1>4. ASSUME NEW p \in Process, StopLeading(p) PROVE ElectionInv'
  BY <1>4, LeaseIsLonger DEF StopLeading, Fault, RestInv, LeaseInv, Acting
<1>5. ASSUME NEW p \in Process, Stand(p) PROVE ElectionInv'
  BY <1>5 DEF Stand, RestInv, LeaseInv, Acting
<1>6. ASSUME NEW p \in Process, NEW heard \in BOOLEAN, Renew(p, heard) PROVE ElectionInv'
  <2>1. /\ holder = {p} /\ holder' = {p} /\ role' = role /\ deposed' = deposed /\ faults' = faults
        /\ seen' = [q \in Process |-> q = p] /\ wait' = [wait EXCEPT ![p] = 0]
        /\ age' = IF heard THEN [age EXCEPT ![p] = 0] ELSE age
        /\ role[p] = "leading"
    BY <1>6 DEF Renew, Write
  <2>2. ElectionTypeOK'
    BY <2>1
  <2>3. \A q \in Process : Acting(q) => q = p
    BY <2>1 DEF LeaseInv
  <2>4. /\ age'[p] <= age[p] /\ age'[p] \in Nat /\ age[p] \in Nat
        /\ \A q \in Process \ {p} : ~seen'[q]
    <3>1. age[p] \in Nat
      OBVIOUS
    <3>2. age'[p] = 0 \/ age'[p] = age[p]
      BY <2>1
    <3>3. \A q \in Process \ {p} : ~seen'[q]
      BY <2>1, Zenon
    <3> QED  BY <3>1, <3>2, <3>3
  <2>5. age[p] <= GiveUp + deposed[p] /\ deposed[p] <= ExitLag /\ deposed[p] = 0
    BY <2>1 DEF LeaseInv, Acting
  <2>6. RestInv' /\ LeaseInv'
    BY <2>1, <2>3, <2>4, <2>5, LeaseIsLonger DEF RestInv, LeaseInv, Acting
  <2> QED  BY <2>2, <2>6
<1>7. ASSUME NEW p \in Process, End(p), Fault \/ UNCHANGED faults PROVE ElectionInv'
  BY <1>7 DEF End, Fault, RestInv, LeaseInv, Acting
<1> QED  BY <1>1, <1>2, <1>3, <1>4, <1>5, <1>6, <1>7, AcquireElection DEF ElectionNext

\* The first state: nobody holds the lease.
LEMMA ElectionStart == ElectionInit => ElectionInv
BY DEF ElectionInit, ElectionInv, ElectionTypeOK, RestInv, LeaseInv, Acting

\* At most one replica acts: it holds the lease, and no candidate has waited for longer
\* than the actor has gone without renewing, whatever answers are lost, whoever crashes,
\* and while a deposed leader is on its way to log.Fatal.
THEOREM OneReplicaActs == ElectionSpec => []LeaseInv
<1>1. ElectionInv => LeaseInv
  BY DEF ElectionInv
<1> QED  BY <1>1, ElectionStart, ElectionStep, PTL DEF ElectionSpec

(***************************************************************************)
(* The main loops of the replicas.                                         *)
(***************************************************************************)

\* What a step of the main loop does to the election.
LEMMA ElectionOfNext == [Next]_vars => [ElectionNext]_electionVars
<1> SUFFICES ASSUME [Next]_vars PROVE [ElectionNext]_electionVars
  OBVIOUS
<1>1. CASE Time \/ \E i \in 1..Len(Groups) : RemoveGroup(Groups[i])
  BY <1>1 DEF Time, RemoveGroup, ElectionNext
<1>2. ASSUME NEW p \in Process, Candidacy(p) \/ Renewal(p) \/ GivesUp(p)
      PROVE  ElectionNext
  BY <1>2 DEF Candidacy, Renewal, GivesUp, ElectionNext
<1>3. ASSUME NEW p \in Process, Ends(p), Fault \/ UNCHANGED faults PROVE ElectionNext
  BY <1>3 DEF Ends, ElectionNext
<1>4. ASSUME NEW p \in Process, Crash(p) \/ Deposed(p) \/ StopLoop(p) PROVE ElectionNext
  BY <1>3, <1>4 DEF Crash, Deposed, StopLoop
<1>5. ASSUME NEW p \in Process, PassStep(p) PROVE [ElectionNext]_electionVars
  <2>1. CASE StartFails(p) \/ RefreshPanics(p) \/ BuildFails(p) \/ GroupMissing(p)
    BY <1>3, <2>1 DEF StartFails, RefreshPanics, BuildFails, GroupMissing
  <2>2. CASE \/ StartController(p) \/ Refresh(p) \/ RefreshFails(p) \/ Build(p)
             \/ ScanGroup(p) \/ NextPass(p)
    BY <2>2 DEF StartController, Refresh, RefreshFails, Build, ScanGroup, NextPass
  <2> QED  BY <1>5, <2>1, <2>2 DEF PassStep
<1>6. ASSUME NEW p \in Process, Ticker(p) \/ StopSignal(p) PROVE [ElectionNext]_electionVars
  BY <1>6 DEF Ticker, StopSignal, ElectionNext
<1>7. CASE UNCHANGED vars
  BY <1>7 DEF vars
<1> QED  BY <1>1, <1>2, <1>4, <1>5, <1>6, <1>7 DEF Next

\* The processes stand for election as LeaderElection says, whatever their loops do.
THEOREM LoopImplementsElection == Spec => ElectionSpec
<1>1. Init => ElectionInit
  BY DEF Init
<1> QED  BY <1>1, ElectionOfNext, PTL DEF Spec, ElectionSpec

\* The groups a pass has still to scan.
Suffixes == {SubSeq(Groups, i, Len(Groups)) : i \in 1..(Len(Groups) + 1)}

\* The list of a pass starts with all groups and loses the first until it is empty.
LEMMA SuffixFacts ==
    /\ <<>> \in Suffixes /\ Groups \in Suffixes /\ Groups # <<>>
    /\ \A s \in Suffixes : s # <<>> =>
         /\ Tail(s) \in Suffixes /\ Tail(s) # s
         /\ Len(s) # 1 => Tail(s) # <<>>
<1>1. Groups \in Seq(Group) /\ Len(Groups) \in Nat /\ Len(Groups) > 0
  BY LoopAssumption
<1>2. SubSeq(Groups, 1, Len(Groups)) = Groups /\ Groups # <<>>
  BY <1>1
<1>3. SubSeq(Groups, Len(Groups) + 1, Len(Groups)) = <<>>
  BY <1>1
<1>4. ASSUME NEW i \in 1..(Len(Groups) + 1), NEW s, s = SubSeq(Groups, i, Len(Groups)), s # <<>>
      PROVE  /\ Tail(s) = SubSeq(Groups, i + 1, Len(Groups)) /\ i + 1 \in 1..(Len(Groups) + 1)
             /\ Tail(s) # s
             /\ Len(s) # 1 => Tail(s) # <<>>
  <2>1. i # Len(Groups) + 1
    BY <1>3, <1>4
  <2>2. i \in 1..Len(Groups) /\ i + 1 \in 1..(Len(Groups) + 1)
    BY <1>1, <2>1
  <2>3. Len(Groups) \in i..Len(Groups) /\ Len(s) = Len(Groups) - i + 1
    BY <1>1, <1>4, <2>2
  <2>4. Tail(s) = SubSeq(Groups, i + 1, Len(Groups))
    BY <1>1, <1>4, <2>2, <2>3, HeadTailOfSubSeq
  <2>5. Len(Tail(s)) = Len(s) - 1
    BY <1>1, <2>2, <2>3, <2>4
  <2>6. Len(s) \in Nat /\ Len(<<>>) = 0
    BY <1>1, <2>2, <2>3
  <2>7. Tail(s) # s
    BY <2>5, <2>6
  <2>8. ASSUME Tail(s) = <<>> PROVE Len(s) = 1
    <3>1. Len(Tail(s)) = 0
      BY <2>6, <2>8, Zenon
    <3> QED  BY <2>5, <2>6, <3>1
  <2> QED  BY <2>2, <2>4, <2>7, <2>8
<1>5. ASSUME NEW s \in Suffixes, s # <<>>
      PROVE  Tail(s) \in Suffixes /\ Tail(s) # s /\ (Len(s) # 1 => Tail(s) # <<>>)
  <2>1. PICK i \in 1..(Len(Groups) + 1) : s = SubSeq(Groups, i, Len(Groups))
    BY DEF Suffixes
  <2> QED  BY <1>4, <1>5, <2>1 DEF Suffixes
<1>6. <<>> \in Suffixes /\ Groups \in Suffixes
  <2>1. 1 \in 1..(Len(Groups) + 1) /\ Len(Groups) + 1 \in 1..(Len(Groups) + 1)
    BY <1>1
  <2> QED  BY <1>2, <1>3, <2>1 DEF Suffixes
<1> QED  BY <1>2, <1>5, <1>6

\* Types of the loops' own variables.
LoopVarsOK ==
    /\ loop \in [Process -> {"off", "refresh", "build", "scan", "idle"}]
    /\ tries \in [Process -> 0..MaxRebuilds]
    /\ todo \in [Process -> Suffixes]
    /\ known \in [Process -> SUBSET Group] /\ fresh \in [Process -> SUBSET Group]
    /\ tick \in [Process -> BOOLEAN] /\ stopping \in [Process -> BOOLEAN]
    /\ cloud \in SUBSET Group

\* A pass that scans has a group to scan, and one that rebuilds may do so.
ScanInv ==
    \A p \in Process :
        /\ loop[p] = "scan" => todo[p] # <<>>
        /\ loop[p] = "build" => tries[p] < MaxRebuilds

\* The provider has lost no group that still exists, and has read them in this pass
\* when it comes to scan, by Refresh or by being rebuilt.
FreshInv ==
    \A p \in Process :
        /\ loop[p] # "off" => cloud \subseteq known[p]
        /\ loop[p] = "scan" \/ (loop[p] = "refresh" /\ tries[p] > 0) => cloud \subseteq fresh[p]

\* A process in its main loop leads, or is about to end.
ActInv == \A p \in Process : loop[p] # "off" => Acting(p)

LoopInv == ElectionInv /\ LoopVarsOK /\ ScanInv /\ FreshInv /\ ActInv

\* The end of a process clears what it kept.
LEMMA EndsLoop ==
    ASSUME LoopInv, NEW p \in Process, Ends(p)
    PROVE  LoopVarsOK' /\ ScanInv' /\ FreshInv' /\ ActInv'
<1> USE DEF LoopInv, LoopVarsOK
<1>1. <<>> \in Suffixes /\ 0 \in 0..MaxRebuilds
  BY SuffixFacts, LoopAssumption
<1>2. LoopVarsOK'
  BY <1>1 DEF Ends
<1>3. ScanInv' /\ FreshInv'
  BY DEF Ends, ScanInv, FreshInv
<1>4. ActInv'
  BY DEF Ends, End, ActInv, Acting, ElectionInv, ElectionTypeOK
<1> QED  BY <1>2, <1>3, <1>4

\* A step of the election that ends no process takes nobody out of office.
LEMMA LoopsRest ==
    ASSUME LoopInv, UNCHANGED <<loop, tries, todo, known, fresh>>,
           cloud' \subseteq cloud, LoopVarsOK',
           \A p \in Process : Acting(p) => Acting(p)'
    PROVE  LoopVarsOK' /\ ScanInv' /\ FreshInv' /\ ActInv'
BY DEF LoopInv, ScanInv, FreshInv, ActInv

\* The steps of a pass, of the ticker and of the signals.
LEMMA PassLoop ==
    ASSUME LoopInv, NEW p \in Process, PassStep(p)
    PROVE  LoopVarsOK' /\ ScanInv' /\ FreshInv' /\ ActInv'
<1> USE DEF LoopInv, LoopVarsOK
<1>1. CASE StartFails(p) \/ RefreshPanics(p) \/ BuildFails(p) \/ GroupMissing(p)
  BY <1>1, EndsLoop DEF StartFails, RefreshPanics, BuildFails, GroupMissing
<1>2. /\ MaxRebuilds \in Nat \ {0} /\ 0 \in 0..MaxRebuilds
      /\ Groups \in Suffixes /\ Groups # <<>>
  BY SuffixFacts, LoopAssumption
<1>3. ASSUME UNCHANGED electionVars PROVE \A q \in Process : Acting(q)' = Acting(q)
  BY <1>3 DEF electionVars, Acting
<1>4. CASE StartController(p)
  <2>1. LoopVarsOK' /\ ScanInv' /\ FreshInv'
    BY <1>2, <1>4 DEF StartController, BeginPass, ScanInv, FreshInv
  <2>2. ActInv'
    BY <1>3, <1>4 DEF StartController, BeginPass, ActInv
  <2> QED  BY <2>1, <2>2
<1>5. CASE Refresh(p)
  <2>1. LoopVarsOK' /\ ScanInv' /\ FreshInv'
    BY <1>2, <1>5 DEF Refresh, ScanFrom, ScanInv, FreshInv
  <2>2. ActInv'
    BY <1>3, <1>5 DEF Refresh, ScanFrom, ActInv
  <2> QED  BY <2>1, <2>2
<1>6. CASE RefreshFails(p)
  <2>1. LoopVarsOK' /\ ScanInv' /\ FreshInv'
    <3>1. /\ loop[p] = "refresh" /\ tries[p] \in 0..MaxRebuilds
          /\ UNCHANGED <<tries, known, fresh, tick, stopping, cloud>>
      BY <1>6 DEF RefreshFails
    <3>2. CASE tries[p] < MaxRebuilds
      BY <1>6, <3>1, <3>2 DEF RefreshFails, ScanInv, FreshInv
    <3>3. CASE ~(tries[p] < MaxRebuilds)
      <4>1. loop' = [loop EXCEPT ![p] = "scan"] /\ todo' = [todo EXCEPT ![p] = Groups]
        BY <1>6, <3>3 DEF RefreshFails, ScanFrom
      <4>2. tries[p] > 0
        BY <1>2, <3>1, <3>3
      <4> QED  BY <1>2, <3>1, <4>1, <4>2 DEF ScanInv, FreshInv
    <3> QED  BY <3>2, <3>3
  <2>2. ActInv'
    BY <1>3, <1>6 DEF RefreshFails, ScanFrom, ActInv
  <2> QED  BY <2>1, <2>2
<1>7. CASE Build(p)
  <2>1. LoopVarsOK' /\ ScanInv' /\ FreshInv'
    BY <1>2, <1>7 DEF Build, ScanInv, FreshInv
  <2>2. ActInv'
    BY <1>3, <1>7 DEF Build, ActInv
  <2> QED  BY <2>1, <2>2
<1>8. CASE ScanGroup(p)
  <2>1. /\ todo[p] \in Suffixes /\ todo[p] # <<>> /\ Tail(todo[p]) \in Suffixes
        /\ Len(todo[p]) # 1 => Tail(todo[p]) # <<>>
    BY <1>8, SuffixFacts DEF ScanGroup, ScanInv
  <2>2. LoopVarsOK' /\ ScanInv' /\ FreshInv'
    BY <1>8, <2>1 DEF ScanGroup, ScanInv, FreshInv
  <2>3. ActInv'
    BY <1>3, <1>8 DEF ScanGroup, ActInv
  <2> QED  BY <2>2, <2>3
<1>9. CASE NextPass(p)
  <2>1. LoopVarsOK' /\ ScanInv' /\ FreshInv'
    BY <1>2, <1>9 DEF NextPass, BeginPass, ScanInv, FreshInv
  <2>2. ActInv'
    BY <1>3, <1>9 DEF NextPass, BeginPass, ActInv
  <2> QED  BY <2>1, <2>2
<1> QED  BY <1>1, <1>4, <1>5, <1>6, <1>7, <1>8, <1>9 DEF PassStep

\* The invariant of all replicas, their elections and their loops.
LEMMA LoopInvariant == Spec => []LoopInv
<1>1. Init => LoopInv
  <2> SUFFICES ASSUME Init PROVE LoopInv
    OBVIOUS
  <2>1. ElectionInv
    BY ElectionStart DEF Init
  <2>2. LoopVarsOK
    BY SuffixFacts, LoopAssumption DEF Init, LoopVarsOK
  <2> QED  BY <2>1, <2>2 DEF Init, LoopInv, ScanInv, FreshInv, ActInv
<1>2. LoopInv /\ [Next]_vars => LoopInv'
  <2> SUFFICES ASSUME LoopInv, [Next]_vars PROVE LoopVarsOK' /\ ScanInv' /\ FreshInv' /\ ActInv'
    BY ElectionOfNext, ElectionStep DEF LoopInv
  <2>1. CASE Time \/ UNCHANGED vars
    <3>1. UNCHANGED loopVars /\ role' = role
      BY <2>1 DEF Time, Second, vars, electionVars
    <3> QED  BY <3>1, LoopsRest DEF loopVars, LoopInv, LoopVarsOK, Acting
  <2>2. ASSUME NEW i \in 1..Len(Groups), RemoveGroup(Groups[i])
        PROVE  LoopVarsOK' /\ ScanInv' /\ FreshInv' /\ ActInv'
    BY <2>2, LoopsRest DEF RemoveGroup, OtherFault, LoopInv, LoopVarsOK, Acting
  <2>3. ASSUME NEW p \in Process, Candidacy(p) \/ Renewal(p) \/ GivesUp(p)
        PROVE  LoopVarsOK' /\ ScanInv' /\ FreshInv' /\ ActInv'
    <3>1. UNCHANGED loopVars
      BY <2>3 DEF Candidacy, Renewal, GivesUp
    <3>2. \A q \in Process : Acting(q) => Acting(q)'
      BY <2>3 DEF Candidacy, Renewal, GivesUp, Stand, Observe, Acquire, Renew, StopLeading,
                  Acting, LoopInv, ElectionInv, ElectionTypeOK
    <3> QED  BY <3>1, <3>2, LoopsRest DEF loopVars, LoopInv, LoopVarsOK
  <2>4. ASSUME NEW p \in Process, Crash(p) \/ Deposed(p) \/ StopLoop(p)
        PROVE  LoopVarsOK' /\ ScanInv' /\ FreshInv' /\ ActInv'
    BY <2>4, EndsLoop DEF Crash, Deposed, StopLoop
  <2>5. ASSUME NEW p \in Process, Ticker(p) \/ StopSignal(p)
        PROVE  LoopVarsOK' /\ ScanInv' /\ FreshInv' /\ ActInv'
    BY <2>5, LoopsRest DEF Ticker, StopSignal, OtherFault, electionVars, LoopInv, LoopVarsOK, Acting
  <2> QED  BY <2>1, <2>2, <2>3, <2>4, <2>5, PassLoop DEF Next
<1> QED  BY <1>1, <1>2, PTL DEF Spec

\* What the replicas keep has its type; above all, a pass never looks for the head of an
\* empty list of groups.
THEOREM LoopTypeCorrect == Spec => []LoopTypeOK
<1>1. LoopInv => LoopTypeOK
  BY DEF LoopInv, LoopTypeOK, ElectionInv, LoopVarsOK, Suffixes
<1> QED  BY <1>1, LoopInvariant, PTL

\* The lease excludes: as OneReplicaActs, in the composition with the main loops.
THEOREM LeaseExcludes == Spec => []LeaseInv
BY LoopImplementsElection, OneReplicaActs, PTL

\* Never two processes are in their main loop.
THEOREM OneLoopAtATime == Spec => []OneLoops
<1>1. LoopInv => OneLoops
  <2> SUFFICES ASSUME LoopInv, NEW p \in Process, NEW q \in Process,
                      loop[p] # "off", loop[q] # "off"
               PROVE  p = q
    BY DEF OneLoops
  <2>1. Acting(p) /\ Acting(q)
    BY DEF LoopInv, ActInv
  <2>2. holder = {p} /\ holder = {q}
    BY <2>1 DEF LoopInv, ElectionInv, LeaseInv
  <2> QED  BY <2>2
<1> QED  BY <1>1, LoopInvariant, PTL

\* A group that exists is scanned on a copy of the same pass, although RunOnce drops the
\* error of its last Refresh.
THEOREM ScansAreFresh == Spec => ScanUsesFreshCopy
<1>1. LoopInv => [\A p \in Process :
         loop[p] = "scan" /\ todo[p] # <<>> /\ todo'[p] = Tail(todo[p]) =>
            Head(todo[p]) \in fresh[p] \/ Head(todo[p]) \notin cloud]_vars
  BY DEF LoopInv, FreshInv
<1> QED  BY <1>1, LoopInvariant, PTL DEF ScanUsesFreshCopy
================================================================================
