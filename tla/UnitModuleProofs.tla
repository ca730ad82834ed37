-------------------------- MODULE UnitModuleProofs ---------------------------
(***************************************************************************)
(* Proofs about the poll threads of inverter_module.c and ups_module.c, for*)
(* any units, paths, register maps and thresholds.  The bus coordinator is *)
(* not looked into again: its invariant is taken from BusCoordProofs, and  *)
(* what is added is where in its loop a thread holds how many levels.      *)
(***************************************************************************)
EXTENDS UnitModule, TLAPS

\* The coordinator's proofs, for poll threads that nest at most two levels.
BusProofs == INSTANCE BusCoordProofs WITH Threads <- Units, MaxDepth <- 2

\* The levels of the bus a thread has at each place.
Nesting(l) ==
  IF l \in {"seg_io", "seg_rel"} THEN 2
  ELSE IF l \in {"probe", "init_reg", "probe_fail", "probe_rel", "iseq_freq", "iseq_op",
                 "iseq_rel", "reboot_io", "reboot_rel", "drain_io", "drain_rel", "seg_acq",
                 "seg_eval", "scan_rel"} THEN 1
  ELSE 0
NestingFollowsThread == \A u \in Units : held[u] = Nesting(pc[u])

\* Where a thread is while its unit is not connected, or has ended.
ConnectLabels == {"top", "connect", "retry", "probe_acq", "probe", "init_reg", "probe_rel",
                  "probe_fail", "probe_close", "connected"}

\* A unit that reads disconnected is connecting or has ended, and a new connection
\* starts with no failure counted.
OfflineIsConnecting ==
  \A u \in Units :
    /\ conn[u] = 0 => pc[u] \in ConnectLabels \union {"exit", "done"}
    /\ pc[u] \in ConnectLabels => fails[u] = 0

\* The failure that reaches the threshold ends the scan with the pool marked; the
\* count stays there until error_callback.
ScanFailed(u) ==
  \/ pc[u] \in {"scan_rel", "scan_done"} /\ track[u] /\ ~ok[u]
  \/ pc[u] = "error"
LossIsMarked ==
  \A u \in Units :
    /\ fails[u] >= FailThreshold[u] => ScanFailed(u)
    /\ ScanFailed(u) => \A s \in Segs : pool[u][s] = "lost"

\* An inverter has no reboot sequence, and all its scans count failures.
InverterScansCount ==
  \A u \in Units : Kind[u] = "inverter" =>
    /\ ~rebootReq[u]
    /\ pc[u] \notin {"reboot_acq", "reboot_io", "reboot_rel", "reboot_next"}
    /\ pc[u] \in {"scan_acq", "seg_acq", "seg_io", "seg_rel", "seg_eval", "scan_rel",
                  "scan_done"} => track[u]

\* A read that succeeds after failures resets the count before anything else can
\* be counted.
InverterBreaksReset ==
  \A u \in Units : (Kind[u] = "inverter" /\ broken[u]) =>
    pc[u] \in {"seg_rel", "seg_eval"} /\ ok[u]

\* The inductive invariant.  That the bus is held where the *_locked helpers are
\* called is not inductive without the exact number of levels at every label; that
\* an offline unit has no live register needs the way from the failure that marks
\* the pool to error_callback.
DataInv == /\ OfflineIsConnecting /\ LossIsMarked /\ OfflineHasNoLiveData
           /\ InverterScansCount /\ InverterBreaksReset
IInv == DataTypes /\ BusProofs!IInv /\ NestingFollowsThread /\ DataInv

-----------------------------------------------------------------------------
\* The calls of the poll threads are the operations the coordinator's proofs are
\* about.
LEMMA SameOperations ==
  ASSUME NEW u
  PROVE  /\ Bus!Acquire(u) <=> BusProofs!Acquire(u)
         /\ Bus!Retry(u) <=> BusProofs!Retry(u)
         /\ Bus!Release(u) <=> BusProofs!Release(u)
         /\ Bus!SpuriousWake(u) <=> BusProofs!SpuriousWake(u)
<1> USE DEF Bus!Slots, Bus!SlotsOf, Bus!IsFirst, BusProofs!Slots, BusProofs!SlotsOf,
            BusProofs!IsFirst
<1>1. ASSUME NEW i, NEW s
      PROVE  Bus!TakeOrSleep(u, i, s) <=> BusProofs!TakeOrSleep(u, i, s)
  BY DEF Bus!TakeOrSleep, Bus!Contended, Bus!Taken, Bus!Enter, BusProofs!TakeOrSleep,
         BusProofs!Contended, BusProofs!Taken, BusProofs!Enter
<1>2. Bus!Acquire(u) <=> BusProofs!Acquire(u)
  <2>1. Bus!AcquireFound(u) <=> BusProofs!AcquireFound(u)
    BY <1>1 DEF Bus!AcquireFound, Bus!MayEnter, BusProofs!AcquireFound, BusProofs!MayEnter
  <2>2. Bus!AcquireAlloc(u) <=> BusProofs!AcquireAlloc(u)
    BY <1>1 DEF Bus!AcquireAlloc, Bus!MayEnter, Bus!NewEntry, BusProofs!AcquireAlloc,
                BusProofs!MayEnter, BusProofs!NewEntry
  <2>3. Bus!AcquireNoop(u) <=> BusProofs!AcquireNoop(u)
    BY DEF Bus!AcquireNoop, Bus!MayEnter, Bus!Enter, BusProofs!AcquireNoop,
           BusProofs!MayEnter, BusProofs!Enter
  <2> QED
    BY <2>1, <2>2, <2>3 DEF Bus!Acquire, BusProofs!Acquire
<1>3. Bus!Retry(u) <=> BusProofs!Retry(u)
  BY <1>1 DEF Bus!Retry, BusProofs!Retry
<1>4. Bus!Release(u) <=> BusProofs!Release(u)
  BY DEF Bus!Release, Bus!ReleaseOwned, Bus!ReleaseIgnored, Bus!Broadcast, Bus!OneLess,
         BusProofs!Release, BusProofs!ReleaseOwned, BusProofs!ReleaseIgnored,
         BusProofs!Broadcast, BusProofs!OneLess
<1>5. Bus!SpuriousWake(u) <=> BusProofs!SpuriousWake(u)
  BY DEF Bus!SpuriousWake, BusProofs!SpuriousWake
<1> QED
  BY <1>2, <1>3, <1>4, <1>5

\* So each of them keeps the coordinator's invariant, as does leaving it alone.
LEMMA CoordinatorKept ==
  ASSUME BusProofs!IInv, NEW u \in Units,
         \/ Bus!Acquire(u) \/ Bus!Retry(u) \/ Bus!Release(u) \/ Bus!SpuriousWake(u)
         \/ UNCHANGED busVars
  PROVE  BusProofs!IInv'
<1>1. BusProofs!Next \/ UNCHANGED BusProofs!vars
  BY SameOperations DEF BusProofs!Next, busVars, BusProofs!vars
<1> QED
  BY <1>1, BusProofs!NextIInv, UnitAssumption

\* The invariant of the coordinator types its variables.
LEMMA CoordinatorTypes ==
  ASSUME BusProofs!IInv
  PROVE  /\ Bus!TypeOK
         /\ wait \in [Units -> {"run", "sleep", "woken"}]
         /\ held \in [Units -> Nat]
  BY DEF BusProofs!IInv, BusProofs!TypeOK, BusProofs!Slots, BusProofs!Entry, Bus!TypeOK,
         Bus!Slots, Bus!Entry

\* An acquire puts its caller to sleep or gives it one more level.
LEMMA AcquireEffect ==
  ASSUME BusProofs!IInv, NEW u \in Units, Bus!Acquire(u) \/ Bus!Retry(u)
  PROVE  \/ wait'[u] = "sleep" /\ held' = held
         \/ wait'[u] = "run" /\ held' = [held EXCEPT ![u] = @ + 1]
<1>1. wait \in [Units -> {"run", "sleep", "woken"}]
  BY CoordinatorTypes
<1> QED
  BY <1>1 DEF Bus!Acquire, Bus!AcquireFound, Bus!AcquireAlloc, Bus!AcquireNoop, Bus!Retry,
              Bus!TakeOrSleep, Bus!Enter, Bus!MayEnter

\* A release takes one level from a caller that has one.
LEMMA ReleaseEffect ==
  ASSUME BusProofs!IInv, NEW u \in Units, Bus!Release(u), held[u] > 0
  PROVE  held' = [held EXCEPT ![u] = @ - 1]
<1>1. held \in [Units -> Nat]
  BY CoordinatorTypes
<1> QED
  BY <1>1 DEF Bus!Release, Bus!ReleaseOwned, Bus!ReleaseIgnored

\* Where the calls of the coordinator stand, and what they lead to.
LEMMA CallLabels ==
  /\ DOMAIN AfterAcquire = {"probe_acq", "iseq_acq", "reboot_acq", "drain_acq", "scan_acq",
                            "seg_acq"}
  /\ DOMAIN AfterRelease = {"probe_fail", "probe_rel", "iseq_rel", "reboot_rel", "drain_rel",
                            "seg_rel", "scan_rel"}
  /\ \A l \in DOMAIN AfterAcquire :
       AfterAcquire[l] \in Labels /\ Nesting(AfterAcquire[l]) = Nesting(l) + 1
  /\ \A l \in DOMAIN AfterRelease :
       /\ AfterRelease[l] \in Labels
       /\ Nesting(l) \in Nat \ {0} /\ Nesting(AfterRelease[l]) = Nesting(l) - 1
<1>1. /\ DOMAIN AfterAcquire = {"probe_acq", "iseq_acq", "reboot_acq", "drain_acq", "scan_acq",
                                "seg_acq"}
      /\ DOMAIN AfterRelease = {"probe_fail", "probe_rel", "iseq_rel", "reboot_rel",
                                "drain_rel", "seg_rel", "scan_rel"}
  BY DEF AfterAcquire, AfterRelease
<1>2. \A l \in DOMAIN AfterAcquire :
        AfterAcquire[l] \in Labels /\ Nesting(AfterAcquire[l]) = Nesting(l) + 1
  BY <1>1 DEF AfterAcquire, Labels, Nesting
<1>3. \A l \in DOMAIN AfterRelease :
        /\ AfterRelease[l] \in Labels
        /\ Nesting(l) \in Nat \ {0} /\ Nesting(AfterRelease[l]) = Nesting(l) - 1
  BY <1>1 DEF AfterRelease, Labels, Nesting
<1> QED
  BY <1>1, <1>2, <1>3

\* The labels, listed.
LEMMA LabelSet ==
  Labels = {"probe_acq", "iseq_acq", "reboot_acq", "drain_acq", "scan_acq", "seg_acq",
            "probe_fail", "probe_rel", "iseq_rel", "reboot_rel", "drain_rel", "seg_rel",
            "scan_rel", "top", "connect", "probe", "init_reg", "probe_close", "connected",
            "loop", "init_check", "iseq_freq", "iseq_op", "iseq_done", "reboot_check",
            "reboot_io", "reboot_next", "drain_check", "drain_io", "scan_start", "seg_io",
            "seg_eval", "scan_done", "pause", "retry", "error", "exit", "done"}
  BY CallLabels DEF Labels

\* A step that does not call the coordinator keeps its part of the invariant when
\* the thread goes where it holds as many levels.
LEMMA OffTheBus ==
  ASSUME IInv, UNCHANGED busVars, \A v \in Units : Nesting(pc'[v]) = Nesting(pc[v])
  PROVE  BusProofs!IInv' /\ NestingFollowsThread'
<1>1. BusProofs!IInv'
  <2>1. BusProofs!Next \/ UNCHANGED BusProofs!vars
    BY DEF busVars, BusProofs!vars
  <2> QED
    BY <2>1, BusProofs!NextIInv, UnitAssumption DEF IInv
<1> QED
  BY <1>1 DEF IInv, NestingFollowsThread, busVars

\* A function that stays is one with the value at u put back.
LEMMA Unchanged ==
  ASSUME NEW S, NEW f \in [Units -> S], NEW u \in Units
  PROVE  f = [f EXCEPT ![u] = f[u]] /\ f[u] \in S
  OBVIOUS

\* The steps of the poll threads that only go on: the loops' tests, the connect,
\* the probe's ends, the pauses and the end of an untracked scan.
LEMMA MoveIInv ==
  ASSUME IInv, NEW u \in Units,
         \/ Top(u) \/ Connect(u) \/ InitInverterReg(u) \/ ProbeClose(u) \/ Loop(u)
         \/ SegmentFailedUntracked(u) \/ Pause(u) \/ Exit(u)
  PROVE  IInv'
<1> USE UnitAssumption DEF IInv, DataInv
<1>1. /\ UNCHANGED busVars /\ UNCHANGED dataVars
      /\ \/ /\ pc[u] \in {"top", "connect", "probe_close", "retry"}
            /\ \E l \in {"top", "connect", "exit", "retry", "connected", "probe_acq"} :
                 pc' = [pc EXCEPT ![u] = l]
         \/ pc[u] = "init_reg" /\ pc' = [pc EXCEPT ![u] = "probe_rel"]
         \/ pc[u] \in {"loop", "pause"}
            /\ \E l \in {"init_check", "exit", "loop"} : pc' = [pc EXCEPT ![u] = l]
         \/ pc[u] = "seg_eval" /\ ~ok[u] /\ ~track[u] /\ pc' = [pc EXCEPT ![u] = "scan_rel"]
         \/ pc[u] = "exit" /\ pc' = [pc EXCEPT ![u] = "done"]
  BY DEF Top, Connect, InitInverterReg, ProbeClose, Loop, SegmentFailedUntracked, Pause, Exit,
         Goto
<1>2. DataTypes'
  <2>1. \E l \in Labels : pc' = [pc EXCEPT ![u] = l]
    BY <1>1, LabelSet
  <2>2. pc' \in [Units -> Labels]
    BY <2>1 DEF DataTypes
  <2> QED
    BY <1>1, <2>2 DEF DataTypes, dataVars
<1>3. OfflineIsConnecting' /\ OfflineHasNoLiveData'
  BY <1>1 DEF DataTypes, dataVars, OfflineIsConnecting, OfflineHasNoLiveData, ConnectLabels
<1>4. LossIsMarked'
  BY <1>1 DEF DataTypes, dataVars, LossIsMarked, ScanFailed
<1>5. InverterScansCount' /\ InverterBreaksReset'
  <2>1. rebootReq' = rebootReq /\ track' = track /\ broken' = broken /\ ok' = ok
    BY <1>1 DEF dataVars
  <2>2. pc \in [Units -> Labels]
    BY DEF DataTypes
  <2>3. InverterScansCount'
    BY <1>1, <2>1, <2>2 DEF InverterScansCount
  <2>4. InverterBreaksReset'
    BY <1>1, <2>1, <2>2 DEF InverterBreaksReset
  <2> QED
    BY <2>3, <2>4
<1>6. \A v \in Units : Nesting(pc'[v]) = Nesting(pc[v])
  BY <1>1 DEF Nesting, DataTypes
<1> QED
  BY <1>1, <1>2, <1>3, <1>4, <1>5, <1>6, OffTheBus

\* The probe, and the end of init_callback.  No failure is counted yet, so the
\* probe's read interrupts none.
LEMMA ConnectingIInv ==
  ASSUME IInv, NEW u \in Units, Probe(u) \/ Connected(u)
  PROVE  IInv'
<1> USE UnitAssumption DEF IInv, DataInv
<1>1. /\ UNCHANGED busVars
      /\ pool' = pool /\ initReq' = initReq /\ rebootReq' = rebootReq /\ track' = track
      /\ ok' = ok /\ initFlag' = initFlag /\ queued' = queued /\ running' = running
      /\ seg' = seg /\ stage' = stage /\ main' = main
  BY DEF Probe, Connected
<1>2. /\ pc[u] \in ConnectLabels /\ fails[u] = 0
      /\ fails' = fails
      /\ \/ /\ pc[u] = "probe" /\ conn' = conn
            /\ \E l \in {"probe_fail", "init_reg", "probe_rel"} : pc' = [pc EXCEPT ![u] = l]
         \/ /\ pc[u] = "connected" /\ conn' = [conn EXCEPT ![u] = 1]
            /\ pc' = [pc EXCEPT ![u] = "loop"]
  <2>1. pc[u] \in {"probe", "connected"} /\ fails[u] = 0
    BY DEF Probe, Connected, OfflineIsConnecting, ConnectLabels
  <2>2. Set(fails, u, 0) = fails
    BY <2>1 DEF Set, DataTypes
  <2> QED
    BY <2>1, <2>2 DEF Probe, Connected, ResetFails, Read, Set, Goto, ConnectLabels
<1>3. /\ broken' \in [Units -> BOOLEAN] /\ (broken'[u] => broken[u])
      /\ \A v \in Units \ {u} : broken'[v] = broken[v]
  <2>1. CASE Probe(u)
    <3>1. PICK good \in BOOLEAN : broken' = [broken EXCEPT ![u] = broken[u] \/ (good /\ fails[u] > 0)]
      BY <2>1 DEF Probe, Read, Set
    <3>2. (broken[u] \/ (good /\ fails[u] > 0)) <=> broken[u]
      BY <1>2
    <3> QED
      BY <3>1, <3>2 DEF DataTypes
  <2>2. CASE Connected(u)
    <3>1. broken' = [broken EXCEPT ![u] = FALSE]
      BY <2>2 DEF Connected, ResetFails, Set
    <3> QED
      BY <3>1 DEF DataTypes
  <2> QED
    BY <2>1, <2>2
<1>4. DataTypes'
  <2>1. pc' \in [Units -> Labels]
    <3>1. \E l \in Labels : pc' = [pc EXCEPT ![u] = l]
      BY <1>2, LabelSet
    <3> QED
      BY <3>1 DEF DataTypes
  <2>2. conn' \in [Units -> {0, 1}] /\ fails' \in [Units -> Nat]
    BY <1>1, <1>2 DEF DataTypes
  <2>3. /\ rebootReq' \in [Units -> BOOLEAN] /\ track' \in [Units -> BOOLEAN]
        /\ ok' \in [Units -> BOOLEAN] /\ broken' \in [Units -> BOOLEAN]
    BY <1>1, <1>2, <1>3 DEF DataTypes
  <2> QED
    BY <1>1, <1>3, <2>1, <2>2, <2>3 DEF DataTypes
<1>5. OfflineIsConnecting' /\ OfflineHasNoLiveData'
  <2>1. CASE pc[u] = "probe"
    <3>1. conn' = conn /\ fails' = fails /\ pool' = pool
          /\ \E l \in ConnectLabels : pc' = [pc EXCEPT ![u] = l]
      BY <1>1, <1>2, <2>1 DEF ConnectLabels
    <3>2. pc \in [Units -> Labels]
      BY DEF DataTypes
    <3>3. OfflineIsConnecting'
      BY <1>2, <3>1, <3>2 DEF OfflineIsConnecting
    <3> QED
      BY <3>1, <3>3 DEF OfflineHasNoLiveData
  <2>2. CASE pc[u] = "connected"
    <3>1. pc' = [pc EXCEPT ![u] = "loop"] /\ conn' = [conn EXCEPT ![u] = 1] /\ fails' = fails
      BY <1>2, <2>2
    <3>2. OfflineIsConnecting'
      BY <3>1 DEF DataTypes, OfflineIsConnecting, ConnectLabels
    <3>3. OfflineHasNoLiveData'
      BY <1>1, <3>1 DEF DataTypes, OfflineHasNoLiveData
    <3> QED
      BY <3>2, <3>3
  <2> QED
    BY <1>2, <2>1, <2>2
<1>6. LossIsMarked'
  BY <1>1, <1>2 DEF DataTypes, LossIsMarked, ScanFailed
<1>7. InverterScansCount'
  BY <1>1, <1>2 DEF DataTypes, InverterScansCount
<1>8. InverterBreaksReset'
  <2>1. pc \in [Units -> Labels]
    BY DEF DataTypes
  <2> QED
    BY <1>1, <1>2, <1>3, <2>1 DEF InverterBreaksReset
<1>9. \A v \in Units : Nesting(pc'[v]) = Nesting(pc[v])
  BY <1>2 DEF Nesting, DataTypes
<1> QED
  BY <1>1, <1>4, <1>5, <1>6, <1>7, <1>8, <1>9, OffTheBus

\* The init and reboot requests, the init sequence and the command queue: they
\* touch neither the failure count nor the pool.
LEMMA RequestStepsIInv ==
  ASSUME IInv, NEW u \in Units,
         \/ InitCheck(u) \/ InitWrite(u) \/ InitDone(u) \/ RebootCheck(u)
         \/ DrainCheck(u) \/ DrainWrite(u) \/ ScanStart(u)
  PROVE  IInv'
<1> USE UnitAssumption DEF IInv, DataInv
<1>1. /\ UNCHANGED busVars
      /\ pool' = pool /\ conn' = conn /\ fails' = fails /\ broken' = broken
      /\ running' = running /\ seg' = seg /\ stage' = stage /\ main' = main
  BY DEF InitCheck, InitWrite, InitDone, RebootCheck, DrainCheck, DrainWrite, ScanStart
<1>2. /\ pc[u] \in {"init_check", "iseq_freq", "iseq_op", "iseq_done", "reboot_check",
                    "drain_check", "drain_io", "scan_start"}
      /\ \E l \in {"iseq_acq", "scan_acq", "iseq_op", "iseq_rel", "reboot_check", "reboot_acq",
                   "drain_check", "drain_acq", "drain_io", "drain_rel", "scan_start"} :
           /\ pc' = [pc EXCEPT ![u] = l]
           /\ Nesting(l) = Nesting(pc[u])
           /\ l = "reboot_acq" => rebootReq[u]
           /\ l = "scan_acq" /\ Kind[u] = "inverter" => track' = [track EXCEPT ![u] = TRUE]
      /\ rebootReq' = rebootReq \/ rebootReq' = [rebootReq EXCEPT ![u] = FALSE]
      /\ track' = track \/ track' = [track EXCEPT ![u] = TRUE]
      /\ ok' = ok \/ \E b \in BOOLEAN : ok' = [ok EXCEPT ![u] = b]
      /\ initReq' = initReq \/ initReq' = [initReq EXCEPT ![u] = FALSE]
      /\ initFlag' = initFlag \/ \E b \in {0, 1} : initFlag' = [initFlag EXCEPT ![u] = b]
      /\ queued' = queued \/ (queued[u] > 0 /\ queued' = [queued EXCEPT ![u] = @ - 1])
  <2> USE DEF Goto, Set, Nesting
  <2>1. CASE InitCheck(u)
    BY <2>1 DEF InitCheck
  <2>2. CASE InitWrite(u)
    BY <2>2 DEF InitWrite
  <2>3. CASE InitDone(u)
    BY <2>3 DEF InitDone
  <2>4. CASE RebootCheck(u)
    BY <2>4 DEF RebootCheck
  <2>5. CASE DrainCheck(u)
    BY <2>5 DEF DrainCheck
  <2>6. CASE DrainWrite(u)
    <3>1. /\ pc[u] = "drain_io"
          /\ pc' = [pc EXCEPT ![u] = pc[u]] \/ pc' = [pc EXCEPT ![u] = "drain_rel"]
      BY <2>6, Unchanged DEF DrainWrite, DataTypes
    <3> QED
      BY <2>6, <3>1 DEF DrainWrite
  <2>7. CASE ScanStart(u)
    BY <2>7 DEF ScanStart
  <2> QED
    BY <2>1, <2>2, <2>3, <2>4, <2>5, <2>6, <2>7
<1>3. /\ initReq' \in [Units -> BOOLEAN] /\ initFlag' \in [Units -> {0, 1}]
      /\ queued' \in [Units -> 0 .. QueueCapacity]
  <2>1. initReq' \in [Units -> BOOLEAN]
    BY <1>2 DEF DataTypes
  <2>2. initFlag' \in [Units -> {0, 1}]
    BY <1>2 DEF DataTypes
  <2>3. queued' \in [Units -> 0 .. QueueCapacity]
    <3>1. queued \in [Units -> 0 .. QueueCapacity]
      BY DEF DataTypes
    <3>2. queued[u] > 0 => queued[u] - 1 \in 0 .. QueueCapacity
      BY <3>1
    <3> QED
      BY <1>2, <3>1, <3>2
  <2> QED
    BY <2>1, <2>2, <2>3
<1>4. DataTypes'
  <2>1. pc' \in [Units -> Labels]
    BY <1>2, LabelSet DEF DataTypes
  <2>2. conn' \in [Units -> {0, 1}] /\ fails' \in [Units -> Nat]
    BY <1>1, <1>2 DEF DataTypes
  <2>3. /\ rebootReq' \in [Units -> BOOLEAN] /\ track' \in [Units -> BOOLEAN]
        /\ ok' \in [Units -> BOOLEAN] /\ broken' \in [Units -> BOOLEAN]
    <3>1. rebootReq' \in [Units -> BOOLEAN]
      BY <1>2 DEF DataTypes
    <3>2. track' \in [Units -> BOOLEAN]
      BY <1>2 DEF DataTypes
    <3>3. ok' \in [Units -> BOOLEAN]
      BY <1>2 DEF DataTypes
    <3>4. broken' \in [Units -> BOOLEAN]
      BY <1>1 DEF DataTypes
    <3> QED
      BY <3>1, <3>2, <3>3, <3>4
  <2> QED
    BY <1>1, <1>3, <2>1, <2>2, <2>3 DEF DataTypes
<1>5. OfflineIsConnecting' /\ OfflineHasNoLiveData'
  BY <1>1, <1>2 DEF DataTypes, OfflineIsConnecting, OfflineHasNoLiveData, ConnectLabels
<1>6. LossIsMarked'
  BY <1>1, <1>2 DEF DataTypes, LossIsMarked, ScanFailed
<1>7. InverterScansCount'
  BY <1>1, <1>2 DEF DataTypes, InverterScansCount
<1>8. InverterBreaksReset'
  BY <1>1, <1>2 DEF DataTypes, InverterBreaksReset
<1>9. \A v \in Units : Nesting(pc'[v]) = Nesting(pc[v])
  BY <1>2 DEF DataTypes
<1> QED
  BY <1>1, <1>4, <1>5, <1>6, <1>7, <1>8, <1>9, OffTheBus

\* The UPS reboot sequence.  Its read-backs may interrupt a run of failures, which
\* an inverter, having no such sequence, cannot do.
LEMMA RebootIInv ==
  ASSUME IInv, NEW u \in Units, RebootIO(u) \/ RebootNext(u)
  PROVE  IInv'
<1> USE UnitAssumption DEF IInv, DataInv
<1>1. /\ UNCHANGED busVars
      /\ pool' = pool /\ conn' = conn /\ fails' = fails /\ track' = track
      /\ rebootReq' = rebootReq /\ initReq' = initReq /\ initFlag' = initFlag
      /\ queued' = queued /\ running' = running /\ seg' = seg /\ main' = main
  BY DEF RebootIO, RebootNext
<1>2. /\ pc[u] \in {"reboot_io", "reboot_next"}
      /\ \E l \in {"reboot_rel", "reboot_acq", "drain_check"} :
           pc' = [pc EXCEPT ![u] = l] /\ Nesting(l) = Nesting(pc[u])
      /\ \E b \in BOOLEAN : ok' = [ok EXCEPT ![u] = b]
  BY DEF RebootIO, RebootNext, Goto, Set, Nesting
<1>3. Kind[u] # "inverter"
  BY <1>2 DEF InverterScansCount
<1>4. /\ broken' \in [Units -> BOOLEAN]
      /\ \A v \in Units \ {u} : broken'[v] = broken[v]
  <2>1. \/ broken' = broken
        \/ \E answered \in BOOLEAN :
             broken' = [broken EXCEPT ![u] = broken[u] \/ (answered /\ fails[u] > 0)]
    BY DEF RebootIO, RebootNext, Read, Set
  <2> QED
    BY <2>1 DEF DataTypes
<1>5. DataTypes'
  <2>1. pc' \in [Units -> Labels] /\ ok' \in [Units -> BOOLEAN]
    BY <1>2, LabelSet DEF DataTypes
  <2>2. stage' \in [Units -> {"restart", "restart_verify", "shutdown", "shutdown_verify"}]
    <3>1. \A l \in DOMAIN StageAfter :
            StageAfter[l] \in {"restart", "restart_verify", "shutdown", "shutdown_verify"}
      BY DEF StageAfter
    <3>2. stage' = stage \/ stage' = [stage EXCEPT ![u] = "restart"]
            \/ /\ stage[u] \in DOMAIN StageAfter
               /\ stage' = [stage EXCEPT ![u] = StageAfter[stage[u]]]
      BY DEF RebootIO, RebootNext, Set
    <3> HIDE DEF StageAfter
    <3> QED
      BY <3>1, <3>2 DEF DataTypes
  <2> QED
    BY <1>1, <1>4, <2>1, <2>2 DEF DataTypes
<1>6. OfflineIsConnecting' /\ OfflineHasNoLiveData'
  BY <1>1, <1>2 DEF DataTypes, OfflineIsConnecting, OfflineHasNoLiveData, ConnectLabels
<1>7. LossIsMarked'
  BY <1>1, <1>2 DEF DataTypes, LossIsMarked, ScanFailed
<1>8. InverterScansCount' /\ InverterBreaksReset'
  BY <1>1, <1>2, <1>3, <1>4 DEF DataTypes, InverterScansCount, InverterBreaksReset
<1>9. \A v \in Units : Nesting(pc'[v]) = Nesting(pc[v])
  BY <1>2 DEF DataTypes
<1> QED
  BY <1>1, <1>5, <1>6, <1>7, <1>8, <1>9, OffTheBus

\* The read of a segment under the bus: after failures a good one interrupts them,
\* and its result says so.
LEMMA ReadSegmentIInv ==
  ASSUME IInv, NEW u \in Units, ReadSegment(u)
  PROVE  IInv'
<1> USE UnitAssumption DEF IInv, DataInv
<1>1. /\ UNCHANGED busVars
      /\ pool' = pool /\ conn' = conn /\ fails' = fails /\ track' = track /\ stage' = stage
      /\ rebootReq' = rebootReq /\ initReq' = initReq /\ initFlag' = initFlag
      /\ queued' = queued /\ running' = running /\ seg' = seg /\ main' = main
      /\ pc[u] = "seg_io" /\ pc' = [pc EXCEPT ![u] = "seg_rel"]
  BY DEF ReadSegment, Goto
<1>2. PICK good \in BOOLEAN :
        /\ ok' = [ok EXCEPT ![u] = good]
        /\ broken' = [broken EXCEPT ![u] = broken[u] \/ (good /\ fails[u] > 0)]
  BY DEF ReadSegment, Read, Set
<1>3. DataTypes'
  <2>1. pc' \in [Units -> Labels] /\ ok' \in [Units -> BOOLEAN]
    BY <1>1, <1>2, LabelSet DEF DataTypes
  <2>2. broken' \in [Units -> BOOLEAN]
    BY <1>2 DEF DataTypes
  <2> QED
    BY <1>1, <2>1, <2>2 DEF DataTypes
<1>4. OfflineIsConnecting' /\ OfflineHasNoLiveData'
  BY <1>1 DEF DataTypes, OfflineIsConnecting, OfflineHasNoLiveData, ConnectLabels
<1>5. LossIsMarked'
  BY <1>1, <1>2 DEF DataTypes, LossIsMarked, ScanFailed
<1>6. InverterScansCount' /\ InverterBreaksReset'
  <2>1. Kind[u] = "inverter" => ~broken[u]
    BY <1>1 DEF InverterBreaksReset
  <2> QED
    BY <1>1, <1>2, <2>1 DEF DataTypes, InverterScansCount, InverterBreaksReset
<1>7. \A v \in Units : Nesting(pc'[v]) = Nesting(pc[v])
  BY <1>1 DEF DataTypes, Nesting
<1> QED
  BY <1>1, <1>3, <1>4, <1>5, <1>6, <1>7, OffTheBus

\* A segment that was read, and one that was not in a counting scan: the count
\* reaches the threshold only together with the marks, and only while connected.
LEMMA SegmentIInv ==
  ASSUME IInv, NEW u \in Units, SegmentRead(u) \/ SegmentFailed(u)
  PROVE  IInv'
<1> USE UnitAssumption DEF IInv, DataInv
<1>1. /\ UNCHANGED busVars
      /\ conn' = conn /\ track' = track /\ stage' = stage
      /\ rebootReq' = rebootReq /\ initReq' = initReq /\ initFlag' = initFlag
      /\ queued' = queued /\ running' = running /\ main' = main
      /\ pc[u] = "seg_eval"
      /\ \E l \in {"seg_acq", "scan_rel"} : pc' = [pc EXCEPT ![u] = l]
  BY DEF SegmentRead, SegmentFailed, NextSegment, Goto
<1>2. /\ conn[u] = 1 /\ fails[u] \in Nat /\ ~(fails[u] >= FailThreshold[u])
      /\ Kind[u] = "inverter" => track[u] /\ (broken[u] => ok[u])
  <2>1. conn[u] = 1 /\ fails[u] \in Nat
    BY <1>1 DEF DataTypes, OfflineIsConnecting, ConnectLabels
  <2>2. ~(fails[u] >= FailThreshold[u])
    BY <1>1 DEF LossIsMarked, ScanFailed
  <2>3. Kind[u] = "inverter" => track[u] /\ (broken[u] => ok[u])
    BY <1>1 DEF InverterScansCount, InverterBreaksReset
  <2> QED
    BY <2>1, <2>2, <2>3
<1>3. /\ \E m \in Nat : fails' = [fails EXCEPT ![u] = m]
      /\ \E b \in BOOLEAN : broken' = [broken EXCEPT ![u] = b]
                            /\ (Kind[u] = "inverter" => ~b)
      /\ \E b \in BOOLEAN : ok' = [ok EXCEPT ![u] = b]
      /\ \E n \in Segs : seg' = [seg EXCEPT ![u] = n]
      /\ \E f \in [Segs -> {"zero", "live", "lost"}] : pool' = [pool EXCEPT ![u] = f]
  <2>1. CASE SegmentRead(u)
    <3>1. /\ ok[u] /\ (track[u] => ResetFails(u)) /\ (~track[u] => UNCHANGED <<fails, broken>>)
          /\ pool' = [pool EXCEPT ![u][seg[u]] = "live"]
          /\ NextSegment(u)
      BY <2>1 DEF SegmentRead
    <3>2. \E f \in [Segs -> {"zero", "live", "lost"}] : pool' = [pool EXCEPT ![u] = f]
      BY <3>1 DEF DataTypes
    <3>3. /\ ok' = [ok EXCEPT ![u] = TRUE]
          /\ \E n \in Segs : seg' = [seg EXCEPT ![u] = n]
      <4>1. CASE seg[u] < Segments
        BY <3>1, <4>1 DEF NextSegment, Set, DataTypes, Segs
      <4>2. CASE ~(seg[u] < Segments)
        BY <3>1, <4>2 DEF NextSegment, Set, DataTypes, Segs
      <4> QED
        BY <4>1, <4>2
    <3>4. /\ \E m \in Nat : fails' = [fails EXCEPT ![u] = m]
          /\ \E b \in BOOLEAN : broken' = [broken EXCEPT ![u] = b]
                                /\ (Kind[u] = "inverter" => ~b)
      <4>1. CASE track[u]
        <5>1. fails' = [fails EXCEPT ![u] = 0] /\ broken' = [broken EXCEPT ![u] = FALSE]
          BY <3>1, <4>1 DEF ResetFails, Set
        <5> QED
          BY <5>1
      <4>2. CASE ~track[u]
        <5>1. /\ fails' = [fails EXCEPT ![u] = fails[u]] /\ fails[u] \in Nat
              /\ broken' = [broken EXCEPT ![u] = broken[u]] /\ broken[u] \in BOOLEAN
          BY <1>2, <3>1, <4>2, Unchanged DEF DataTypes
        <5>2. Kind[u] # "inverter"
          BY <1>2, <4>2
        <5> QED
          BY <5>1, <5>2
      <4> QED
        BY <4>1, <4>2
    <3> QED
      BY <3>2, <3>3, <3>4
  <2>2. CASE SegmentFailed(u)
    <3>1. /\ ~ok[u] /\ fails' = [fails EXCEPT ![u] = fails[u] + 1] /\ broken' = broken
          /\ \/ pool' = [pool EXCEPT ![u] = [s \in Segs |-> "lost"]] /\ seg' = seg /\ ok' = ok
             \/ pool' = pool /\ NextSegment(u)
      BY <2>2 DEF SegmentFailed, Set
    <3>2. \E f \in [Segs -> {"zero", "live", "lost"}] : pool' = [pool EXCEPT ![u] = f]
      BY <3>1 DEF DataTypes
    <3>3. /\ \E b \in BOOLEAN : ok' = [ok EXCEPT ![u] = b]
          /\ \E n \in Segs : seg' = [seg EXCEPT ![u] = n]
      <4>1. CASE ok' = ok /\ seg' = seg
        <5>1. /\ ok' = [ok EXCEPT ![u] = ok[u]] /\ ok[u] \in BOOLEAN
              /\ seg' = [seg EXCEPT ![u] = seg[u]] /\ seg[u] \in Segs
          BY <4>1, Unchanged DEF DataTypes
        <5> QED
          BY <5>1
      <4>2. CASE NextSegment(u) /\ seg[u] < Segments
        <5>1. ok' = [ok EXCEPT ![u] = TRUE] /\ seg' = [seg EXCEPT ![u] = seg[u] + 1]
          BY <4>2 DEF NextSegment, Set
        <5>2. seg[u] + 1 \in Segs
          BY <4>2 DEF DataTypes, Segs
        <5> QED
          BY <5>1, <5>2
      <4>3. CASE NextSegment(u) /\ ~(seg[u] < Segments)
        <5>1. ok' = [ok EXCEPT ![u] = TRUE] /\ seg' = seg
          BY <4>3 DEF NextSegment, Set
        <5>2. seg' = [seg EXCEPT ![u] = seg[u]] /\ seg[u] \in Segs
          BY <5>1, Unchanged DEF DataTypes
        <5> QED
          BY <5>1, <5>2
      <4> QED
        BY <3>1, <4>1, <4>2, <4>3
    <3>4. /\ \E m \in Nat : fails' = [fails EXCEPT ![u] = m]
          /\ \E b \in BOOLEAN : broken' = [broken EXCEPT ![u] = b]
                                /\ (Kind[u] = "inverter" => ~b)
      <4>1. fails[u] + 1 \in Nat
        BY <1>2
      <4>2. broken' = [broken EXCEPT ![u] = broken[u]]
        BY <3>1, Unchanged DEF DataTypes
      <4> QED
        BY <1>2, <3>1, <4>1, <4>2 DEF DataTypes
    <3> QED
      BY <3>2, <3>3, <3>4
  <2> QED
    BY <2>1, <2>2
<1>4. DataTypes'
  <2>1. pc' \in [Units -> Labels]
    BY <1>1, LabelSet DEF DataTypes
  <2>2. fails' \in [Units -> Nat] /\ seg' \in [Units -> Segs]
    BY <1>3 DEF DataTypes
  <2>3. broken' \in [Units -> BOOLEAN] /\ ok' \in [Units -> BOOLEAN]
    BY <1>3 DEF DataTypes
  <2>4. pool' \in [Units -> [Segs -> {"zero", "live", "lost"}]]
    BY <1>3 DEF DataTypes
  <2> QED
    BY <1>1, <2>1, <2>2, <2>3, <2>4 DEF DataTypes
<1>5. OfflineIsConnecting' /\ OfflineHasNoLiveData'
  BY <1>1, <1>2, <1>3 DEF DataTypes, OfflineIsConnecting, OfflineHasNoLiveData, ConnectLabels
<1>6. LossIsMarked'
  <2>1. fails'[u] >= FailThreshold[u] \/ (pc'[u] = "scan_rel" /\ track[u] /\ ~ok'[u])
             => pc'[u] = "scan_rel" /\ track[u] /\ ~ok'[u] /\ \A s \in Segs : pool'[u][s] = "lost"
    <3>1. CASE SegmentRead(u)
      <4>1. ok'[u] /\ (fails'[u] = fails[u] \/ fails'[u] = 0)
        BY <3>1 DEF SegmentRead, NextSegment, ResetFails, Set, DataTypes
      <4> QED
        BY <1>2, <4>1, ConfigAssumption
    <3>2. CASE SegmentFailed(u) /\ fails[u] + 1 >= FailThreshold[u]
      BY <1>1, <1>2, <3>2 DEF SegmentFailed, Goto, Set, DataTypes
    <3>3. CASE SegmentFailed(u) /\ ~(fails[u] + 1 >= FailThreshold[u])
      BY <1>1, <1>2, <3>3 DEF SegmentFailed, NextSegment, Set, DataTypes
    <3> QED
      BY <3>1, <3>2, <3>3
  <2>2. \A v \in Units \ {u} : /\ fails'[v] = fails[v] /\ pc'[v] = pc[v] /\ ok'[v] = ok[v]
                               /\ pool'[v] = pool[v] /\ track'[v] = track[v]
    BY <1>1, <1>3 DEF DataTypes
  <2>3. pc'[u] \in {"seg_acq", "scan_rel"}
    BY <1>1 DEF DataTypes
  <2> QED
    BY <1>1, <2>1, <2>2, <2>3 DEF LossIsMarked, ScanFailed
<1>7. InverterScansCount' /\ InverterBreaksReset'
  BY <1>1, <1>2, <1>3 DEF DataTypes, InverterScansCount, InverterBreaksReset
<1>8. \A v \in Units : Nesting(pc'[v]) = Nesting(pc[v])
  BY <1>1 DEF DataTypes, Nesting
<1> QED
  BY <1>1, <1>4, <1>5, <1>6, <1>7, <1>8, OffTheBus

\* The end of a scan, and error_callback: the unit goes offline with every slot
\* marked, and the count starts again from 0.
LEMMA ScanEndIInv ==
  ASSUME IInv, NEW u \in Units, ScanDone(u) \/ ErrorCallback(u)
  PROVE  IInv'
<1> USE UnitAssumption DEF IInv, DataInv
<1>1. /\ UNCHANGED busVars
      /\ pool' = pool /\ stage' = stage /\ rebootReq' = rebootReq /\ initReq' = initReq
      /\ initFlag' = initFlag /\ queued' = queued /\ running' = running /\ main' = main
  BY DEF ScanDone, ErrorCallback
<1>2. \/ /\ pc[u] = "scan_done"
         /\ track' = [track EXCEPT ![u] = FALSE] /\ seg' = [seg EXCEPT ![u] = 1]
         /\ conn' = conn /\ fails' = fails /\ broken' = broken /\ ok' = ok
         /\ \E l \in {"iseq_done", "pause", "error"} :
              /\ pc' = [pc EXCEPT ![u] = l]
              /\ l = "error" <=> (track[u] /\ ~ok[u])
      \/ /\ pc[u] = "error" /\ pc' = [pc EXCEPT ![u] = "retry"]
         /\ conn' = [conn EXCEPT ![u] = 0] /\ fails' = [fails EXCEPT ![u] = 0]
         /\ broken' = [broken EXCEPT ![u] = FALSE] /\ ok' = [ok EXCEPT ![u] = TRUE]
         /\ track' = track /\ seg' = seg
  BY DEF ScanDone, ErrorCallback, ResetFails, Goto, Set
<1>3. DataTypes'
  <2>1. pc' \in [Units -> Labels]
    <3>1. \E l \in Labels : pc' = [pc EXCEPT ![u] = l]
      BY <1>2, LabelSet
    <3> QED
      BY <3>1 DEF DataTypes
  <2>2. 0 \in Nat /\ 1 \in Segs
    BY DEF Segs
  <2>3. conn' \in [Units -> {0, 1}]
    BY <1>2 DEF DataTypes
  <2>4. fails' \in [Units -> Nat]
    <3>1. fails' = fails \/ fails' = [fails EXCEPT ![u] = 0]
      BY <1>2
    <3>2. fails \in [Units -> Nat]
      BY DEF DataTypes
    <3> QED
      BY <2>2, <3>1, <3>2
  <2>5. seg' \in [Units -> Segs]
    BY <1>2, <2>2 DEF DataTypes
  <2>6. track' \in [Units -> BOOLEAN]
    <3>1. track' = track \/ track' = [track EXCEPT ![u] = FALSE]
      BY <1>2
    <3> QED
      BY <3>1 DEF DataTypes
  <2>7. ok' \in [Units -> BOOLEAN]
    <3>1. ok' = ok \/ ok' = [ok EXCEPT ![u] = TRUE]
      BY <1>2
    <3> QED
      BY <3>1 DEF DataTypes
  <2>8. broken' \in [Units -> BOOLEAN]
    <3>1. broken' = broken \/ broken' = [broken EXCEPT ![u] = FALSE]
      BY <1>2
    <3> QED
      BY <3>1 DEF DataTypes
  <2> QED
    BY <1>1, <2>1, <2>3, <2>4, <2>5, <2>6, <2>7, <2>8 DEF DataTypes
<1>4. OfflineIsConnecting' /\ OfflineHasNoLiveData'
  <2>1. CASE pc[u] = "scan_done"
    <3>1. conn' = conn /\ fails' = fails /\ conn[u] = 1
      BY <1>2, <2>1 DEF DataTypes, OfflineIsConnecting, ConnectLabels
    <3>2. OfflineIsConnecting'
      BY <1>2, <2>1, <3>1 DEF DataTypes, OfflineIsConnecting, ConnectLabels
    <3>3. OfflineHasNoLiveData'
      BY <1>1, <3>1 DEF OfflineHasNoLiveData
    <3> QED
      BY <3>2, <3>3
  <2>2. CASE pc[u] = "error"
    <3>1. \A s \in Segs : pool[u][s] # "live"
      BY <2>2 DEF LossIsMarked, ScanFailed
    <3>2. OfflineIsConnecting'
      BY <1>2, <2>2 DEF DataTypes, OfflineIsConnecting, ConnectLabels
    <3>3. OfflineHasNoLiveData'
      <4>1. pool' = pool /\ \A v \in Units \ {u} : conn'[v] = conn[v]
        BY <1>1, <1>2, <2>2 DEF DataTypes
      <4> QED
        BY <3>1, <4>1 DEF OfflineHasNoLiveData
    <3> QED
      BY <3>2, <3>3
  <2> QED
    BY <1>2, <2>1, <2>2
<1>5. LossIsMarked'
  <2>1. CASE pc[u] = "scan_done"
    BY <1>1, <1>2, <2>1 DEF DataTypes, LossIsMarked, ScanFailed
  <2>2. CASE pc[u] = "error"
    <3>1. pc'[u] = "retry" /\ fails'[u] = 0
      BY <1>2, <2>2 DEF DataTypes
    <3>2. ~(fails'[u] >= FailThreshold[u]) /\ ~ScanFailed(u)'
      BY <3>1, ConfigAssumption DEF ScanFailed
    <3>3. \A v \in Units \ {u} : /\ fails'[v] = fails[v] /\ pc'[v] = pc[v] /\ ok'[v] = ok[v]
                                 /\ track'[v] = track[v]
      BY <1>2, <2>2 DEF DataTypes
    <3> QED
      BY <1>1, <3>2, <3>3 DEF LossIsMarked, ScanFailed
  <2> QED
    BY <1>2, <2>1, <2>2
<1>6. InverterScansCount'
  BY <1>1, <1>2 DEF DataTypes, InverterScansCount
<1>7. InverterBreaksReset'
  <2>1. Kind[u] = "inverter" => ~broken[u]
    BY <1>2 DEF InverterBreaksReset
  <2>2. \A v \in Units \ {u} : pc'[v] = pc[v] /\ ok'[v] = ok[v] /\ broken'[v] = broken[v]
    BY <1>2 DEF DataTypes
  <2>3. broken'[u] => broken[u]
    BY <1>2 DEF DataTypes
  <2> QED
    BY <2>1, <2>2, <2>3 DEF InverterBreaksReset
<1>8. \A v \in Units : Nesting(pc'[v]) = Nesting(pc[v])
  BY <1>2 DEF DataTypes, Nesting
<1> QED
  BY <1>1, <1>3, <1>4, <1>5, <1>6, <1>7, <1>8, OffTheBus

\* The data the coordinator's calls do not touch survives the moves they make:
\* none leads to or from a place where a scan has just failed, except the release
\* at its end, and none connects.
LEMMA CallKeepsData ==
  ASSUME IInv, NEW u \in Units, UNCHANGED dataVars,
         \/ /\ pc[u] \in DOMAIN AfterAcquire
            /\ pc' = [pc EXCEPT ![u] = AfterAcquire[pc[u]]]
         \/ /\ pc[u] \in DOMAIN AfterRelease
            /\ pc' = [pc EXCEPT ![u] = AfterRelease[pc[u]]]
  PROVE  DataTypes' /\ DataInv'
<1> USE UnitAssumption DEF IInv, DataInv
<1>1. /\ running' = running /\ conn' = conn /\ fails' = fails /\ pool' = pool
      /\ initFlag' = initFlag /\ initReq' = initReq /\ rebootReq' = rebootReq
      /\ queued' = queued /\ seg' = seg /\ track' = track /\ ok' = ok /\ stage' = stage
      /\ main' = main /\ broken' = broken
  BY DEF dataVars
<1>2. \/ pc[u] = "probe_acq" /\ pc' = [pc EXCEPT ![u] = "probe"]
      \/ pc[u] = "iseq_acq" /\ pc' = [pc EXCEPT ![u] = "iseq_freq"]
      \/ pc[u] = "reboot_acq" /\ pc' = [pc EXCEPT ![u] = "reboot_io"]
      \/ pc[u] = "drain_acq" /\ pc' = [pc EXCEPT ![u] = "drain_io"]
      \/ pc[u] = "scan_acq" /\ pc' = [pc EXCEPT ![u] = "seg_acq"]
      \/ pc[u] = "seg_acq" /\ pc' = [pc EXCEPT ![u] = "seg_io"]
      \/ pc[u] = "probe_fail" /\ pc' = [pc EXCEPT ![u] = "probe_close"]
      \/ pc[u] = "probe_rel" /\ pc' = [pc EXCEPT ![u] = "connected"]
      \/ pc[u] = "iseq_rel" /\ pc' = [pc EXCEPT ![u] = "iseq_done"]
      \/ pc[u] = "reboot_rel" /\ pc' = [pc EXCEPT ![u] = "reboot_next"]
      \/ pc[u] = "drain_rel" /\ pc' = [pc EXCEPT ![u] = "scan_start"]
      \/ pc[u] = "seg_rel" /\ pc' = [pc EXCEPT ![u] = "seg_eval"]
      \/ pc[u] = "scan_rel" /\ pc' = [pc EXCEPT ![u] = "scan_done"]
  BY CallLabels DEF AfterAcquire, AfterRelease
<1>3. pc' \in [Units -> Labels]
  <2>1. \E l \in Labels : pc' = [pc EXCEPT ![u] = l]
    BY <1>2, LabelSet
  <2> QED
    BY <2>1 DEF DataTypes
<1>4. DataTypes'
  BY <1>1, <1>3 DEF DataTypes
<1>5. OfflineIsConnecting' /\ OfflineHasNoLiveData'
  BY <1>1, <1>2 DEF DataTypes, OfflineIsConnecting, OfflineHasNoLiveData, ConnectLabels
<1>6. LossIsMarked'
  BY <1>1, <1>2 DEF DataTypes, LossIsMarked, ScanFailed
<1>7. InverterScansCount'
  BY <1>1, <1>2 DEF DataTypes, InverterScansCount
<1>8. InverterBreaksReset'
  BY <1>1, <1>2 DEF DataTypes, InverterBreaksReset
<1> QED
  BY <1>4, <1>5, <1>6, <1>7, <1>8

\* A call of the coordinator moves the thread on when it returns, with the number
\* of levels of the place it goes to.
LEMMA BusCallIInv ==
  ASSUME IInv, NEW u \in Units,
         AcquireBus(u) \/ RetryBus(u) \/ ReleaseBus(u) \/ SpuriousWake(u)
  PROVE  IInv'
<1> USE DEF IInv
<1>1. BusProofs!IInv'
  BY CoordinatorKept DEF AcquireBus, RetryBus, ReleaseBus, SpuriousWake
<1>2. held \in [Units -> Nat] /\ wait \in [Units -> {"run", "sleep", "woken"}]
  BY CoordinatorTypes
<1>3. ASSUME pc' = pc, held' = held, UNCHANGED dataVars
      PROVE  IInv'
  <2>1. DataTypes'
    BY <1>3 DEF DataTypes, dataVars
  <2>2. NestingFollowsThread'
    BY <1>3 DEF NestingFollowsThread
  <2>3. OfflineIsConnecting' /\ OfflineHasNoLiveData'
    BY <1>3 DEF DataInv, OfflineIsConnecting, OfflineHasNoLiveData, dataVars
  <2>4. LossIsMarked'
    BY <1>3 DEF DataInv, LossIsMarked, ScanFailed, dataVars
  <2>5. InverterScansCount' /\ InverterBreaksReset'
    BY <1>3 DEF DataInv, InverterScansCount, InverterBreaksReset, dataVars
  <2> QED
    BY <1>1, <2>1, <2>2, <2>3, <2>4, <2>5 DEF DataInv
<1>4. CASE AcquireBus(u) \/ RetryBus(u)
  <2>1. /\ pc[u] \in DOMAIN AfterAcquire /\ UNCHANGED dataVars
        /\ Bus!Acquire(u) \/ Bus!Retry(u)
        /\ pc' = [pc EXCEPT ![u] = IF wait'[u] = "run" THEN AfterAcquire[@] ELSE @]
    BY <1>4 DEF AcquireBus, RetryBus, Acquiring, Advance
  <2>2. CASE wait'[u] = "sleep" /\ held' = held
    <3>1. pc' = pc
      BY <2>1, <2>2 DEF DataTypes
    <3> QED
      BY <1>3, <2>1, <2>2, <3>1
  <2>3. CASE wait'[u] = "run" /\ held' = [held EXCEPT ![u] = @ + 1]
    <3>1. pc' = [pc EXCEPT ![u] = AfterAcquire[pc[u]]]
      BY <2>1, <2>3 DEF DataTypes
    <3>2. NestingFollowsThread'
      <4>1. held[u] = Nesting(pc[u]) /\ Nesting(AfterAcquire[pc[u]]) = Nesting(pc[u]) + 1
        BY <2>1, CallLabels DEF NestingFollowsThread
      <4>2. /\ pc'[u] = AfterAcquire[pc[u]] /\ held'[u] = held[u] + 1
            /\ \A v \in Units \ {u} : pc'[v] = pc[v] /\ held'[v] = held[v]
        BY <1>2, <2>3, <3>1 DEF DataTypes
      <4> QED
        BY <4>1, <4>2 DEF NestingFollowsThread
    <3> QED
      BY <1>1, <2>1, <3>1, <3>2, CallKeepsData
  <2> QED
    BY <2>1, <2>2, <2>3, AcquireEffect
<1>5. CASE ReleaseBus(u)
  <2>1. /\ pc[u] \in DOMAIN AfterRelease /\ UNCHANGED dataVars /\ Bus!Release(u)
        /\ pc' = [pc EXCEPT ![u] = AfterRelease[pc[u]]]
    BY <1>5 DEF ReleaseBus, Goto
  <2>2. /\ held[u] = Nesting(pc[u]) /\ held[u] > 0
        /\ Nesting(AfterRelease[pc[u]]) = Nesting(pc[u]) - 1
    BY <2>1, CallLabels DEF NestingFollowsThread
  <2>3. held' = [held EXCEPT ![u] = @ - 1]
    BY <2>1, <2>2, ReleaseEffect
  <2>4. NestingFollowsThread'
    <3>1. /\ pc'[u] = AfterRelease[pc[u]] /\ held'[u] = held[u] - 1
          /\ \A v \in Units \ {u} : pc'[v] = pc[v] /\ held'[v] = held[v]
      BY <1>2, <2>1, <2>3 DEF DataTypes
    <3> QED
      BY <2>2, <3>1 DEF NestingFollowsThread
  <2> QED
    BY <1>1, <2>1, <2>4, CallKeepsData
<1>6. CASE SpuriousWake(u)
  <2>1. pc' = pc /\ held' = held /\ UNCHANGED dataVars
    BY <1>6 DEF SpuriousWake, Bus!SpuriousWake
  <2> QED
    BY <1>3, <2>1
<1> QED
  BY <1>4, <1>5, <1>6

\* The subscriber's requests and the stop sequence only set flags and counters.
LEMMA OtherThreadsIInv ==
  ASSUME IInv,
         \/ \E u \in Units : InitRequest(u) \/ RebootRequest(u) \/ CmdPush(u)
         \/ Shutdown \/ Main \/ UNCHANGED vars
  PROVE  IInv'
<1> USE UnitAssumption DEF IInv, DataInv
<1>1. /\ UNCHANGED busVars
      /\ pc' = pc /\ conn' = conn /\ fails' = fails /\ pool' = pool /\ initFlag' = initFlag
      /\ seg' = seg /\ track' = track /\ ok' = ok /\ stage' = stage /\ broken' = broken
  BY DEF InitRequest, RebootRequest, CmdPush, Shutdown, Main, StopFamily, JoinFamily, vars,
         busVars
<1>2. initReq' = initReq \/ \E u \in Units : initReq' = [initReq EXCEPT ![u] = TRUE]
  BY DEF InitRequest, RebootRequest, CmdPush, Shutdown, Main, StopFamily, JoinFamily, vars, Set
<1>3. \/ rebootReq' = rebootReq
      \/ \E u \in Units : Kind[u] = "ups" /\ rebootReq' = [rebootReq EXCEPT ![u] = TRUE]
  BY DEF InitRequest, RebootRequest, CmdPush, Shutdown, Main, StopFamily, JoinFamily, vars, Set
<1>4. \/ queued' = queued
      \/ \E u \in Units : /\ queued[u] < QueueCapacity
                          /\ queued' = [queued EXCEPT ![u] = queued[u] + 1]
  BY DEF InitRequest, RebootRequest, CmdPush, Shutdown, Main, StopFamily, JoinFamily, vars, Set
<1>5. running' = running \/ \E k : running' = [u \in Units |-> running[u] /\ Kind[u] # k]
  BY DEF InitRequest, RebootRequest, CmdPush, Shutdown, Main, StopFamily, JoinFamily, vars
<1>6. main' \in {main, "join_inverter", "stop_ups", "join_ups", "end"}
  BY DEF InitRequest, RebootRequest, CmdPush, Shutdown, Main, StopFamily, JoinFamily, vars
<1>7. DataTypes'
  <2>1. initReq' \in [Units -> BOOLEAN]
    BY <1>2 DEF DataTypes
  <2>2. rebootReq' \in [Units -> BOOLEAN]
    BY <1>3 DEF DataTypes
  <2>3. queued' \in [Units -> 0 .. QueueCapacity]
    BY <1>4 DEF DataTypes
  <2>4. running' \in [Units -> BOOLEAN]
    <3>1. CASE running' = running
      BY <3>1 DEF DataTypes
    <3>2. ASSUME NEW k, running' = [u \in Units |-> running[u] /\ Kind[u] # k]
          PROVE  running' \in [Units -> BOOLEAN]
      BY <3>2, Zenon
    <3> QED
      BY <1>5, <3>1, <3>2
  <2> QED
    BY <1>1, <1>6, <2>1, <2>2, <2>3, <2>4 DEF DataTypes
<1>8. OfflineIsConnecting' /\ LossIsMarked' /\ OfflineHasNoLiveData' /\ InverterBreaksReset'
  BY <1>1 DEF OfflineIsConnecting, LossIsMarked, ScanFailed, OfflineHasNoLiveData,
              InverterBreaksReset
<1>9. InverterScansCount'
  <2>1. \A v \in Units : Kind[v] = "inverter" => (~rebootReq[v] => ~rebootReq'[v])
    <3>1. CASE rebootReq' = rebootReq
      BY <3>1
    <3>2. ASSUME NEW u \in Units, Kind[u] = "ups",
                 rebootReq' = [rebootReq EXCEPT ![u] = TRUE],
                 NEW v \in Units, Kind[v] = "inverter", ~rebootReq[v]
          PROVE  ~rebootReq'[v]
      <4>1. v # u
        BY <3>2
      <4> QED
        BY <3>2, <4>1 DEF DataTypes
    <3> QED
      BY <1>3, <3>1, <3>2
  <2> QED
    BY <1>1, <2>1 DEF InverterScansCount
<1>10. \A v \in Units : Nesting(pc'[v]) = Nesting(pc[v])
  BY <1>1
<1> QED
  BY <1>1, <1>7, <1>8, <1>9, <1>10, OffTheBus

\* The threads start connecting, with nothing held, counted or read.
LEMMA InitIInv == Init => IInv
<1> SUFFICES ASSUME Init PROVE IInv
  OBVIOUS
<1> USE UnitAssumption DEF Init
<1>1. BusProofs!IInv
  <2>1. BusProofs!Init
    BY DEF Bus!Init, BusProofs!Init, Bus!Slots, BusProofs!Slots
  <2> QED
    BY <2>1, BusProofs!InitIInv
<1>2. DataTypes
  BY LabelSet DEF DataTypes, Segs
<1>3. NestingFollowsThread
  BY DEF Bus!Init, NestingFollowsThread, Nesting
<1>4. DataInv
  <2>1. \A u \in Units : pc[u] \in {"top", "done"} /\ ~(0 >= FailThreshold[u])
    BY ConfigAssumption
  <2> QED
    BY <2>1 DEF DataInv, OfflineIsConnecting, LossIsMarked, ScanFailed, OfflineHasNoLiveData,
           InverterScansCount, InverterBreaksReset, ConnectLabels
<1> QED
  BY <1>1, <1>2, <1>3, <1>4 DEF IInv

\* Every step of every thread keeps the invariant.
LEMMA NextIInv == IInv /\ [Next]_vars => IInv'
<1> SUFFICES ASSUME IInv, [Next]_vars PROVE IInv'
  OBVIOUS
<1>1. ASSUME NEW u \in Units, Thread(u) PROVE IInv'
  BY <1>1, BusCallIInv, MoveIInv, ConnectingIInv, RequestStepsIInv, RebootIInv,
     ReadSegmentIInv, SegmentIInv, ScanEndIInv DEF Thread
<1>2. ASSUME NEW u \in Units, SpuriousWake(u) PROVE IInv'
  BY <1>2, BusCallIInv
<1> QED
  BY <1>1, <1>2, OtherThreadsIInv DEF Next, Terminated

\* The invariant holds in every state, for any units, paths, registers and
\* thresholds.
THEOREM Invariance == Spec => []IInv
<1> QED
  BY InitIInv, NextIInv, PTL DEF Spec

-----------------------------------------------------------------------------
\* The fields of the units, the pool and the coordinator keep their types.
THEOREM Typing == Spec => []TypeOK
<1>1. IInv => TypeOK
  BY CoordinatorTypes DEF IInv, TypeOK
<1> QED
  BY <1>1, Invariance, PTL

\* No way out of an operation keeps the bus: between operations, in the pauses and
\* after its end a thread has no level left.
THEOREM RestingThreads == Spec => []BusFreeAtRest
<1>1. IInv => BusFreeAtRest
  BY DEF IInv, BusFreeAtRest, NestingFollowsThread, Nesting
<1> QED
  BY <1>1, Invariance, PTL

\* A unit that reads disconnected has no register in the pool that looks live.
THEOREM LossHidesData == Spec => []OfflineHasNoLiveData
<1>1. IInv => OfflineHasNoLiveData
  BY DEF IInv, DataInv
<1> QED
  BY <1>1, Invariance, PTL

\* With a slot for every path, a thread that is inside is the only one of its path:
\* nobody went on without coordination.
LEMMA InsideAlone ==
  ASSUME Bus!EnoughSlots, IInv, NEW u \in Units, NEW v \in Units, Share(u, v), held[u] > 0
  PROVE  held[v] = 0
<1> USE UnitAssumption DEF IInv, BusProofs!IInv, Share
<1>1. BusProofs!EnoughSlots
  BY DEF Bus!EnoughSlots, Bus!IsFiniteSet, Bus!Cardinality, BusProofs!EnoughSlots,
         BusProofs!IsFiniteSet, BusProofs!Cardinality
<1>2. PathOf[u] \in Paths
  OBVIOUS
<1>3. BusProofs!SlotsOf(PathOf[u]) # {}
  BY <1>1, <1>2, BusProofs!SlotForEveryPath DEF BusProofs!NoLateCoordination
<1>4. PICK i \in BusProofs!Slots : slot[i].path = PathOf[u]
  BY <1>3 DEF BusProofs!SlotsOf
<1> QED
  BY <1>4 DEF BusProofs!DepthIsOwned

\* A unit in a transaction, and one anywhere in a scan, has the bus.
LEMMA HasTheBus ==
  ASSUME IInv, NEW u \in Units, OnWire(u) \/ Scanning(u)
  PROVE  held[u] > 0
  BY DEF IInv, NestingFollowsThread, Nesting, OnWire, Scanning

\* Two units of one path are never both in a transaction, if the coordinator has a
\* slot for every path.
THEOREM ExclusiveWire ==
  ASSUME Bus!EnoughSlots
  PROVE  Spec => []WireExclusive
<1>1. IInv => WireExclusive
  BY InsideAlone, HasTheBus DEF WireExclusive
<1> QED
  BY <1>1, Invariance, PTL

\* A scan is never interleaved with another unit's transactions on its path, not
\* even in the gaps between its reads.
THEOREM UninterruptedScan ==
  ASSUME Bus!EnoughSlots
  PROVE  Spec => []ScanUninterrupted
<1>1. IInv => ScanUninterrupted
  BY InsideAlone, HasTheBus DEF ScanUninterrupted
<1> QED
  BY <1>1, Invariance, PTL

-----------------------------------------------------------------------------
\* Only a failed segment marks the pool of a unit, and an inverter's failed segment
\* follows failures that no read has interrupted.
LEMMA LossStep ==
  ASSUME IInv, Next, NEW v \in Units, Kind[v] = "inverter",
         pool'[v] # pool[v], \A s \in Segs : pool'[v][s] = "lost"
  PROVE  ~broken[v]
<1> USE UnitAssumption DEF IInv, DataInv
<1>1. ASSUME pool' = pool PROVE FALSE
  BY <1>1
<1>2. ASSUME NEW u \in Units, SegmentRead(u) PROVE FALSE
  <2>1. pool' = [pool EXCEPT ![u][seg[u]] = "live"] /\ seg[u] \in Segs
    BY <1>2 DEF SegmentRead, DataTypes
  <2>2. CASE v = u
    <3>1. pool'[u][seg[u]] = "live"
      BY <2>1 DEF DataTypes
    <3> QED
      BY <2>1, <2>2, <3>1
  <2>3. CASE v # u
    BY <2>1, <2>3 DEF DataTypes
  <2> QED
    BY <2>2, <2>3
<1>3. ASSUME NEW u \in Units, SegmentFailed(u) PROVE ~broken[v]
  <2>1. v = u
    BY <1>3 DEF SegmentFailed, Set, DataTypes
  <2> QED
    BY <1>3, <2>1 DEF SegmentFailed, InverterBreaksReset
<1>4. ASSUME NEW u \in Units, Thread(u), ~SegmentRead(u), ~SegmentFailed(u) PROVE pool' = pool
  <2> USE <1>4
  <2>1. CASE AcquireBus(u) \/ RetryBus(u) \/ ReleaseBus(u)
    BY <2>1 DEF AcquireBus, RetryBus, ReleaseBus, dataVars
  <2>2. CASE \/ Top(u) \/ Connect(u) \/ Probe(u) \/ InitInverterReg(u) \/ ProbeClose(u)
             \/ Connected(u) \/ Loop(u)
    BY <2>2 DEF Top, Connect, Probe, InitInverterReg, ProbeClose, Connected, Loop, dataVars
  <2>3. CASE \/ InitCheck(u) \/ InitWrite(u) \/ InitDone(u) \/ RebootCheck(u) \/ RebootIO(u)
             \/ RebootNext(u) \/ DrainCheck(u) \/ DrainWrite(u)
    BY <2>3 DEF InitCheck, InitWrite, InitDone, RebootCheck, RebootIO, RebootNext, DrainCheck,
                DrainWrite
  <2>4. CASE \/ ScanStart(u) \/ ReadSegment(u) \/ SegmentFailedUntracked(u) \/ ScanDone(u)
             \/ Pause(u) \/ ErrorCallback(u) \/ Exit(u)
    BY <2>4 DEF ScanStart, ReadSegment, SegmentFailedUntracked, ScanDone, Pause, ErrorCallback,
                Exit, dataVars
  <2> QED
    BY <2>1, <2>2, <2>3, <2>4 DEF Thread
<1>5. ASSUME ~\E u \in Units : Thread(u) PROVE pool' = pool
  BY <1>5 DEF Next, SpuriousWake, InitRequest, RebootRequest, CmdPush, Shutdown, Main,
              StopFamily, JoinFamily, Terminated, vars, dataVars
<1> QED
  BY <1>1, <1>2, <1>3, <1>4, <1>5

\* The pool of an inverter is marked lost only when no read of the device succeeded
\* since the first of the failures that were counted.  A UPS gives no such promise:
\* the read-backs of its reboot sequence and its init scan leave the count alone.
THEOREM ConsecutiveFailures ==
  Spec => LossOnlyAfterConsecutiveFailures
<1>1. IInv /\ [Next]_vars =>
        [\A u \in Units :
           (Kind[u] = "inverter" /\ pool'[u] # pool[u] /\ \A s \in Segs : pool'[u][s] = "lost")
             => ~broken[u]]_vars
  BY LossStep
<1> QED
  BY <1>1, Invariance, PTL DEF Spec, LossOnlyAfterConsecutiveFailures
=============================================================================
