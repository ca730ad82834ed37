------------------------------ MODULE Lifecycle -----------------------------
(***************************************************************************)
(* The daemon's processes, from src/src/main.c: the parent forks one CMOS  *)
(* publisher per enabled device family, starts the modules and the alarm   *)
(* monitor, serves until a signal, then stops everything in reverse.  The  *)
(* publishers are *_cmos_pub_run in src/src/inverter_cmos_bridge.c and     *)
(* src/src/ups_cmos_bridge.c.                                              *)
(*                                                                         *)
(* The parent starts here with its signal handlers installed.  A thread    *)
(* that is asked to stop does stop (module UnitModule), so stop and join   *)
(* are one step.  A signal comes to the parent alone (kill) or to the      *)
(* whole process group (Ctrl-C).                                           *)
(***************************************************************************)
EXTENDS Integers

CONSTANTS
  Faults,      \* what may fail: any of "fork", "publisher", "module", "alarm"
  MaxSignals   \* bound on the signals sent to the parent

FamilyNames == {"inverter", "ups"}

ASSUME LifecycleAssumption ==
  /\ Faults \subseteq {"fork", "publisher", "module", "alarm"}
  /\ MaxSignals \in Nat

VARIABLES
  step,        \* the parent's next step
  running,     \* g_running, cleared by signal_handler
  outcome,     \* the exit status main has settled on
  threads,     \* the parent's threads: <<family, "poll" or "sub">>, or the alarm monitor
  child,       \* the publisher process of each family
  pubRunning,  \* its g_pub_running
  signals,     \* signals sent so far
  abandoned,   \* history: publishers whose waitpid a signal interrupted
  enabled      \* families with an enabled unit in the configuration

procVars == <<step, running, outcome, threads, child, pubRunning, signals, abandoned, enabled>>

Monitor == <<"alarm", "monitor">>

\* The threads start_*_modules wants for a family: the subscriber always, the
\* poll thread of an enabled unit.
Wanted(f) == {<<f, "sub">>} \union (IF f \in enabled THEN {<<f, "poll">>} ELSE {})

-----------------------------------------------------------------------------
(* The order of main, of shutdown_runtime and of stop_cmos_publisher.        *)

ForkStep  == [inverter |-> "fork_inverter", ups |-> "fork_ups"]
StartStep == [inverter |-> "start_inverter", ups |-> "start_ups"]
StopStep  == [inverter |-> "stop_inverter", ups |-> "stop_ups"]
KillStep  == [inverter |-> "kill_inverter", ups |-> "kill_ups"]
WaitStep  == [inverter |-> "wait_inverter", ups |-> "wait_ups"]

\* Mutant of After: the modules are stopped before the alarm monitor.
AfterModulesFirst ==
  [fork_inverter |-> "fork_ups", fork_ups |-> "start_inverter",
   start_inverter |-> "start_ups", start_ups |-> "start_alarm",
   start_alarm |-> "serve", serve |-> "stop_inverter",
   stop_inverter |-> "stop_ups", stop_ups |-> "stop_alarm", stop_alarm |-> "close_db",
   close_db |-> "kill_inverter", kill_inverter |-> "wait_inverter",
   wait_inverter |-> "kill_ups", kill_ups |-> "wait_ups", wait_ups |-> "exit"]

After ==
  [fork_inverter |-> "fork_ups", fork_ups |-> "start_inverter",
   start_inverter |-> "start_ups", start_ups |-> "start_alarm",
   start_alarm |-> "serve", serve |-> "stop_alarm",
   stop_alarm |-> "stop_inverter", stop_inverter |-> "stop_ups", stop_ups |-> "close_db",
   close_db |-> "kill_inverter", kill_inverter |-> "wait_inverter",
   wait_inverter |-> "kill_ups", kill_ups |-> "wait_ups", wait_ups |-> "exit"]

Proceed == step' = After[step]

\* startup_failed: shutdown_runtime, then EXIT_FAILURE.
StartupFailed == step' = "stop_alarm" /\ outcome' = "failure"

ProcInit ==
  /\ step = "fork_inverter"
  /\ running = TRUE
  /\ outcome = "success"
  /\ threads = {}
  /\ child = [f \in FamilyNames |-> "none"]
  /\ pubRunning = [f \in FamilyNames |-> FALSE]
  /\ signals = 0
  /\ abandoned = {}
  /\ enabled \in SUBSET FamilyNames

-----------------------------------------------------------------------------
(* Startup.                                                                  *)

ForkPublisher(f) ==
  /\ step = ForkStep[f]
  /\ \/ /\ f \notin enabled
        /\ Proceed
        /\ UNCHANGED <<outcome, child>>
     \/ /\ f \in enabled
        /\ child' = [child EXCEPT ![f] = "born"]
        /\ Proceed
        /\ UNCHANGED outcome
     \/ /\ f \in enabled /\ "fork" \in Faults
        /\ StartupFailed
        /\ UNCHANGED child
  /\ UNCHANGED <<running, threads, pubRunning, signals, abandoned, enabled>>

\* start_*_modules goes on after a unit it cannot start (profile collision, no
\* thread) and reports the failure at the end.
StartModules(f) ==
  /\ step = StartStep[f]
  /\ \E started \in SUBSET Wanted(f) :
       /\ started # Wanted(f) => "module" \in Faults
       /\ threads' = threads \union started
       /\ IF started = Wanted(f) THEN Proceed /\ UNCHANGED outcome ELSE StartupFailed
  /\ UNCHANGED <<running, child, pubRunning, signals, abandoned, enabled>>

StartAlarm ==
  /\ step = "start_alarm"
  /\ \/ /\ threads' = threads \union {Monitor}
        /\ Proceed
        /\ UNCHANGED outcome
     \/ /\ "alarm" \in Faults
        /\ StartupFailed
        /\ UNCHANGED threads
  /\ UNCHANGED <<running, child, pubRunning, signals, abandoned, enabled>>

\* while (g_running) sleep(1).
Serve ==
  /\ step = "serve"
  /\ ~running
  /\ Proceed
  /\ UNCHANGED <<running, outcome, threads, child, pubRunning, signals, abandoned, enabled>>

-----------------------------------------------------------------------------
(* shutdown_runtime.                                                         *)

\* alarm_bridge_stop.
StopAlarm ==
  /\ step = "stop_alarm"
  /\ threads' = threads \ {Monitor}
  /\ Proceed
  /\ UNCHANGED <<running, outcome, child, pubRunning, signals, abandoned, enabled>>

\* stop_inverter_modules, stop_ups_modules.
StopModules(f) ==
  /\ step = StopStep[f]
  /\ threads' = threads \ Wanted(f)
  /\ Proceed
  /\ UNCHANGED <<running, outcome, child, pubRunning, signals, abandoned, enabled>>

\* alarm_manager_close.
CloseDb ==
  /\ step = "close_db"
  /\ Proceed
  /\ UNCHANGED <<running, outcome, threads, child, pubRunning, signals, abandoned, enabled>>

\* Mutant of Signalled: the handler leaves g_pub_running alone.
SignalIgnored(f, c, r) == c = child[f] /\ r = pubRunning[f]

\* What a signal does to a publisher: its own handler clears g_pub_running, which
\* is set again when its init is done; before that, the handler inherited from
\* the parent clears a flag the child does not read.  A signal in cmos_pub_init
\* may instead make a system call, and with it the init, fail.
Signalled(f, c, r) ==
  \/ /\ c = child[f]
     /\ r = (pubRunning[f] /\ child[f] # "loop")
  \/ child[f] = "init" /\ c = "exited" /\ r = FALSE

\* Mutant of KillPublisher: no waitpid after the signal.
KillNoWait(f) ==
  /\ step = KillStep[f]
  /\ step' = After[WaitStep[f]]
  /\ \E c \in {child[f], "exited"}, r \in BOOLEAN :
       /\ Signalled(f, c, r)
       /\ child' = [child EXCEPT ![f] = c]
       /\ pubRunning' = [pubRunning EXCEPT ![f] = r]
  /\ UNCHANGED <<running, outcome, threads, signals, abandoned, enabled>>

\* stop_cmos_publisher: SIGTERM, then waitpid.
KillPublisher(f) ==
  /\ step = KillStep[f]
  /\ IF child[f] = "none"
     THEN step' = After[WaitStep[f]] /\ UNCHANGED <<child, pubRunning>>
     ELSE /\ \E c \in {child[f], "exited"}, r \in BOOLEAN :
               /\ Signalled(f, c, r)
               /\ child' = [child EXCEPT ![f] = c]
               /\ pubRunning' = [pubRunning EXCEPT ![f] = r]
          /\ Proceed
  /\ UNCHANGED <<running, outcome, threads, signals, abandoned, enabled>>

WaitPublisher(f) ==
  /\ step = WaitStep[f]
  /\ child[f] = "exited"
  /\ child' = [child EXCEPT ![f] = "reaped"]
  /\ Proceed
  /\ UNCHANGED <<running, outcome, threads, pubRunning, signals, abandoned, enabled>>

Main ==
  \/ \E f \in FamilyNames : \/ ForkPublisher(f) \/ StartModules(f) \/ StopModules(f)
                         \/ KillPublisher(f) \/ WaitPublisher(f)
  \/ StartAlarm \/ Serve \/ StopAlarm \/ CloseDb

-----------------------------------------------------------------------------
(* The publisher: *_cmos_pub_run.                                            *)

InstallHandlers(f) ==
  /\ child[f] = "born"
  /\ child' = [child EXCEPT ![f] = "init"]
  /\ UNCHANGED <<step, running, outcome, threads, pubRunning, signals, abandoned, enabled>>

\* cmos_pub_init done: g_pub_running = 1.
PublisherUp(f) ==
  /\ child[f] = "init"
  /\ child' = [child EXCEPT ![f] = "loop"]
  /\ pubRunning' = [pubRunning EXCEPT ![f] = TRUE]
  /\ UNCHANGED <<step, running, outcome, threads, signals, abandoned, enabled>>

\* cmos_pub_init failed: the child logs it and ends.
PublisherInitFails(f) ==
  /\ child[f] = "init" /\ "publisher" \in Faults
  /\ child' = [child EXCEPT ![f] = "exited"]
  /\ UNCHANGED <<step, running, outcome, threads, pubRunning, signals, abandoned, enabled>>

PublisherEnds(f) ==
  /\ child[f] = "loop" /\ ~pubRunning[f]
  /\ child' = [child EXCEPT ![f] = "exited"]
  /\ UNCHANGED <<step, running, outcome, threads, pubRunning, signals, abandoned, enabled>>

Publisher(f) ==
  InstallHandlers(f) \/ PublisherUp(f) \/ PublisherInitFails(f) \/ PublisherEnds(f)

-----------------------------------------------------------------------------
(* Signals from outside.                                                     *)

\* signal_handler in the parent; without SA_RESTART it also makes a waitpid in
\* progress return, and the publisher is forgotten (*pid = -1).
Waiting == {f \in FamilyNames : step = WaitStep[f]}

ParentSignalled ==
  /\ step # "exit" /\ signals < MaxSignals
  /\ signals' = signals + 1
  /\ running' = FALSE
  /\ IF Waiting = {} THEN UNCHANGED step ELSE Proceed
  /\ abandoned' = abandoned \union Waiting

Terminate ==
  /\ ParentSignalled
  /\ UNCHANGED <<outcome, threads, child, pubRunning, enabled>>

Interrupt ==
  /\ ParentSignalled
  /\ \E c \in [FamilyNames -> {"none", "born", "init", "loop", "exited", "reaped"}],
        r \in [FamilyNames -> BOOLEAN] :
       /\ \A f \in FamilyNames : Signalled(f, c[f], r[f])
       /\ child' = c /\ pubRunning' = r
  /\ UNCHANGED <<outcome, threads, enabled>>

\* Rounds that change nothing here: the parent sleeps and tests g_running again,
\* a publisher polls and publishes, or everything is over.
Round ==
  /\ \/ step = "serve" /\ running
     \/ \E f \in FamilyNames : child[f] = "loop" /\ pubRunning[f]
     \/ step = "exit"
  /\ UNCHANGED procVars

ProcNext ==
  \/ Main
  \/ \E f \in FamilyNames : Publisher(f)
  \/ Terminate \/ Interrupt
  \/ Round

\* The parent and its children keep running; nobody has to send a signal.
ProcFairness == WF_procVars(Main) /\ \A f \in FamilyNames : WF_procVars(Publisher(f))

ProcSpec == ProcInit /\ [][ProcNext]_procVars /\ ProcFairness

-----------------------------------------------------------------------------
\* The types of the parent's and of the publishers' state.
TypeOK ==
  /\ step \in DOMAIN After \union {"exit"}
  /\ running \in BOOLEAN /\ outcome \in {"success", "failure"}
  /\ threads \subseteq (FamilyNames \X {"poll", "sub"}) \union {Monitor}
  /\ child \in [FamilyNames -> {"none", "born", "init", "loop", "exited", "reaped"}]
  /\ pubRunning \in [FamilyNames -> BOOLEAN]
  /\ signals \in 0 .. MaxSignals
  /\ abandoned \subseteq FamilyNames /\ enabled \subseteq FamilyNames

\* "Stop modules, alarm bridge, and CMOS publisher children": whichever startup
\* step failed and whenever the signal came, the process ends without a thread
\* and without a child left behind, except a publisher whose waitpid a further
\* signal cut short.
NothingLeftBehind ==
  step = "exit" =>
    /\ threads = {}
    /\ \A f \in FamilyNames \ abandoned : child[f] \in {"none", "reaped"}

\* "Call alarm_bridge_stop() during shutdown, before releasing any resource that
\* an active ctx still points to": while the alarm monitor runs, the modules it
\* evaluates are all up.
MonitorHasModules ==
  Monitor \in threads => \A f \in FamilyNames : Wanted(f) \subseteq threads

\* A shutdown that begins when every publisher is in its loop, or gone, ends.
OrderlyShutdownEnds ==
  (step = "stop_alarm" /\ \A f \in FamilyNames : child[f] \notin {"born", "init"})
    ~> (step = "exit")

\* "CMOS pub / module / alarm init failure -> cleanup and EXIT_FAILURE": a
\* startup that failed ends the process.
FailedStartupExits == (outcome = "failure") ~> (step = "exit")
=============================================================================
