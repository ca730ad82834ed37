------------------------------- MODULE Bridge -------------------------------
(***************************************************************************)
(* Commands on their way to the inverter: the CMOS subscriber of           *)
(* src/src/inverter_cmos_bridge.c, whose handlers turn a message into one  *)
(* or two register writes, the unit's command queue, and the poll thread   *)
(* that drains it into the drive.                                          *)
(*                                                                         *)
(* The queue is the merging FIFO of module CmdFifo, which CmdQueue         *)
(* implements.  A handler's reads of the shared pool and its pushes are    *)
(* separate steps: the poll thread scans, loses the connection, drains and *)
(* reconnects between them.  All three command registers are mapped and    *)
(* writable, so on_write's checks pass and only a full queue refuses.      *)
(***************************************************************************)
EXTENDS Integers, Sequences

CONSTANTS
  Upper, Lower,   \* the frequency limits the drive holds
  Duties,         \* duty commands, in 1/100 percent
  Frequencies,    \* frequency commands
  Capacity        \* MODBUS_DEFAULT_CMD_QUEUE_CAPACITY

Lost  == 65535          \* what a lost connection leaves in the pool
Word  == 0 .. Lost
Stop  == "STOP"         \* INVERTER_STOP_BIT | INVERTER_ENABLE_ACCELERATION_BIT
Run   == "RUN"

ASSUME BridgeAssumption ==
  /\ {Upper, Lower} \subseteq Word /\ 0 < Lower /\ Lower < Upper /\ Upper < Lost
  /\ Duties \subseteq Word /\ Frequencies \subseteq Word
  /\ Capacity \in Nat \ {0}

VARIABLES
  q,         \* cmd_queue
  sub,       \* the subscriber: "ready", "lower", "second" or "ended"
  duty, up,  \* locals of on_main_pump_duty_cmd: the duty and the upper limit read
  next,      \* the write a handler still has to push
  limits,    \* the pool's two limit registers
  poll,      \* the poll thread: "top", "drain", "write", "scan", "down", ...
  cmd,       \* the command it popped
  initReq,   \* init_requested
  drive,     \* the drive's frequency and operation command registers
  want,      \* history: the frequency and operation the accepted messages asked for last
  fate       \* history: what became of each, "waiting", "taken" or "undone"

subVars  == <<sub, duty, up, next>>
history  == <<want, fate>>
vars == <<q, sub, duty, up, next, limits, poll, cmd, initReq, drive, want, fate>>

Regs  == {"frequency", "operation"}
Fates == {"waiting", "taken", "undone"}
Write(r, v) == [addr |-> r, value |-> v]
None == Write("none", 0)

Commands ==
  [addr : {"frequency"}, value : Word] \union [addr : {"operation"}, value : {Stop, Run}]
    \union {Write("fault", 0)}

\* inverter_queue_merge_allowed: not for the fault control register.
Supersedes(c, e) == e.addr = c.addr /\ c.addr \in Regs

Queue == INSTANCE CmdFifo

Waits(r) == \E k \in DOMAIN q : q[k].addr = r

-----------------------------------------------------------------------------
(* Conversion between duty and frequency, both ways.                         *)

\* Mutant of DutyConvertFrequency: duties above 100 % are not clamped.
DutyUnclamped(d, upper, lower) ==
  IF upper <= lower THEN lower
  ELSE (lower + ((upper - lower) * (d \div 100)) \div 100
              + ((upper - lower) * (d % 100)) \div 10000) % 65536

DutyConvertFrequency(d, upper, lower) ==
  IF upper <= lower THEN lower
  ELSE IF d >= 10000 THEN upper
  ELSE (lower + ((upper - lower) * (d \div 100)) \div 100
              + ((upper - lower) * (d % 100)) \div 10000) % 65536

\* frequency_convert_duty: what the publisher makes of a frequency register.
FrequencyConvertDuty(f, upper, lower) ==
  IF upper <= lower \/ f <= lower THEN 0
  ELSE IF f >= upper THEN 10000
  ELSE ((f - lower) * 10000 + (upper - lower) \div 2) \div (upper - lower)

-----------------------------------------------------------------------------
Init ==
  /\ q = << >> /\ cmd = None /\ initReq = FALSE
  /\ sub = "ready" /\ duty = 0 /\ up = 0 /\ next = None
  /\ limits = [upper |-> 0, lower |-> 0]
  /\ poll = "down"
  /\ drive = [frequency |-> 0, operation |-> Stop]
  /\ want = drive /\ fate = [r \in Regs |-> "taken"]

-----------------------------------------------------------------------------
(* The histories.  They follow events only: a message accepted, a write      *)
(* popped, a write that failed, a register written to rest.                  *)

\* A message is accepted that asks for the registers of m.
Asked(m) ==
  /\ want' = [r \in Regs |-> IF r \in DOMAIN m THEN m[r] ELSE want[r]]
  /\ fate' = [r \in Regs |-> IF r \in DOMAIN m THEN "waiting" ELSE fate[r]]

\* What was from for the registers of W is to.
Becomes(W, from, to) ==
  /\ fate' = [r \in Regs |-> IF r \in W /\ fate[r] \in from THEN to ELSE fate[r]]
  /\ UNCHANGED want

-----------------------------------------------------------------------------
(* The subscriber's handlers.                                                *)

\* What a register comes to hold if no further command is given.
Settled(r) ==
  IF Waits(r) THEN q[CHOOSE k \in DOMAIN q : q[k].addr = r].value
  ELSE IF cmd.addr = r THEN cmd.value ELSE drive[r]

\* on_write: queued, in the place of a waiting write or at the end, or refused.
Queued(c)  == Queue!Merge(c) \/ Queue!Add(c)
Refused(c) ==
  (c.addr \in Regs => ~Waits(c.addr)) /\ Len(q) >= Capacity /\ UNCHANGED q

\* on_operation_cmd, on_fault_control_cmd and on_bypass_cmd: one write.
OneWrite(c) ==
  /\ sub = "ready"
  /\ \/ Queued(c) /\ Asked([r \in Regs \intersect {c.addr} |-> c.value])
     \/ Refused(c) /\ UNCHANGED history
  /\ UNCHANGED <<subVars, limits, poll, cmd, initReq, drive>>

OnOperation(v) == OneWrite(Write("operation", v))
OnFaultControl == OneWrite(Write("fault", 0))

\* Mutant of FirstOfTwo: a stop ends with its frequency.
FirstNoStop(f, op) ==
  LET c == Write("frequency", f)
  IN  \/ /\ Queued(c)
         /\ Asked([frequency |-> f, operation |-> op])
         /\ sub' = (IF op = Stop THEN "ready" ELSE "second")
         /\ next' = (IF op = Stop THEN None ELSE Write("operation", op))
      \/ /\ Refused(c)
         /\ sub' = "ready" /\ next' = None
         /\ UNCHANGED history

\* The frequency, then the operation; without the one, not the other.
FirstOfTwo(f, op) ==
  LET c == Write("frequency", f)
  IN  \/ /\ Queued(c)
         /\ Asked([frequency |-> f, operation |-> op])
         /\ sub' = "second" /\ next' = Write("operation", op)
      \/ /\ Refused(c)
         /\ sub' = "ready" /\ next' = None
         /\ UNCHANGED history

OnFrequencyWrite(f) ==
  /\ sub = "ready"
  /\ FirstOfTwo(f, IF f = 0 THEN Stop ELSE Run)
  /\ UNCHANGED <<duty, up, limits, poll, cmd, initReq, drive>>

\* on_main_pump_duty_cmd reads the upper limit ...
OnMainPump(d) ==
  /\ sub = "ready"
  /\ sub' = "lower" /\ duty' = d /\ up' = limits.upper
  /\ UNCHANGED <<q, next, limits, poll, cmd, initReq, drive, history>>

\* ... then the lower one, converts and queues the first write.
PumpConvert ==
  /\ sub = "lower"
  /\ IF duty = 0 THEN FirstOfTwo(0, Stop)
     ELSE FirstOfTwo(DutyConvertFrequency(duty, up, limits.lower), Run)
  /\ duty' = 0 /\ up' = 0
  /\ UNCHANGED <<limits, poll, cmd, initReq, drive>>

\* The second write of either.  If it is refused, or the thread is cancelled
\* first, the frequency stands alone: a stop without its STOP.
SecondOfTwo ==
  /\ sub = "second"
  /\ \/ Queued(next) /\ Becomes({next.addr}, Fates, "waiting")
     \/ Refused(next) /\ Becomes({next.addr}, Fates, "undone")
  /\ sub' = "ready" /\ next' = None
  /\ UNCHANGED <<duty, up, limits, poll, cmd, initReq, drive>>

\* on_init_inverter_cmd.
OnInit ==
  /\ sub = "ready" /\ ~initReq
  /\ initReq' = TRUE
  /\ UNCHANGED <<q, subVars, limits, poll, cmd, drive, history>>

\* inverter_cmos_bridge_stop cancels the thread wherever it is.
Cancel ==
  /\ sub # "ended"
  /\ sub' = "ended" /\ duty' = 0 /\ up' = 0 /\ next' = None
  /\ Becomes({next.addr}, Fates, "undone")
  /\ UNCHANGED <<q, limits, poll, cmd, initReq, drive>>

Subscriber ==
  \/ \E v \in {Stop, Run} : OnOperation(v)
  \/ OnFaultControl
  \/ \E f \in Frequencies : OnFrequencyWrite(f)
  \/ \E d \in Duties : OnMainPump(d)
  \/ PumpConvert \/ SecondOfTwo \/ OnInit \/ Cancel

-----------------------------------------------------------------------------
(* The poll thread, as far as it touches commands and limits.                *)

AtRest == [frequency |-> 0, operation |-> Stop]

\* The registers of W are set to rest.  What still waits is written afterwards.
WriteRest(W) ==
  /\ drive' = [r \in Regs |-> IF r \in W THEN AtRest[r] ELSE drive[r]]
  /\ Becomes(W, {"taken"}, "undone")

\* unit_connect: init_inverter_reg stops an RTU drive, each write on its own;
\* over TCP nothing is written.
Connect ==
  /\ poll = "down"
  /\ \E W \in SUBSET Regs : WriteRest(W)
  /\ poll' = "top"
  /\ UNCHANGED <<q, subVars, limits, cmd, initReq>>

\* run_init_sequence, on request: up to the first write that fails.
InitCheck ==
  /\ poll = "top"
  /\ IF initReq THEN \E W \in {{}, {"frequency"}, Regs} : WriteRest(W)
     ELSE UNCHANGED <<drive, history>>
  /\ initReq' = FALSE
  /\ poll' = "drain"
  /\ UNCHANGED <<q, subVars, limits, cmd>>

\* Mutant of DrainPop: the newest command first.
DrainPopNewest ==
  /\ poll = "drain" /\ q # << >>
  /\ cmd' = q[Len(q)] /\ q' = SubSeq(q, 1, Len(q) - 1)
  /\ Becomes({cmd'.addr}, {"waiting"}, "taken")
  /\ poll' = "write"
  /\ UNCHANGED <<subVars, limits, initReq, drive>>

DrainPop ==
  /\ poll = "drain" /\ q # << >>
  /\ cmd' = Head(q) /\ Queue!Remove
  /\ Becomes({cmd'.addr}, {"waiting"}, "taken")
  /\ poll' = "write"
  /\ UNCHANGED <<subVars, limits, initReq, drive>>

\* A write that fails is dropped.
DrainWrite(ok) ==
  /\ poll = "write"
  /\ IF ok
     THEN /\ drive' = [r \in Regs |-> IF r = cmd.addr THEN cmd.value ELSE drive[r]]
          /\ UNCHANGED history
     ELSE Becomes({cmd.addr}, {"taken"}, "undone") /\ UNCHANGED drive
  /\ cmd' = None /\ poll' = "drain"
  /\ UNCHANGED <<q, subVars, limits, initReq>>

\* read_profile_to_pool on the two limits, one after the other: a reading, or
\* 0xFFFF when the connection is given up; a failed read below the threshold
\* changes nothing.
Limit(r, v, to) ==
  /\ limits' = [limits EXCEPT ![r] = v]
  /\ poll' = to
  /\ UNCHANGED <<q, subVars, cmd, initReq, drive, history>>

ScanUpper == poll = "drain" /\ q = << >> /\ Limit("upper", Upper, "scan")
ScanLower == poll = "scan" /\ Limit("lower", Lower, "top")
ScanFails == poll = "drain" /\ q = << >> /\ Limit("upper", limits.upper, "top")
LoseUpper == poll = "drain" /\ q = << >> /\ Limit("upper", Lost, "lost")
LoseLower == poll = "lost" /\ Limit("lower", Lost, "down")

Serve ==
  \/ InitCheck \/ DrainPop
  \/ \E ok \in BOOLEAN : DrainWrite(ok)
  \/ ScanUpper \/ ScanLower \/ ScanFails \/ LoseUpper \/ LoseLower

Next == Subscriber \/ Connect \/ Serve

\* A connected poll thread keeps running.  Nobody has to send commands, and the
\* drive need not answer a connect.
Spec == Init /\ [][Next]_vars /\ WF_vars(Serve)

-----------------------------------------------------------------------------
\* The types of the variables.
TypeOK ==
  /\ q \in Seq(Commands) /\ Len(q) <= Capacity
  /\ sub \in {"ready", "lower", "second", "ended"}
  /\ {duty, up} \subseteq Word
  /\ {next, cmd} \subseteq Commands \union {None}
  /\ limits \in [{"upper", "lower"} -> Word]
  /\ poll \in {"down", "top", "drain", "write", "scan", "lost"}
  /\ initReq \in BOOLEAN
  /\ drive \in [frequency : Word, operation : {Stop, Run}]
  /\ want \in [frequency : Word, operation : {Stop, Run}]
  /\ fate \in [Regs -> Fates]

\* What the last accepted message asked of a register waits in the queue until it
\* is popped, and from then on no other write of that register waits and the drive
\* gets or holds that value: however the two writes of a message, merges, the
\* drain, an init and reconnects interleave, no older command comes out last and no
\* message's half is lost.  Excepted is a value that the code itself gives up:
\* its write failed after it was popped, a connect or an init wrote the register to
\* rest afterwards, or the second push of its message was refused or cancelled,
\* which loses the operation and not the frequency.
LastCommandStands ==
  \A r \in Regs : next.addr # r /\ fate[r] # "undone" =>
    Settled(r) = want[r] /\ (fate[r] = "waiting" <=> Waits(r))

\* With both limits read from the drive, a duty gives a frequency within them.
FrequencyWithinLimits ==
  [][(sub = "lower" /\ duty # 0 /\ up = Upper /\ limits.lower = Lower /\ sub' = "second")
       => want'.frequency \in Lower .. Upper]_vars

\* A command that waits is taken to the drive, however many others come, unless
\* the connection is lost for good: merging in place, first in first out and the
\* drain before each scan let none starve.
EveryCommandTaken ==
  \A r \in Regs \union {"fault"} :
    []<>(poll # "down") => (Waits(r) ~> cmd.addr = r)
=============================================================================
