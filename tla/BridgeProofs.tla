---------------------------- MODULE BridgeProofs ----------------------------
(***************************************************************************)
(* Proofs about the commands on their way to the inverter, for any limits, *)
(* duties, frequencies and queue capacity, any interleaving of the         *)
(* subscriber with the poll thread, and writes that fail at any time.      *)
(***************************************************************************)
EXTENDS Bridge, SequenceTheorems, TLAPS

\* At most one write waits for each of the two registers.
OneEach(s) ==
  \A i, j \in DOMAIN s : s[i].addr \in Regs /\ s[j].addr = s[i].addr => i = j

\* The subscriber has a write in hand exactly between the two pushes of a message,
\* and it is the operation that the message asked for; the poll thread has one
\* exactly while it writes.
InHand ==
  /\ IF sub = "second" THEN next = Write("operation", want.operation) ELSE next = None
  /\ IF poll = "write" THEN cmd \in Commands ELSE cmd = None

\* What a register comes to hold, of a queue, a command in hand and a drive.
SettledOf(s, c, d, r) ==
  IF \E k \in DOMAIN s : s[k].addr = r
  THEN s[CHOOSE k \in DOMAIN s : s[k].addr = r].value
  ELSE IF c.addr = r THEN c.value ELSE d[r]

\* A write of a register waits in a queue.
Has(s, r) == \E k \in DOMAIN s : s[k].addr = r

\* LastCommandStands, of any queue, commands in hand, drive and histories.
Stands(s, c, d, n, w, f) ==
  \A r \in Regs : n.addr # r /\ f[r] # "undone" =>
    SettledOf(s, c, d, r) = w[r] /\ (f[r] = "waiting" <=> Has(s, r))

\* The inductive invariant.
IInv == TypeOK /\ OneEach(q) /\ InHand /\ Stands(q, cmd, drive, next, want, fate)

-----------------------------------------------------------------------------
\* Words, the queue's capacity and the inputs.
LEMMA LostWord == Lost \in Nat /\ Lost < 65536 /\ 65535 <= Lost
  BY DEF Lost
LEMMA Words ==
  /\ \A w \in Word : w \in Nat /\ w < 65536
  /\ \A w \in Nat : w < 65536 => w \in Word
<1>1. /\ \A w \in Word : w \in Nat /\ w <= Lost
      /\ \A w \in Nat : w <= Lost => w \in Word
  BY LostWord DEF Word
<1> QED
  BY <1>1, LostWord
LEMMA Bounds ==
  /\ Upper \in Word /\ Lower \in Word /\ 0 < Lower /\ Lower < Upper /\ Upper < 65535
  /\ Duties \subseteq Word /\ Frequencies \subseteq Word
  /\ Capacity \in Nat \ {0}
  BY BridgeAssumption DEF Lost

\* A waiting write is the one that counts.
LEMMA WaitingCounts ==
  ASSUME NEW s, OneEach(s), NEW r \in Regs, NEW k \in DOMAIN s, s[k].addr = r, NEW c, NEW d
  PROVE  SettledOf(s, c, d, r) = s[k].value
<1>1. \A j \in DOMAIN s : s[j].addr = r => j = k
  BY DEF OneEach
<1>2. (CHOOSE j \in DOMAIN s : s[j].addr = r) = k
  BY <1>1
<1> QED
  BY <1>2 DEF SettledOf

\* A handler's write that is queued is the one that counts for its register, and
\* leaves the other register's alone.
LEMMA QueuedCounts ==
  ASSUME q \in Seq(Commands), Len(q) <= Capacity, OneEach(q), NEW c \in Commands, Queued(c)
  PROVE  /\ q' \in Seq(Commands) /\ Len(q') <= Capacity /\ OneEach(q')
         /\ \A r \in Regs : \A x, d :
              SettledOf(q', x, d, r) = IF r = c.addr THEN c.value ELSE SettledOf(q, x, d, r)
         /\ \A r \in Regs : Has(q', r) <=> (r = c.addr \/ Has(q, r))
<1>1. Len(q) \in Nat /\ DOMAIN q = 1 .. Len(q)
  OBVIOUS
<1>2. CASE Queue!Merge(c)
  <2>1. PICK k \in 1 .. Len(q) : /\ Supersedes(c, q[k])
                                 /\ q' = [q EXCEPT ![k] = c]
    BY <1>2 DEF Queue!Merge, Queue!Superseded
  <2>2. q[k].addr = c.addr /\ c.addr \in Regs
    BY <2>1 DEF Supersedes
  <2>3. /\ q' \in Seq(Commands) /\ Len(q') = Len(q) /\ DOMAIN q' = DOMAIN q
        /\ q'[k] = c /\ \A j \in DOMAIN q : j # k => q'[j] = q[j]
    BY <1>1, <2>1
  <2>4. \A j \in DOMAIN q : q'[j].addr = q[j].addr
    BY <2>2, <2>3
  <2>5. OneEach(q')
    BY <2>3, <2>4 DEF OneEach
  <2>6. ASSUME NEW r \in Regs, NEW x, NEW d
        PROVE  SettledOf(q', x, d, r) = IF r = c.addr THEN c.value ELSE SettledOf(q, x, d, r)
    <3>1. CASE r = c.addr
      BY <1>1, <2>3, <2>5, <3>1, WaitingCounts
    <3>2. CASE r # c.addr /\ \E j \in DOMAIN q : q[j].addr = r
      <4>1. PICK j \in DOMAIN q : q[j].addr = r
        BY <3>2
      <4>2. j # k /\ q'[j] = q[j] /\ q'[j].addr = r /\ j \in DOMAIN q'
        BY <2>2, <2>3, <3>2, <4>1
      <4>3. SettledOf(q', x, d, r) = q'[j].value
        BY <2>5, <4>2, WaitingCounts
      <4>4. SettledOf(q, x, d, r) = q[j].value
        BY <4>1, WaitingCounts
      <4> QED
        BY <3>2, <4>2, <4>3, <4>4
    <3>3. CASE r # c.addr /\ \A j \in DOMAIN q : q[j].addr # r
      BY <2>3, <2>4, <3>3 DEF SettledOf
    <3> QED
      BY <3>1, <3>2, <3>3
  <2>7. \A r \in Regs : Has(q', r) <=> (r = c.addr \/ Has(q, r))
    BY <1>1, <2>2, <2>3, <2>4 DEF Has
  <2> QED
    BY <2>3, <2>5, <2>6, <2>7
<1>3. CASE Queue!Add(c)
  <2> DEFINE n == Len(q) + 1
  <2>1. /\ \A k \in 1 .. Len(q) : ~Supersedes(c, q[k])
        /\ Len(q) < Capacity /\ q' = Append(q, c)
    BY <1>3 DEF Queue!Add
  <2>2. /\ q' \in Seq(Commands) /\ Len(q') = n /\ DOMAIN q' = 1 .. n
        /\ q'[n] = c /\ \A j \in DOMAIN q : q'[j] = q[j]
    BY <1>1, <2>1
  <2>3. Len(q') <= Capacity
    BY <1>1, <2>1, <2>2, Bounds
  <2>4. c.addr \in Regs => \A k \in DOMAIN q : q[k].addr # c.addr
    BY <1>1, <2>1 DEF Supersedes
  <2>5. OneEach(q')
    <3> SUFFICES ASSUME NEW i \in 1 .. n, NEW j \in 1 .. n,
                        q'[i].addr \in Regs, q'[j].addr = q'[i].addr
                 PROVE  i = j
      BY <2>2 DEF OneEach
    <3>1. CASE i = n /\ j = n
      BY <3>1
    <3>2. CASE i = n /\ j # n
      BY <1>1, <2>2, <2>4, <3>2
    <3>3. CASE i # n /\ j = n
      BY <1>1, <2>2, <2>4, <3>3
    <3>4. CASE i # n /\ j # n
      BY <1>1, <2>2, <3>4 DEF OneEach
    <3> QED
      BY <3>1, <3>2, <3>3, <3>4
  <2>6. ASSUME NEW r \in Regs, NEW x, NEW d
        PROVE  SettledOf(q', x, d, r) = IF r = c.addr THEN c.value ELSE SettledOf(q, x, d, r)
    <3>1. CASE r = c.addr
      <4>1. n \in DOMAIN q' /\ q'[n].addr = r
        BY <1>1, <2>2, <3>1
      <4>2. SettledOf(q', x, d, r) = q'[n].value
        BY <2>5, <4>1, WaitingCounts
      <4> QED
        BY <2>2, <3>1, <4>2
    <3>2. CASE r # c.addr /\ \E j \in DOMAIN q : q[j].addr = r
      <4>1. PICK j \in DOMAIN q : q[j].addr = r
        BY <3>2
      <4>2. q'[j] = q[j] /\ q'[j].addr = r /\ j \in DOMAIN q'
        BY <1>1, <2>2, <4>1
      <4>3. SettledOf(q', x, d, r) = q'[j].value
        BY <2>5, <4>2, WaitingCounts
      <4>4. SettledOf(q, x, d, r) = q[j].value
        BY <4>1, WaitingCounts
      <4> QED
        BY <3>2, <4>2, <4>3, <4>4
    <3>3. CASE r # c.addr /\ \A j \in DOMAIN q : q[j].addr # r
      <4>1. \A j \in DOMAIN q' : q'[j].addr # r
        BY <1>1, <2>2, <3>3
      <4> QED
        BY <3>3, <4>1 DEF SettledOf
    <3> QED
      BY <3>1, <3>2, <3>3
  <2>7. \A r \in Regs : Has(q', r) <=> (r = c.addr \/ Has(q, r))
    <3>1. n \in DOMAIN q' /\ \A j \in DOMAIN q' : j = n \/ j \in DOMAIN q
      BY <1>1, <2>2
    <3>2. \A j \in DOMAIN q : j \in DOMAIN q'
      BY <1>1, <2>2
    <3> QED
      BY <2>2, <3>1, <3>2 DEF Has
  <2> QED
    BY <2>2, <2>3, <2>5, <2>6, <2>7
<1> QED
  BY <1>2, <1>3 DEF Queued

\* The oldest write moves into the poll thread's hand and still counts there.
LEMMA RemovedCounts ==
  ASSUME q \in Seq(Commands), Len(q) <= Capacity, OneEach(q), Queue!Remove, NEW d
  PROVE  /\ Head(q) \in Commands
         /\ q' \in Seq(Commands) /\ Len(q') <= Capacity /\ OneEach(q')
         /\ \A r \in Regs : SettledOf(q', Head(q), d, r) = SettledOf(q, None, d, r)
         /\ \A r \in Regs : Has(q', r) <=> (Has(q, r) /\ r # Head(q).addr)
<1>1. q # << >> /\ q' = Tail(q) /\ Len(q) \in Nat \ {0} /\ DOMAIN q = 1 .. Len(q)
      /\ Head(q) = q[1] /\ 1 \in DOMAIN q
  BY DEF Queue!Remove
<1>2. /\ q' \in Seq(Commands) /\ Len(q') = Len(q) - 1 /\ DOMAIN q' = 1 .. Len(q) - 1
      /\ \A j \in DOMAIN q' : j + 1 \in DOMAIN q /\ q'[j] = q[j + 1]
  BY <1>1
<1>3. Len(q') <= Capacity
  BY <1>1, <1>2, Bounds
<1>4. OneEach(q')
  <2> SUFFICES ASSUME NEW i \in DOMAIN q', NEW j \in DOMAIN q',
                      q'[i].addr \in Regs, q'[j].addr = q'[i].addr
               PROVE  i = j
    BY DEF OneEach
  <2>1. i + 1 = j + 1
    BY <1>2 DEF OneEach
  <2> QED
    BY <1>1, <1>2, <2>1
<1>5. ASSUME NEW r \in Regs
      PROVE  SettledOf(q', Head(q), d, r) = SettledOf(q, None, d, r)
  <2>1. CASE q[1].addr = r
    <3>1. \A j \in DOMAIN q' : q'[j].addr # r
      <4> SUFFICES ASSUME NEW j \in DOMAIN q', q'[j].addr = r PROVE FALSE
        OBVIOUS
      <4>1. j + 1 = 1
        BY <1>1, <1>2, <2>1 DEF OneEach
      <4> QED
        BY <1>1, <1>2, <4>1
    <3>2. SettledOf(q', Head(q), d, r) = q[1].value
      BY <1>1, <2>1, <3>1 DEF SettledOf
    <3> QED
      BY <1>1, <2>1, <3>2, WaitingCounts
  <2>2. CASE q[1].addr # r /\ \E k \in DOMAIN q' : q'[k].addr = r
    <3>1. PICK k \in DOMAIN q' : q'[k].addr = r
      BY <2>2
    <3>2. k + 1 \in DOMAIN q /\ q'[k] = q[k + 1] /\ q[k + 1].addr = r
      BY <1>2, <3>1
    <3>3. SettledOf(q', Head(q), d, r) = q'[k].value
      BY <1>4, <3>1, WaitingCounts
    <3>4. SettledOf(q, None, d, r) = q[k + 1].value
      BY <3>2, WaitingCounts
    <3> QED
      BY <3>2, <3>3, <3>4
  <2>3. CASE q[1].addr # r /\ \A k \in DOMAIN q' : q'[k].addr # r
    <3>1. \A k \in DOMAIN q : q[k].addr # r
      <4> TAKE k \in DOMAIN q
      <4>1. k = 1 \/ (k - 1 \in DOMAIN q' /\ q'[k - 1] = q[k])
        BY <1>1, <1>2
      <4> QED
        BY <2>3, <4>1
    <3>2. None.addr # r
      BY DEF None, Write, Regs
    <3> QED
      BY <1>1, <2>3, <3>1, <3>2 DEF SettledOf
  <2> QED
    BY <2>1, <2>2, <2>3
<1>6. ASSUME NEW r \in Regs
      PROVE  Has(q', r) <=> (Has(q, r) /\ r # Head(q).addr)
  <2>1. ASSUME Has(q', r) PROVE Has(q, r) /\ r # Head(q).addr
    <3>1. PICK j \in DOMAIN q' : q'[j].addr = r
      BY <2>1 DEF Has
    <3>2. j + 1 \in DOMAIN q /\ q[j + 1].addr = r /\ j + 1 # 1
      BY <1>1, <1>2, <3>1
    <3>3. q[1].addr # r
      BY <1>1, <3>2 DEF OneEach
    <3> QED
      BY <1>1, <3>2, <3>3 DEF Has
  <2>2. ASSUME Has(q, r), r # Head(q).addr PROVE Has(q', r)
    <3>1. PICK k \in DOMAIN q : q[k].addr = r
      BY <2>2 DEF Has
    <3>2. k - 1 \in DOMAIN q' /\ q'[k - 1] = q[k]
      BY <1>1, <1>2, <2>2, <3>1
    <3> QED
      BY <3>1, <3>2 DEF Has
  <2> QED
    BY <2>1, <2>2
<1> QED
  BY <1>1, <1>2, <1>3, <1>4, <1>5, <1>6

-----------------------------------------------------------------------------
\* Of a whole number of frequency steps a duty below 100 % takes a part: the two
\* divisions of duty_convert_frequency round down and stay inside the limits.
LEMMA DutyInsideLimits ==
  ASSUME NEW d \in Word, NEW upper \in Word, NEW lower \in Word, lower < upper
  PROVE  /\ DutyConvertFrequency(d, upper, lower) \in Word
         /\ lower <= DutyConvertFrequency(d, upper, lower)
         /\ DutyConvertFrequency(d, upper, lower) <= upper
<1>1. d \in Nat /\ upper \in Nat /\ lower \in Nat /\ upper < 65536
  BY Words
<1>2. CASE d >= 10000
  <2>1. DutyConvertFrequency(d, upper, lower) = upper
    BY <1>1, <1>2 DEF DutyConvertFrequency
  <2> QED
    BY <1>1, <2>1
<1>3. CASE d < 10000
  <2> DEFINE span == upper - lower
             a == d \div 100
             b == d % 100
             x == (span * a) \div 100
             y == (span * b) \div 10000
  <2>1. span \in Nat /\ a \in 0 .. 99 /\ b \in 0 .. 99
    BY <1>1, <1>3
  <2>2. ASSUME NEW m \in Nat, NEW n \in 0 .. 99
        PROVE  m * n \in Nat /\ m * n <= 99 * m
    <3>1. n \in Nat /\ 99 - n \in Nat /\ m * (99 - n) \in Nat
      BY <2>2
    <3>2. m * n \in Nat /\ m * (99 - n) = 99 * m - m * n
      BY <3>1
    <3> QED
      BY <3>1, <3>2
  <2>3. /\ span * a \in Nat /\ span * a <= 99 * span
        /\ span * b \in Nat /\ span * b <= 99 * span
    BY <2>1, <2>2
  <2>4. ASSUME NEW m \in Nat, NEW p \in Nat, NEW r \in Nat, p <= 99 * m, r <= 99 * m
        PROVE  /\ p \div 100 \in Nat /\ r \div 10000 \in Nat
               /\ p \div 100 + r \div 10000 <= m
    <3>1. p \div 100 \in Nat /\ 100 * (p \div 100) <= p
      OBVIOUS
    <3>2. r \div 10000 \in Nat /\ 10000 * (r \div 10000) <= r
      OBVIOUS
    <3>3. ASSUME NEW i \in Nat, NEW j \in Nat, 100 * i <= 99 * m, 10000 * j <= 99 * m
          PROVE  i + j <= m
      BY <3>3
    <3>4. 100 * (p \div 100) <= 99 * m /\ 10000 * (r \div 10000) <= 99 * m
      BY <2>4, <3>1, <3>2
    <3> QED
      BY <3>1, <3>2, <3>3, <3>4
  <2>5. x \in Nat /\ y \in Nat /\ x + y <= span
    BY <2>1, <2>3, <2>4
  <2>6. DutyConvertFrequency(d, upper, lower) = (lower + x + y) % 65536
    BY <1>1, <1>3 DEF DutyConvertFrequency
  <2> HIDE DEF x, y
  <2>7. (lower + x + y) % 65536 = lower + x + y
    <3>1. lower + x + y \in Nat /\ lower + x + y < 65536
      BY <1>1, <2>5
    <3> QED
      BY <3>1
  <2>8. lower <= lower + x + y /\ lower + x + y <= upper /\ lower + x + y \in Nat
    BY <1>1, <2>5
  <2> QED
    BY <1>1, <2>6, <2>7, <2>8, Words
<1> QED
  BY <1>1, <1>2, <1>3

-----------------------------------------------------------------------------
\* The settings of the drive: a frequency and an operation.
Setting == [frequency : Word, operation : {Stop, Run}]

LEMMA Settings ==
  ASSUME NEW w
  PROVE  w \in Setting <=> /\ w = [r \in Regs |-> w[r]]
                            /\ w["frequency"] \in Word /\ w["operation"] \in {Stop, Run}
  BY DEF Setting, Regs

\* A write is to one of the two registers, with a value of its own, or to the fault
\* control register.
LEMMA CommandFacts ==
  /\ \A c \in Commands : /\ c.addr \in Regs \union {"fault"}
                         /\ c.addr = "frequency" => c.value \in Word
                         /\ c.addr = "operation" => c.value \in {Stop, Run}
  /\ \A f \in Word : Write("frequency", f) \in Commands
  /\ \A v \in {Stop, Run} : Write("operation", v) \in Commands
  /\ Write("fault", 0) \in Commands
  /\ \A a, v : Write(a, v).addr = a /\ Write(a, v).value = v
  /\ None.addr = "none" /\ None \notin Commands
  /\ "frequency" \in Regs /\ "operation" \in Regs /\ "none" \notin Regs /\ "fault" \notin Regs
  BY DEF Commands, Write, None, Regs

\* An accepted message changes the histories of the registers it asks for.
LEMMA AskedFacts ==
  ASSUME want \in Setting, fate \in [Regs -> Fates], NEW m, Asked(m),
         "frequency" \in DOMAIN m => m["frequency"] \in Word,
         "operation" \in DOMAIN m => m["operation"] \in {Stop, Run}
  PROVE  /\ want' \in Setting /\ fate' \in [Regs -> Fates]
         /\ \A r \in Regs : /\ want'[r] = IF r \in DOMAIN m THEN m[r] ELSE want[r]
                            /\ fate'[r] = IF r \in DOMAIN m THEN "waiting" ELSE fate[r]
<1>1. /\ want' = [r \in Regs |-> IF r \in DOMAIN m THEN m[r] ELSE want[r]]
      /\ fate' = [r \in Regs |-> IF r \in DOMAIN m THEN "waiting" ELSE fate[r]]
  BY DEF Asked
<1>2. \A r \in Regs : /\ want'[r] = IF r \in DOMAIN m THEN m[r] ELSE want[r]
                     /\ fate'[r] = IF r \in DOMAIN m THEN "waiting" ELSE fate[r]
  BY <1>1
<1>3. want["frequency"] \in Word /\ want["operation"] \in {Stop, Run}
  BY Settings
<1>4. want'["frequency"] \in Word /\ want'["operation"] \in {Stop, Run}
  BY <1>2, <1>3 DEF Regs
<1>5. want' = [r \in Regs |-> want'[r]]
  BY <1>1
<1>6. want' \in Setting
  BY <1>4, <1>5, Settings
<1>7. fate' \in [Regs -> Fates]
  BY <1>1 DEF Fates
<1> QED
  BY <1>2, <1>6, <1>7

\* Any other event changes only what became of the registers it is about.
LEMMA BecomesFacts ==
  ASSUME fate \in [Regs -> Fates], NEW W, NEW from, NEW to \in Fates, Becomes(W, from, to)
  PROVE  /\ want' = want /\ fate' \in [Regs -> Fates]
         /\ \A r \in Regs : fate'[r] = IF r \in W /\ fate[r] \in from THEN to ELSE fate[r]
  BY DEF Becomes

\* Before the first command nothing is to come.
LEMMA InitIInv == Init => IInv
<1> SUFFICES ASSUME Init PROVE IInv
  OBVIOUS
<1>1. q = << >> /\ q \in Seq(Commands) /\ Len(q) = 0 /\ DOMAIN q = {}
  BY DEF Init
<1>2. 0 \in Word
  BY Words
<1>3. drive \in Setting /\ want = drive /\ fate = [r \in Regs |-> "taken"]
  BY <1>2 DEF Init, Setting
<1>4. limits \in [{"upper", "lower"} -> Word]
  BY <1>2 DEF Init
<1>5. TypeOK
  <2>1. /\ sub = "ready" /\ poll = "down" /\ initReq = FALSE
        /\ duty = 0 /\ up = 0 /\ next = None /\ cmd = None
    BY DEF Init
  <2>2. Len(q) <= Capacity
    BY <1>1, Bounds
  <2>3. drive \in [frequency : Word, operation : {Stop, Run}]
        /\ want \in [frequency : Word, operation : {Stop, Run}]
        /\ fate \in [Regs -> Fates]
    BY <1>3 DEF Setting, Fates
  <2> QED
    BY <1>1, <1>2, <1>4, <2>1, <2>2, <2>3 DEF TypeOK
<1>6. OneEach(q)
  BY <1>1 DEF OneEach
<1>7. InHand
  BY DEF Init, InHand
<1>8. Stands(q, cmd, drive, next, want, fate)
  BY <1>1, <1>3, CommandFacts DEF Init, Stands, SettledOf, Has
<1> QED
  BY <1>5, <1>6, <1>7, <1>8 DEF IInv

\* The fields other than the queue have their types.
FieldTypes ==
  /\ sub \in {"ready", "lower", "second", "ended"}
  /\ duty \in Word /\ up \in Word
  /\ next \in Commands \union {None} /\ cmd \in Commands \union {None}
  /\ limits \in [{"upper", "lower"} -> Word]
  /\ poll \in {"down", "top", "drain", "write", "scan", "lost"}
  /\ initReq \in BOOLEAN
  /\ drive \in Setting /\ want \in Setting /\ fate \in [Regs -> Fates]

LEMMA Types == TypeOK <=> FieldTypes /\ q \in Seq(Commands) /\ Len(q) <= Capacity
  BY DEF TypeOK, FieldTypes, Setting

-----------------------------------------------------------------------------
(* The subscriber.                                                           *)

\* on_operation_cmd, on_fault_control_cmd and on_bypass_cmd.
LEMMA OneWriteIInv ==
  ASSUME IInv, NEW c \in Commands, OneWrite(c)
  PROVE  IInv'
<1>1. /\ FieldTypes /\ q \in Seq(Commands) /\ Len(q) <= Capacity /\ OneEach(q) /\ InHand
      /\ Stands(q, cmd, drive, next, want, fate)
  BY Types DEF IInv
<1>2. /\ sub = "ready" /\ sub' = sub /\ duty' = duty /\ up' = up /\ next' = next
      /\ limits' = limits /\ poll' = poll /\ cmd' = cmd /\ initReq' = initReq /\ drive' = drive
  BY DEF OneWrite, subVars
<1>3. next = None /\ next.addr = "none"
  BY <1>1, <1>2, CommandFacts DEF InHand
<1>4. CASE Queued(c) /\ Asked([r \in Regs \intersect {c.addr} |-> c.value])
  <2> DEFINE m == [r \in Regs \intersect {c.addr} |-> c.value]
  <2>1. /\ q' \in Seq(Commands) /\ Len(q') <= Capacity /\ OneEach(q')
        /\ \A r \in Regs : SettledOf(q', cmd, drive, r) =
                             IF r = c.addr THEN c.value ELSE SettledOf(q, cmd, drive, r)
        /\ \A r \in Regs : Has(q', r) <=> (r = c.addr \/ Has(q, r))
    BY <1>1, <1>4, QueuedCounts
  <2>2. /\ \A r \in Regs : r \in DOMAIN m <=> r = c.addr
        /\ \A r \in DOMAIN m : m[r] = c.value /\ r = c.addr
    OBVIOUS
  <2>3. /\ "frequency" \in DOMAIN m => m["frequency"] \in Word
        /\ "operation" \in DOMAIN m => m["operation"] \in {Stop, Run}
    BY <2>2, CommandFacts
  <2>4. Asked(m)
    BY <1>4
  <2> HIDE DEF m
  <2>5. /\ want' \in Setting /\ fate' \in [Regs -> Fates]
        /\ \A r \in Regs : /\ want'[r] = IF r = c.addr THEN c.value ELSE want[r]
                           /\ fate'[r] = IF r = c.addr THEN "waiting" ELSE fate[r]
    BY <1>1, <2>2, <2>3, <2>4, AskedFacts DEF FieldTypes
  <2>6. TypeOK'
    BY <1>1, <1>2, <2>1, <2>5 DEF TypeOK, FieldTypes, Setting
  <2>7. Stands(q', cmd', drive', next', want', fate')
    BY <1>1, <1>2, <1>3, <2>1, <2>5, CommandFacts DEF Stands
  <2>8. InHand'
    BY <1>1, <1>2 DEF InHand
  <2> QED
    BY <2>1, <2>6, <2>7, <2>8 DEF IInv
<1>5. CASE Refused(c) /\ UNCHANGED history
  <2>1. q' = q /\ want' = want /\ fate' = fate
    BY <1>5 DEF Refused, history
  <2> QED
    BY <1>1, <1>2, <2>1 DEF IInv, TypeOK, FieldTypes, Setting, InHand
<1> QED
  BY <1>4, <1>5 DEF OneWrite

\* The frequency of a message that gives two writes.
LEMMA FirstOfTwoIInv ==
  ASSUME IInv, sub \in {"ready", "lower"}, NEW f \in Word, NEW op \in {Stop, Run}, FirstOfTwo(f, op),
         UNCHANGED <<limits, poll, cmd, initReq, drive>>, duty' \in Word, up' \in Word
  PROVE  IInv'
<1>1. /\ FieldTypes /\ q \in Seq(Commands) /\ Len(q) <= Capacity /\ OneEach(q) /\ InHand
      /\ Stands(q, cmd, drive, next, want, fate)
  BY Types DEF IInv
<1>2. next = None /\ next.addr = "none"
  BY <1>1, CommandFacts DEF InHand
<1>3. limits' = limits /\ poll' = poll /\ cmd' = cmd /\ initReq' = initReq /\ drive' = drive
  OBVIOUS
<1> DEFINE c == Write("frequency", f)
<1>4. c \in Commands /\ c.addr = "frequency" /\ c.value = f
  BY CommandFacts
<1>5. CASE /\ Queued(c) /\ Asked([frequency |-> f, operation |-> op])
           /\ sub' = "second" /\ next' = Write("operation", op)
  <2> DEFINE m == [frequency |-> f, operation |-> op]
  <2>1. /\ q' \in Seq(Commands) /\ Len(q') <= Capacity /\ OneEach(q')
        /\ \A r \in Regs : SettledOf(q', cmd, drive, r) =
                             IF r = c.addr THEN c.value ELSE SettledOf(q, cmd, drive, r)
        /\ \A r \in Regs : Has(q', r) <=> (r = c.addr \/ Has(q, r))
    BY <1>1, <1>4, <1>5, QueuedCounts
  <2>2. DOMAIN m = Regs /\ m["frequency"] = f /\ m["operation"] = op
    BY DEF Regs
  <2>3. Asked(m)
    BY <1>5
  <2> HIDE DEF m
  <2>4. /\ want' \in Setting /\ fate' \in [Regs -> Fates]
        /\ want'["frequency"] = f /\ want'["operation"] = op
        /\ \A r \in Regs : fate'[r] = "waiting"
    BY <1>1, <2>2, <2>3, AskedFacts, CommandFacts DEF FieldTypes
  <2>5. next' \in Commands /\ next'.addr = "operation"
    BY <1>5, CommandFacts
  <2>6. TypeOK'
    BY <1>1, <1>3, <1>5, <2>1, <2>4, <2>5 DEF TypeOK, FieldTypes, Setting
  <2>7. Stands(q', cmd', drive', next', want', fate')
    BY <1>3, <1>4, <2>1, <2>4, <2>5 DEF Stands, Regs
  <2>8. InHand'
    <3>1. want'.operation = op
      BY <2>4
    <3> QED
      BY <1>1, <1>3, <1>5, <3>1 DEF InHand
  <2> QED
    BY <2>1, <2>6, <2>7, <2>8 DEF IInv
<1>6. CASE Refused(c) /\ sub' = "ready" /\ next' = None /\ UNCHANGED history
  <2>1. q' = q /\ want' = want /\ fate' = fate
    BY <1>6 DEF Refused, history
  <2>2. TypeOK'
    BY <1>1, <1>3, <1>6, <2>1 DEF TypeOK, FieldTypes, Setting
  <2> QED
    BY <1>1, <1>2, <1>3, <1>6, <2>1, <2>2 DEF IInv, InHand
<1> QED
  BY <1>5, <1>6 DEF FirstOfTwo

\* on_frequency_write_cmd and the first write of on_main_pump_duty_cmd.
LEMMA MessageIInv ==
  ASSUME IInv, (\E f \in Frequencies : OnFrequencyWrite(f)) \/ PumpConvert
  PROVE  IInv'
<1>1. CASE \E f \in Frequencies : OnFrequencyWrite(f)
  <2>1. PICK f \in Frequencies : OnFrequencyWrite(f)
    BY <1>1
  <2>2. f \in Word /\ (IF f = 0 THEN Stop ELSE Run) \in {Stop, Run}
    BY Bounds
  <2>3. duty' \in Word /\ up' \in Word
    BY <2>1 DEF OnFrequencyWrite, IInv, TypeOK
  <2> QED
    BY <2>1, <2>2, <2>3, FirstOfTwoIInv DEF OnFrequencyWrite
<1>2. CASE PumpConvert
  <2>1. duty' \in Word /\ up' \in Word /\ 0 \in Word
    BY <1>2, Words DEF PumpConvert
  <2>2. CASE duty = 0
    BY <1>2, <2>1, <2>2, FirstOfTwoIInv DEF PumpConvert
  <2>3. CASE duty # 0
    <3>1. duty \in Word /\ up \in Word /\ limits.lower \in Word
      BY DEF IInv, TypeOK
    <3>2. DutyConvertFrequency(duty, up, limits.lower) \in Word
      <4>1. CASE limits.lower < up
        BY <3>1, <4>1, DutyInsideLimits
      <4>2. CASE ~(limits.lower < up)
        BY <3>1, <4>2, Words DEF DutyConvertFrequency
      <4> QED
        BY <4>1, <4>2
    <3> QED
      BY <1>2, <2>1, <2>3, <3>2, FirstOfTwoIInv DEF PumpConvert
  <2> QED
    BY <2>2, <2>3
<1> QED
  BY <1>1, <1>2

\* The operation of a message, or its loss with the subscriber's end.
LEMMA SecondIInv ==
  ASSUME IInv, SecondOfTwo \/ Cancel
  PROVE  IInv'
<1>1. /\ FieldTypes /\ q \in Seq(Commands) /\ Len(q) <= Capacity /\ OneEach(q) /\ InHand
      /\ Stands(q, cmd, drive, next, want, fate)
  BY Types DEF IInv
<1>2. /\ limits' = limits /\ poll' = poll /\ cmd' = cmd /\ initReq' = initReq /\ drive' = drive
      /\ next' = None /\ sub' \in {"ready", "ended"} /\ duty' \in Word /\ up' \in Word
  BY <1>1, Words DEF SecondOfTwo, Cancel, FieldTypes
<1>3. sub = "second" => next \in Commands /\ next.addr = "operation" /\ next.value = want["operation"]
  BY <1>1, CommandFacts DEF InHand, FieldTypes, Setting
<1>4. sub # "second" => next.addr = "none"
  BY <1>1, CommandFacts DEF InHand
<1>5. ASSUME q' \in Seq(Commands), Len(q') <= Capacity, OneEach(q'),
             want' = want, fate' \in [Regs -> Fates],
             Stands(q', cmd, drive, None, want, fate')
      PROVE  IInv'
  <2>1. TypeOK'
    BY <1>1, <1>2, <1>5 DEF TypeOK, FieldTypes, Setting
  <2>2. InHand'
    BY <1>1, <1>2 DEF InHand
  <2> QED
    BY <1>2, <1>5, <2>1, <2>2 DEF IInv
<1>6. fate \in [Regs -> Fates] /\ "waiting" \in Fates /\ "undone" \in Fates
      /\ \A r \in Regs : fate[r] \in Fates
  BY <1>1 DEF FieldTypes, Fates
<1>7. CASE sub = "second" /\ Queued(next) /\ Becomes({next.addr}, Fates, "waiting")
  <2>1. /\ q' \in Seq(Commands) /\ Len(q') <= Capacity /\ OneEach(q')
        /\ \A r \in Regs : SettledOf(q', cmd, drive, r) =
                             IF r = next.addr THEN next.value ELSE SettledOf(q, cmd, drive, r)
        /\ \A r \in Regs : Has(q', r) <=> (r = next.addr \/ Has(q, r))
    BY <1>1, <1>3, <1>7, QueuedCounts
  <2>2. /\ want' = want /\ fate' \in [Regs -> Fates]
        /\ \A r \in Regs : fate'[r] = IF r = next.addr THEN "waiting" ELSE fate[r]
    BY <1>6, <1>7, BecomesFacts
  <2>3. Stands(q', cmd, drive, None, want, fate')
    BY <1>1, <1>3, <1>7, <2>1, <2>2 DEF Stands
  <2> QED
    BY <1>5, <2>1, <2>2, <2>3
<1>8. CASE q' = q /\ Becomes({next.addr}, Fates, "undone")
  <2>1. /\ want' = want /\ fate' \in [Regs -> Fates]
        /\ \A r \in Regs : fate'[r] = IF r = next.addr THEN "undone" ELSE fate[r]
    BY <1>6, <1>8, BecomesFacts
  <2>2. Stands(q', cmd, drive, None, want, fate')
    BY <1>1, <1>8, <2>1 DEF Stands
  <2> QED
    BY <1>1, <1>5, <1>8, <2>1, <2>2
<1>9. CASE SecondOfTwo
  BY <1>7, <1>8, <1>9 DEF SecondOfTwo, Refused
<1>10. CASE Cancel
  BY <1>8, <1>10 DEF Cancel
<1> QED
  BY <1>9, <1>10

\* A duty arrives, or an init request.
LEMMA OtherMessagesIInv ==
  ASSUME IInv, (\E d \in Duties : OnMainPump(d)) \/ OnInit
  PROVE  IInv'
<1>1. /\ FieldTypes /\ q \in Seq(Commands) /\ Len(q) <= Capacity /\ OneEach(q) /\ InHand
      /\ Stands(q, cmd, drive, next, want, fate)
  BY Types DEF IInv
<1>2. /\ q' = q /\ next' = next /\ limits' = limits /\ poll' = poll /\ cmd' = cmd
      /\ drive' = drive /\ want' = want /\ fate' = fate
      /\ sub = "ready" /\ sub' \in {"ready", "lower"}
  BY DEF OnMainPump, OnInit, subVars, history
<1>3. duty' \in Word /\ up' \in Word /\ initReq' \in BOOLEAN
  <2>1. duty \in Word /\ up \in Word /\ limits.upper \in Word /\ initReq \in BOOLEAN
    BY <1>1 DEF FieldTypes
  <2>2. CASE \E d \in Duties : OnMainPump(d)
    BY <2>1, <2>2, Bounds DEF OnMainPump
  <2>3. CASE OnInit
    BY <2>1, <2>3 DEF OnInit, subVars
  <2> QED
    BY <2>2, <2>3
<1>4. TypeOK'
  BY <1>1, <1>2, <1>3 DEF TypeOK, FieldTypes, Setting
<1> QED
  BY <1>1, <1>2, <1>4 DEF IInv, InHand

-----------------------------------------------------------------------------
(* The poll thread.                                                          *)

\* Registers that no write is on its way to are set to rest.
LEMMA WriteRestIInv ==
  ASSUME IInv, cmd = None, NEW W \in SUBSET Regs, WriteRest(W),
         UNCHANGED <<q, subVars, limits, cmd>>, initReq' \in BOOLEAN,
         poll' \in {"down", "top", "drain"}
  PROVE  IInv'
<1>1. /\ FieldTypes /\ q \in Seq(Commands) /\ Len(q) <= Capacity /\ OneEach(q) /\ InHand
      /\ Stands(q, cmd, drive, next, want, fate)
  BY Types DEF IInv
<1>2. /\ q' = q /\ next' = next /\ limits' = limits /\ cmd' = None
      /\ sub' = sub /\ duty' = duty /\ up' = up
  BY DEF subVars
<1>3. AtRest["frequency"] \in Word /\ AtRest["operation"] \in {Stop, Run}
  BY Words DEF AtRest
<1>4. drive["frequency"] \in Word /\ drive["operation"] \in {Stop, Run}
  BY <1>1, Settings DEF FieldTypes
<1>5. drive' = [r \in Regs |-> IF r \in W THEN AtRest[r] ELSE drive[r]]
  BY DEF WriteRest
<1>6. \A r \in Regs : drive'[r] = IF r \in W THEN AtRest[r] ELSE drive[r]
  BY <1>5
<1>7. drive' \in Setting
  <2>1. drive' = [r \in Regs |-> drive'[r]]
    BY <1>5
  <2>2. drive'["frequency"] \in Word /\ drive'["operation"] \in {Stop, Run}
    BY <1>3, <1>4, <1>6 DEF Regs
  <2> QED
    BY <2>1, <2>2, Settings
<1>8. /\ want' = want /\ fate' \in [Regs -> Fates]
      /\ \A r \in Regs : fate'[r] = IF r \in W /\ fate[r] = "taken" THEN "undone" ELSE fate[r]
      /\ \A r \in Regs : fate[r] \in {"waiting", "taken", "undone"}
  <2>1. fate \in [Regs -> Fates] /\ "undone" \in Fates /\ Becomes(W, {"taken"}, "undone")
    BY <1>1 DEF FieldTypes, Fates, WriteRest
  <2> QED
    BY <2>1, BecomesFacts DEF Fates
<1>9. TypeOK'
  BY <1>1, <1>2, <1>7, <1>8 DEF TypeOK, FieldTypes, Setting
<1>10. Stands(q', cmd', drive', next', want', fate')
  <2> SUFFICES ASSUME NEW r \in Regs, next.addr # r, fate'[r] # "undone"
               PROVE  SettledOf(q, None, drive', r) = want[r] /\ (fate'[r] = "waiting" <=> Has(q, r))
    BY <1>2, <1>8 DEF Stands
  <2>1. fate'[r] = fate[r] /\ (r \in W => fate[r] = "waiting")
    BY <1>8
  <2>2. SettledOf(q, None, drive, r) = want[r] /\ (fate[r] = "waiting" <=> Has(q, r))
    BY <1>1, <2>1 DEF Stands
  <2>3. CASE r \in W
    BY <2>1, <2>2, <2>3 DEF Has, SettledOf
  <2>4. CASE r \notin W
    BY <1>6, <2>1, <2>2, <2>4 DEF SettledOf
  <2> QED
    BY <2>3, <2>4
<1>11. InHand'
  BY <1>1, <1>2, <1>8 DEF InHand
<1> QED
  BY <1>1, <1>2, <1>9, <1>10, <1>11 DEF IInv

\* unit_connect and run_init_sequence.
LEMMA ConnectIInv ==
  ASSUME IInv, Connect \/ InitCheck
  PROVE  IInv'
<1>1. cmd = None
  BY DEF IInv, InHand, Connect, InitCheck
<1>2. /\ UNCHANGED <<q, subVars, limits, cmd>>
      /\ poll' \in {"down", "top", "drain"}
  BY DEF Connect, InitCheck
<1>3. initReq' \in BOOLEAN
  BY DEF Connect, InitCheck, IInv, TypeOK
<1>4. CASE \E W \in SUBSET Regs : WriteRest(W)
  BY <1>1, <1>2, <1>3, <1>4, WriteRestIInv
<1>5. CASE drive' = drive /\ want' = want /\ fate' = fate
  <2>1. TypeOK'
    BY <1>2, <1>3, <1>5 DEF IInv, TypeOK, subVars
  <2>2. InHand'
    BY <1>1, <1>2, <1>5 DEF IInv, InHand, subVars
  <2> QED
    BY <1>2, <1>5, <2>1, <2>2 DEF IInv, subVars
<1>6. CASE Connect
  BY <1>4, <1>6 DEF Connect
<1>7. CASE InitCheck
  <2>1. CASE initReq
    <3>1. {"frequency"} \in SUBSET Regs /\ {} \in SUBSET Regs /\ Regs \in SUBSET Regs
      BY DEF Regs
    <3> QED
      BY <1>4, <1>7, <2>1, <3>1 DEF InitCheck
  <2>2. CASE ~initReq
    BY <1>5, <1>7, <2>2 DEF InitCheck, history
  <2> QED
    BY <2>1, <2>2
<1> QED
  BY <1>6, <1>7

\* unit_drain_queue takes the oldest write.
LEMMA DrainPopIInv ==
  ASSUME IInv, DrainPop
  PROVE  IInv'
<1>1. /\ FieldTypes /\ q \in Seq(Commands) /\ Len(q) <= Capacity /\ OneEach(q) /\ InHand
      /\ Stands(q, cmd, drive, next, want, fate)
  BY Types DEF IInv
<1>2. /\ poll = "drain" /\ poll' = "write" /\ cmd' = Head(q) /\ Queue!Remove
      /\ sub' = sub /\ duty' = duty /\ up' = up /\ next' = next
      /\ limits' = limits /\ initReq' = initReq /\ drive' = drive
  BY DEF DrainPop, subVars
<1>3. cmd = None
  BY <1>1, <1>2 DEF InHand
<1>4. /\ Head(q) \in Commands /\ q' \in Seq(Commands) /\ Len(q') <= Capacity /\ OneEach(q')
      /\ \A r \in Regs : SettledOf(q', Head(q), drive, r) = SettledOf(q, None, drive, r)
      /\ \A r \in Regs : Has(q', r) <=> (Has(q, r) /\ r # Head(q).addr)
  BY <1>1, <1>2, RemovedCounts
<1>5. Has(q, Head(q).addr)
  BY <1>1, <1>2 DEF Has, Queue!Remove
<1>6. /\ want' = want /\ fate' \in [Regs -> Fates]
      /\ \A r \in Regs : fate'[r] = IF r = Head(q).addr /\ fate[r] = "waiting"
                                     THEN "taken" ELSE fate[r]
  <2>1. fate \in [Regs -> Fates] /\ "taken" \in Fates /\ Becomes({Head(q).addr}, {"waiting"}, "taken")
    BY <1>1, <1>2 DEF FieldTypes, Fates, DrainPop
  <2> QED
    BY <2>1, BecomesFacts
<1>7. Stands(q', cmd', drive', next', want', fate')
  <2> SUFFICES ASSUME NEW r \in Regs, next.addr # r, fate'[r] # "undone"
               PROVE  /\ SettledOf(q', Head(q), drive, r) = want[r]
                      /\ fate'[r] = "waiting" <=> Has(q', r)
    BY <1>2, <1>6 DEF Stands
  <2>1. fate[r] # "undone"
    BY <1>6
  <2>2. SettledOf(q, None, drive, r) = want[r] /\ (fate[r] = "waiting" <=> Has(q, r))
    BY <1>1, <1>3, <2>1 DEF Stands
  <2>3. fate'[r] = "waiting" <=> Has(q', r)
    BY <1>4, <1>5, <1>6, <2>2
  <2> QED
    BY <1>4, <2>2, <2>3
<1>8. TypeOK'
  BY <1>1, <1>2, <1>4, <1>6 DEF TypeOK, FieldTypes, Setting
<1>9. InHand'
  BY <1>1, <1>2, <1>4, <1>6 DEF InHand
<1> QED
  BY <1>4, <1>7, <1>8, <1>9 DEF IInv

\* ... and writes it, or drops it when the write fails.
LEMMA DrainWriteIInv ==
  ASSUME IInv, NEW ok \in BOOLEAN, DrainWrite(ok)
  PROVE  IInv'
<1>1. /\ FieldTypes /\ q \in Seq(Commands) /\ Len(q) <= Capacity /\ OneEach(q) /\ InHand
      /\ Stands(q, cmd, drive, next, want, fate)
  BY Types DEF IInv
<1>2. /\ poll = "write" /\ poll' = "drain" /\ cmd' = None /\ q' = q
      /\ sub' = sub /\ duty' = duty /\ up' = up /\ next' = next
      /\ limits' = limits /\ initReq' = initReq
  BY DEF DrainWrite, subVars
<1>3. /\ cmd \in Commands
      /\ cmd.addr = "frequency" => cmd.value \in Word
      /\ cmd.addr = "operation" => cmd.value \in {Stop, Run}
  BY <1>1, <1>2, CommandFacts DEF InHand
<1>4. \A r \in Regs : None.addr # r
  BY CommandFacts
<1>5. ASSUME drive' \in Setting, want' = want, fate' \in [Regs -> Fates],
             Stands(q, None, drive', next, want, fate')
      PROVE  IInv'
  <2>1. TypeOK'
    BY <1>1, <1>2, <1>5 DEF TypeOK, FieldTypes, Setting
  <2>2. InHand'
    BY <1>1, <1>2, <1>5 DEF InHand
  <2> QED
    BY <1>1, <1>2, <1>5, <2>1, <2>2 DEF IInv
<1>6. CASE ok
  <2>1. /\ drive' = [r \in Regs |-> IF r = cmd.addr THEN cmd.value ELSE drive[r]]
        /\ want' = want /\ fate' = fate
    BY <1>6 DEF DrainWrite, history
  <2>2. \A r \in Regs : drive'[r] = IF r = cmd.addr THEN cmd.value ELSE drive[r]
    BY <2>1
  <2>3. drive["frequency"] \in Word /\ drive["operation"] \in {Stop, Run}
    BY <1>1, Settings DEF FieldTypes
  <2>4. drive'["frequency"] \in Word /\ drive'["operation"] \in {Stop, Run}
    BY <1>3, <2>2, <2>3, CommandFacts
  <2>5. drive' = [r \in Regs |-> drive'[r]]
    BY <2>1
  <2>6. drive' \in Setting
    BY <2>4, <2>5, Settings
  <2>7. Stands(q, None, drive', next, want, fate)
    BY <1>1, <1>4, <2>2 DEF Stands, SettledOf
  <2> QED
    BY <1>1, <1>5, <2>1, <2>6, <2>7 DEF FieldTypes
<1>7. CASE ~ok
  <2>1. drive' = drive /\ Becomes({cmd.addr}, {"taken"}, "undone")
    BY <1>7 DEF DrainWrite
  <2>2. /\ want' = want /\ fate' \in [Regs -> Fates]
        /\ \A r \in Regs : fate'[r] = IF r = cmd.addr /\ fate[r] = "taken"
                                       THEN "undone" ELSE fate[r]
        /\ \A r \in Regs : fate[r] \in {"waiting", "taken", "undone"}
    <3>1. fate \in [Regs -> Fates] /\ "undone" \in Fates
      BY <1>1 DEF FieldTypes, Fates
    <3> QED
      BY <2>1, <3>1, BecomesFacts DEF Fates
  <2>3. Stands(q, None, drive, next, want, fate')
    <3> SUFFICES ASSUME NEW r \in Regs, next.addr # r, fate'[r] # "undone"
                 PROVE  SettledOf(q, None, drive, r) = want[r] /\ (fate'[r] = "waiting" <=> Has(q, r))
      BY DEF Stands
    <3>1. fate'[r] = fate[r] /\ (r = cmd.addr => fate[r] = "waiting")
      BY <2>2
    <3>2. SettledOf(q, cmd, drive, r) = want[r] /\ (fate[r] = "waiting" <=> Has(q, r))
      BY <1>1, <3>1 DEF Stands
    <3>3. CASE r = cmd.addr
      BY <3>1, <3>2, <3>3 DEF Has, SettledOf
    <3>4. CASE r # cmd.addr
      BY <1>4, <3>1, <3>2, <3>4 DEF SettledOf
    <3> QED
      BY <3>3, <3>4
  <2> QED
    BY <1>1, <1>5, <2>1, <2>2, <2>3 DEF FieldTypes
<1> QED
  BY <1>6, <1>7

\* read_profile_to_pool on the limits, and the loss of the connection.
LEMMA ScanIInv ==
  ASSUME IInv, ScanUpper \/ ScanLower \/ ScanFails \/ LoseUpper \/ LoseLower
  PROVE  IInv'
<1>1. PICK r \in {"upper", "lower"}, v \in Word, to \in {"scan", "top", "lost", "down"} :
        Limit(r, v, to) /\ poll # "write"
  <2>1. Lost \in Word /\ Upper \in Word /\ Lower \in Word /\ limits.upper \in Word
    BY Bounds, LostWord, Words DEF IInv, TypeOK
  <2>2. CASE ScanUpper
    BY <2>1, <2>2 DEF ScanUpper
  <2>3. CASE ScanLower
    BY <2>1, <2>3 DEF ScanLower
  <2>4. CASE ScanFails
    BY <2>1, <2>4 DEF ScanFails
  <2>5. CASE LoseUpper
    BY <2>1, <2>5 DEF LoseUpper
  <2>6. CASE LoseLower
    BY <2>1, <2>6 DEF LoseLower
  <2> QED
    BY <2>2, <2>3, <2>4, <2>5, <2>6
<1>2. /\ q' = q /\ sub' = sub /\ duty' = duty /\ up' = up /\ next' = next /\ cmd' = cmd
      /\ initReq' = initReq /\ drive' = drive /\ want' = want /\ fate' = fate
      /\ limits' = [limits EXCEPT ![r] = v] /\ poll' = to
  BY <1>1 DEF Limit, subVars, history
<1>3. limits' \in [{"upper", "lower"} -> Word]
  BY <1>2 DEF IInv, TypeOK
<1>4. TypeOK'
  BY <1>2, <1>3 DEF IInv, TypeOK
<1>5. InHand'
  BY <1>1, <1>2 DEF IInv, InHand
<1> QED
  BY <1>2, <1>4, <1>5 DEF IInv

\* Every step keeps the invariant.
LEMMA NextIInv ==
  ASSUME IInv, [Next]_vars
  PROVE  IInv'
<1>1. ASSUME NEW v \in {Stop, Run}, OnOperation(v) PROVE IInv'
  BY <1>1, OneWriteIInv, CommandFacts DEF OnOperation
<1>2. CASE OnFaultControl
  BY <1>2, OneWriteIInv, CommandFacts DEF OnFaultControl
<1>3. CASE (\E f \in Frequencies : OnFrequencyWrite(f)) \/ PumpConvert
  BY <1>3, MessageIInv
<1>4. CASE (\E d \in Duties : OnMainPump(d)) \/ OnInit
  BY <1>4, OtherMessagesIInv
<1>5. CASE SecondOfTwo \/ Cancel
  BY <1>5, SecondIInv
<1>6. CASE Connect \/ InitCheck
  BY <1>6, ConnectIInv
<1>7. CASE DrainPop
  BY <1>7, DrainPopIInv
<1>8. ASSUME NEW ok \in BOOLEAN, DrainWrite(ok) PROVE IInv'
  BY <1>8, DrainWriteIInv
<1>9. CASE ScanUpper \/ ScanLower \/ ScanFails \/ LoseUpper \/ LoseLower
  BY <1>9, ScanIInv
<1>10. CASE UNCHANGED vars
  BY <1>10 DEF vars, subVars, IInv, TypeOK, InHand
<1> QED
  BY <1>1, <1>2, <1>3, <1>4, <1>5, <1>6, <1>7, <1>8, <1>9, <1>10 DEF Next, Subscriber, Serve

-----------------------------------------------------------------------------
\* The inductive invariant holds in every reachable state.
THEOREM Invariance == Spec => []IInv
  BY InitIInv, NextIInv, PTL DEF Spec

\* The queue, both threads and the drive keep their types.
THEOREM Typing == Spec => []TypeOK
<1>1. IInv => TypeOK
  BY DEF IInv
<1> QED
  BY <1>1, Invariance, PTL

\* What the last accepted message asked of a register waits in the queue and then
\* gets to the drive, and no older write of it comes after: of the handlers of
\* inverter_cmos_bridge.c, the merging queue and unit_drain_queue, unless a write
\* that fails, a connect or an init, or a refused second push gives the value up.
THEOREM LastCommand == Spec => []LastCommandStands
<1>1. IInv => LastCommandStands
  BY DEF IInv, Stands, SettledOf, Has, LastCommandStands, Settled, Waits
<1> QED
  BY <1>1, Invariance, PTL

\* duty_convert_frequency, given limits read from the drive, stays within them and
\* within 16 bits: no division or truncation leads outside.
THEOREM LimitedFrequency == Spec => FrequencyWithinLimits
<1>1. ASSUME IInv, [Next]_vars,
             sub = "lower", duty # 0, up = Upper, limits.lower = Lower, sub' = "second"
      PROVE  want'.frequency \in Lower .. Upper
  <2>1. PumpConvert
    BY <1>1 DEF Next, Subscriber, Serve, OnOperation, OnFaultControl, OneWrite,
       OnFrequencyWrite, OnMainPump, SecondOfTwo, OnInit, Cancel, Connect, InitCheck, DrainPop,
       DrainWrite, ScanUpper, ScanLower, ScanFails, LoseUpper, LoseLower, Limit, subVars, vars
  <2>2. want'.frequency = DutyConvertFrequency(duty, Upper, Lower)
    <3> DEFINE f == DutyConvertFrequency(duty, Upper, Lower)
    <3>1. Asked([frequency |-> f, operation |-> Run])
      BY <1>1, <2>1 DEF PumpConvert, FirstOfTwo
    <3> HIDE DEF f
    <3>2. want'["frequency"] = f
      BY <3>1 DEF Asked, Regs
    <3> QED
      BY <3>2 DEF f
  <2>3. duty \in Word
    BY <1>1 DEF IInv, TypeOK
  <2>4. /\ DutyConvertFrequency(duty, Upper, Lower) \in Nat
        /\ Lower <= DutyConvertFrequency(duty, Upper, Lower)
        /\ DutyConvertFrequency(duty, Upper, Lower) <= Upper
    BY <2>3, Bounds, Words, DutyInsideLimits
  <2> QED
    BY <2>2, <2>4, Bounds, Words
<1>2. IInv /\ [Next]_vars =>
        [(sub = "lower" /\ duty # 0 /\ up = Upper /\ limits.lower = Lower /\ sub' = "second")
           => want'.frequency \in Lower .. Upper]_vars
  BY <1>1
<1> QED
  BY <1>2, Invariance, PTL DEF Spec, FrequencyWithinLimits
=============================================================================
