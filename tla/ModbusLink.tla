----------------------------- MODULE ModbusLink -----------------------------
(* Requests and answers on one Modbus link, below the poll threads: the      *)
(* blocking transactions of modbus_rtu_client.c and modbus_tcp_client.c,     *)
(* over a line on which answers come late, in parts, or not at all, and the  *)
(* only recovery there is: the count of failed reads that closes the link.   *)
(* An RTU line is shared by several units, a TCP connection has one.         *)
EXTENDS Integers, Sequences, FiniteSetsExt

CONSTANTS
  Uids,           \* modbus_uid of the units on the line
  Requests,        \* what they ask: [fc, qty, counted], fc one of 3, 6, 16
  Probe,           \* the read of one register with which an RTU unit connects
  MaxTid,          \* largest transaction id; UINT16_MAX in the code
  MaxLag,          \* bound: answers on their way, late ones included
  FailThreshold,   \* MODBUS_DEFAULT_COMM_FAIL_THRESHOLD
  NoRequest        \* between two transactions

\* What tells requests apart; the last one is in reserve.
LastStamp == MaxLag + FailThreshold + 2

ASSUME LagAssumption ==
  /\ MaxLag \in Nat \ {0} /\ FailThreshold \in Nat \ {0}
  /\ MaxTid \in Nat /\ MaxTid > FailThreshold + 1
  /\ Requests \subseteq [fc : {3, 6, 16}, qty : Nat, counted : BOOLEAN]
  /\ Probe \in Requests /\ Probe.fc = 3 /\ Probe.counted
  /\ NoRequest \notin [unit : Uids, fc : {3, 6, 16}, qty : Nat, counted : BOOLEAN,
                       tid : 0 .. MaxTid, stamp : 1 .. LastStamp]

VARIABLES
  link,      \* "rtu" or "tcp": the format of the configuration
  users,     \* the units that have a context on this link
  open,      \* per unit: "closed", "probe" (connecting) or "open"
  alive,     \* the peer has not closed the TCP connection
  tid,       \* transaction id of the last TCP request
  req,       \* the transaction under way
  got,       \* what it has read so far
  line,      \* what has arrived and has not been read
  wire,      \* answers on their way
  fails,     \* comm_fail_count of each unit
  good,      \* history: the unit's last read succeeded
  ok         \* the last transaction succeeded

linkVars == <<link, users, open, alive, tid, req, got, line, wire, fails, good, ok>>

-----------------------------------------------------------------------------
(* An answer travels in two parts: the first three bytes and the rest of an  *)
(* RTU frame, the MBAP header and the body of a TCP one. "stamp" tells the   *)
(* requests apart and "old" marks what had arrived before the request under  *)
(* way; both are history, and no step of the client depends on them.         *)
Parts(a) == <<[of |-> a, part |-> 1, old |-> FALSE], [of |-> a, part |-> 2, old |-> FALSE]>>

Header(p) == p.part = 1

\* Length of an RTU answer in bytes; an exception has five.
AnswerLen(a) == IF a.exc THEN 5 ELSE IF a.fc = 3 THEN 5 + 2 * a.qty ELSE 8

\* The number of bytes read_exact is asked for.
RespLen(r) == IF r.fc = 3 THEN 5 + 2 * r.qty ELSE 8

Bytes(p) == IF p.part = 1 THEN 3 ELSE AnswerLen(p.of) - 3

BytesIn(ps) ==
  LET sum[i \in 0 .. Len(ps)] == IF i = 0 THEN 0 ELSE sum[i - 1] + Bytes(ps[i])
  IN  sum[Len(ps)]

Unread == LET ps == got \o line \o wire IN {ps[i] : i \in DOMAIN ps}
Outstanding == {p.of.stamp : p \in Unread}
Fresh == CHOOSE n \in 1 .. LastStamp : n \in Outstanding => n = LastStamp

\* Bounds: MaxLag answers may be late at a time, and an answer is late by less
\* than a whole cycle of transaction ids.
InTime == Cardinality(Outstanding) > MaxLag
SoonReused == {((tid + k - 1) % MaxTid) + 1 : k \in 1 .. FailThreshold + 1}
CycleLate  == link = "tcp" /\ \E p \in Unread : p.of.tid \in SoonReused

LinkInit ==
  /\ \/ link = "rtu" /\ users = Uids
     \/ link = "tcp" /\ users = {Min(Uids)}
  /\ open = [u \in Uids |-> "closed"] /\ alive = TRUE
  /\ tid = 0 /\ req = NoRequest
  /\ got = <<>> /\ line = <<>> /\ wire = <<>>
  /\ fails = [u \in Uids |-> 0]
  /\ good = [u \in Uids |-> FALSE] /\ ok = FALSE

-----------------------------------------------------------------------------
(* The request.                                                              *)

NextTid(t) == IF t < MaxTid THEN t + 1 ELSE 1

\* What a device makes of a request: it answers, refuses, or stays silent.
Reactions(q) ==
  LET a(e) == [unit |-> q.unit, fc |-> q.fc, qty |-> q.qty, exc |-> e,
               tid |-> q.tid, stamp |-> q.stamp]
  IN  [silent |-> <<>>, answered |-> Parts(a(FALSE)), refused |-> Parts(a(TRUE))]

Allowed(u, r) == open[u] = "open" \/ (open[u] = "probe" /\ r = Probe)

\* Mutant of Flushed: the input is not discarded before a request.
FlushedNot == line

\* An RTU request first discards what has arrived (tcflush); TCP has no such step.
Flushed == IF link = "rtu" THEN <<>> ELSE line

\* A transaction starts: next_tid and the bytes of the request, or tcflush.
Starts(u, r) ==
  /\ req = NoRequest /\ u \in users /\ Allowed(u, r)
  /\ r.counted \/ ~(CycleLate \/ InTime)
  /\ line' = [i \in DOMAIN Flushed |-> [Flushed[i] EXCEPT !.old = TRUE]]
  /\ tid' = IF link = "tcp" THEN NextTid(tid) ELSE tid

Ask(u, r, reaction) ==
  /\ Starts(u, r)
  /\ alive \/ reaction = "silent"
  /\ req' = [unit |-> u, fc |-> r.fc, qty |-> r.qty, counted |-> r.counted,
             tid |-> tid', stamp |-> Fresh]
  /\ wire' = wire \o Reactions(req')[reaction]
  /\ ok' = FALSE
  /\ UNCHANGED <<link, users, open, alive, got, fails, good>>

-----------------------------------------------------------------------------
(* The end of a transaction, and what the scan makes of a failed read.       *)

\* Mutant of Failures: an answer that does not fit is not counted.
FailuresSilentOnly(res, n) ==
  IF res = "ok" THEN 0 ELSE IF res = "tid" THEN n ELSE n + 1

Failures(res, n) == IF res = "ok" THEN 0 ELSE n + 1

\* What becomes of the unit: a failed probe, or enough failed reads of the scan
\* in a row, close its link; writes and the reads of an init sequence change
\* nothing.
Judged(u, r, res) ==
  LET n      == Failures(res, fails[u])
      closes == (open[u] = "probe" /\ res # "ok") \/ n >= FailThreshold
  IN  IF r.counted
      THEN /\ open' = [open EXCEPT ![u] = IF closes THEN "closed" ELSE "open"]
           /\ fails' = [fails EXCEPT ![u] = IF closes THEN 0 ELSE n]
           /\ good' = [good EXCEPT ![u] = (res = "ok")]
      ELSE UNCHANGED <<open, fails, good>>

Complete(res) ==
  /\ req' = NoRequest /\ got' = <<>> /\ ok' = (res = "ok")
  /\ Judged(req.unit, req, res)
  /\ UNCHANGED <<link, users, alive, tid, wire>>

\* write() or send() does not take the whole request.
SendFails(u, r) ==
  /\ Starts(u, r) /\ Judged(u, r, "transport") /\ ok' = FALSE
  /\ UNCHANGED <<link, users, alive, req, got, wire>>

-----------------------------------------------------------------------------
(* The answer.                                                               *)

\* Bytes come in, whoever waits for them.
Arrive ==
  /\ wire # <<>>
  /\ line' = Append(line, Head(wire))
  /\ wire' = Tail(wire)
  /\ UNCHANGED <<link, users, open, alive, tid, req, got, fails, good, ok>>

\* Part of an RTU frame is lost or garbled; TCP loses nothing.
Lose ==
  /\ link = "rtu" /\ wire # <<>>
  /\ wire' = Tail(wire)
  /\ UNCHANGED <<link, users, open, alive, tid, req, got, line, fails, good, ok>>

\* read_exact and recv_response go on while bytes are missing: an RTU client
\* wants RespLen bytes, whatever they are, a TCP client a header and the body
\* the header announces; a body read for a header announces anything.
Missing ==
  IF link = "rtu" THEN BytesIn(got) < RespLen(req)
  ELSE Len(got) > 1 => ~Header(got[1])

Read ==
  /\ req # NoRequest /\ Missing /\ line # <<>>
  /\ got' = Append(got, Head(line)) /\ line' = Tail(line)
  /\ UNCHANGED <<link, users, open, alive, tid, req, wire, fails, good, ok>>

\* Nothing arrives for the length of the timeout; what was read is dropped.
Timeout ==
  /\ req # NoRequest /\ Missing /\ line = <<>>
  /\ wire = <<>> \/ ~InTime
  /\ Complete(IF alive THEN "timeout" ELSE "transport") /\ UNCHANGED line

\* The TCP device closes the connection: what it has not delivered is gone, and
\* recv returns at once.
PeerCloses ==
  /\ link = "tcp" /\ alive /\ \E u \in users : open[u] = "open"
  /\ alive' = FALSE /\ wire' = <<>>
  /\ UNCHANGED <<link, users, open, tid, req, got, line, fails, good, ok>>

\* What was read is one frame, from its first byte to its last: the CRC fits.
Whole == Len(got) = 2 /\ got[1].part = 1 /\ got[2].part = 2 /\ got[1].of = got[2].of

SameFunction(a) == a.fc = req.fc /\ (a.fc = 3 => a.qty = req.qty)

JudgeRtu ==
  LET a == got[1].of
  IN  IF ~Whole \/ BytesIn(got) # RespLen(req) THEN "crc"
      ELSE IF a.unit # req.unit THEN "frame"
      ELSE IF a.exc THEN "exception"
      ELSE IF ~SameFunction(a) THEN "frame" ELSE "ok"

\* Mutant of JudgeTcp: the transaction id is not compared.
JudgeTcpAnyId ==
  LET a == got[1].of
  IN  IF a.exc THEN "exception"
      ELSE IF ~SameFunction(a) THEN "frame" ELSE "ok"

JudgeTcp ==
  LET a == got[1].of
  IN  IF a.tid # req.tid THEN "tid"
      ELSE IF a.exc THEN "exception"
      ELSE IF ~SameFunction(a) THEN "frame" ELSE "ok"

Judge ==
  /\ req # NoRequest /\ ~Missing
  /\ Complete(IF link = "rtu" THEN JudgeRtu ELSE JudgeTcp)
  /\ UNCHANGED line

\* A TCP client that has read a body for a header: the length it finds there is
\* refused, or the bytes it leads to are, and the next header may be broken too.
OutOfStep ==
  /\ req # NoRequest /\ link = "tcp" /\ Len(got) > 0 /\ ~Header(got[1])
  /\ Complete("frame")
  /\ \/ UNCHANGED line
     \/ line # <<>> /\ line' = [line EXCEPT ![1].part = 2]

\* The poll thread connects again: a new TCP connection starts from nothing, a
\* serial line keeps what is on its way.
Reconnect(u) ==
  /\ u \in users /\ open[u] = "closed"
  /\ open' = [open EXCEPT ![u] = IF link = "rtu" THEN "probe" ELSE "open"]
  /\ IF link = "tcp" THEN tid' = 0 /\ line' = <<>> /\ wire' = <<>>
     ELSE UNCHANGED <<tid, line, wire>>
  /\ alive' = TRUE
  /\ UNCHANGED <<link, users, req, got, fails, good, ok>>

-----------------------------------------------------------------------------
ReadsOf(u, reaction)  == \E r \in Requests : r.counted /\ Ask(u, r, reaction)
OthersOf(u, reaction) == \E r \in Requests : ~r.counted /\ Ask(u, r, reaction)

\* The next read of the scan; a device that is there answers it.
Scans(u) == ReadsOf(u, IF alive THEN "answered" ELSE "silent")

LinkNext ==
  \/ \E u \in Uids :
       \/ \E x \in {"answered", "refused", "silent"} : ReadsOf(u, x) \/ OthersOf(u, x)
       \/ \E r \in Requests : SendFails(u, r)
       \/ Reconnect(u)
  \/ PeerCloses \/ Arrive \/ Lose \/ Read \/ Timeout \/ Judge \/ OutOfStep

\* A blocking call returns, what is on its way arrives, a closed link is opened
\* again, and every unit goes on reading: its queue runs empty now and then.
LinkFairness ==
  /\ WF_linkVars(Arrive) /\ WF_linkVars(Read \/ Timeout \/ Judge \/ OutOfStep)
  /\ \A u \in Uids :
       WF_linkVars(Reconnect(u)) /\ SF_linkVars(Scans(u))

LinkSpec == LinkInit /\ [][LinkNext]_linkVars /\ LinkFairness

-----------------------------------------------------------------------------
\* What an answer must be for the caller to be told "ok": on TCP the answer to
\* this very request; on RTU, whose frames carry no id, an answer of the unit, of
\* the function and, to a read, of the length that were asked for. The quantity a
\* write is confirmed with is not compared there.
Fits(a) ==
  /\ ~a.exc /\ a.unit = req.unit /\ a.fc = req.fc
  /\ req.fc = 3 => a.qty = req.qty
  /\ link = "tcp" => a.stamp = req.stamp /\ a.qty = req.qty

\* A transaction succeeds only with an answer that fits, however many late, broken
\* or foreign answers are around, over the wrap of the transaction id and through
\* reconnects.
AcceptedFits ==
  [][(req # NoRequest /\ ok') => Fits(got[1].of)]_linkVars

\* Nothing that had arrived before a request was sent is taken for its answer: the
\* input is discarded (RTU) or told apart (TCP), half-read frames included.
NothingFromBefore ==
  [][(req # NoRequest /\ ok')
       => \A i \in DOMAIN got : ~got[i].old]_linkVars

\* The device or the line fails the client.
Misbehaves ==
  /\ alive
  /\ \/ \E u \in Uids, x \in {"refused", "silent"} : ReadsOf(u, x) \/ OthersOf(u, x)
     \/ \E u \in Uids, r \in Requests : SendFails(u, r)
     \/ Lose \/ PeerCloses \/ (Timeout /\ wire # <<>>)
     \/ link = "rtu" /\ wire # <<>> /\ req = NoRequest /\ req' # NoRequest

\* Once the device answers every request in time again, every unit's reads succeed
\* again, for good: what late answers have done to the stream is overcome, on TCP
\* by failing until the link is closed.
LinkRecovers ==
  (<>[][~Misbehaves]_linkVars) => \A u \in Uids : <>[](u \in users => good[u])
=============================================================================
