-------------------------------- MODULE Cmos --------------------------------
(* The message bus below the bridges: cmos_sub.c, the context of one         *)
(* subscriber thread with its master connection, its table of publisher      *)
(* connections and its spin loop, and cmos_pub.c, the publishers it listens  *)
(* to. The master that introduces them to each other is another program: it  *)
(* is modelled by what the library asks of it. Every slot has a connection   *)
(* of its own to every publisher of its topic.                               *)
EXTENDS Integers, Sequences, FiniteSets

CONSTANTS
  Pubs,        \* publishers
  NSlots,      \* cmos_sub_add calls of the thread
  PubTopic,    \* Pubs -> topic
  SlotTopic,   \* 1 .. NSlots -> topic
  MaxConn,     \* CM_MAX_PUB_CONN, 256 in the code
  MaxBuf,      \* messages a socket holds before send returns EAGAIN
  MaxMsg,      \* bound: Pubs -> number of messages it publishes
  NoConn       \* an entry of the table that is not active

Slots == 1 .. NSlots
Table == 1 .. MaxConn

\* A connection: "accepted" by the publisher, which sends to it from then on, "up"
\* until one side has closed it; "stream" is what is not read yet.
Connections ==
  [pub : Pubs, slot : Slots, up : BOOLEAN, accepted : BOOLEAN, stream : Seq(Nat)]

ASSUME ConnAssumption == NoConn \notin Connections

ASSUME TableAssumption ==
  /\ NSlots \in Nat \ {0} /\ MaxBuf \in Nat \ {0} /\ MaxMsg \in [Pubs -> Nat]
  /\ MaxConn \in Nat
  /\ MaxConn >= Cardinality({x \in Pubs \X Slots : PubTopic[x[1]] = SlotTopic[x[2]]})

VARIABLES
  masterUp,    \* the master runs
  registry,    \* publishers it knows
  running,     \* publishers that listen
  sent,        \* messages each has published
  pc,          \* of the subscriber thread
  next,        \* slot to look up next
  masterSock,  \* "none", "open", or "stale": the master behind it is gone
  conns,       \* pub_conns: Table -> NoConn or a connection
  ready,       \* events of epoll_wait not handled yet
  heard        \* history: what the callback of a slot got from a publisher

vars == <<masterUp, registry, running, sent, pc, next, masterSock, conns, ready, heard>>
master == <<masterUp, registry>>

-----------------------------------------------------------------------------
(* The table of connections.                                                 *)
Active == {i \in Table : conns[i] # NoConn}

ctx_init_conns == [i \in Table |-> NoConn]

\* Mutant of ctx_find_conn: a publisher is connected again at every lookup.
FindNothing(p, s) == FALSE

\* There is a connection of this publisher for this slot already.
ctx_find_conn(p, s) == \E i \in Active : conns[i].pub = p /\ conns[i].slot = s

Connection(p, s) == [pub |-> p, slot |-> s, up |-> TRUE, accepted |-> FALSE, stream |-> <<>>]

\* The publishers of an answer are added for the slot one after the other, in the
\* order the master names them, to the first free entry; a connect fails when nobody
\* listens, and a full table takes no more.
ctx_add_pub(ps, s) ==
  LET free == {i \in Table : conns[i] = NoConn}
      new  == {p \in ps \cap running : ~ctx_find_conn(p, s)}
  IN  \E used \in SUBSET free : \E who \in [used -> new] :
        /\ \A i, j \in used : who[i] = who[j] => i = j
        /\ \A p \in new : used = free \/ \E i \in used : who[i] = p
        /\ \A i \in used : \A j \in free : j < i => j \in used
        /\ conns' = [i \in Table |-> IF i \in used THEN Connection(who[i], s) ELSE conns[i]]

Init ==
  /\ masterUp = TRUE /\ registry = {} /\ running = {}
  /\ sent = [p \in Pubs |-> 0]
  /\ pc = "create" /\ next = 1 /\ masterSock = "none"
  /\ conns = ctx_init_conns /\ ready = {}
  /\ heard = [p \in Pubs |-> [s \in Slots |-> <<>>]]

-----------------------------------------------------------------------------
(* The subscriber thread.                                                    *)

\* cmos_sub_create: without a master the thread ends and nobody starts it again.
cmos_sub_create ==
  /\ pc = "create"
  /\ IF masterUp THEN pc' = "add" /\ masterSock' = "open"
     ELSE pc' = "ended" /\ UNCHANGED masterSock
  /\ UNCHANGED <<master, running, sent, next, conns, ready, heard>>

\* The slots are looked up one after the other: once each in cmos_sub_add, and
\* again in every round of the spin loop; then the loop goes on.
NextSlot ==
  IF next < NSlots THEN next' = next + 1 /\ UNCHANGED pc
  ELSE next' = 1 /\ pc' = IF pc = "add" THEN "top" ELSE "events"

\* What the master has to say of a topic.
Known(s) == {p \in registry : PubTopic[p] = SlotTopic[s]}

\* ctx_lookup_slot, answered up to END.
LookupAnswered(s) ==
  /\ pc \in {"add", "lookup"} /\ next = s /\ masterSock = "open"
  /\ ctx_add_pub(Known(s), s)
  /\ NextSlot
  /\ UNCHANGED <<master, running, sent, masterSock, ready, heard>>

\* The answer does not come, or breaks off: the connection is given up.
LookupFails(s) ==
  /\ pc \in {"add", "lookup"} /\ next = s
  /\ \E part \in SUBSET Known(s) :
       /\ masterSock # "open" => part = {}
       /\ ctx_add_pub(part, s)
  /\ masterSock' = "none" /\ NextSlot
  /\ UNCHANGED <<master, running, sent, ready, heard>>

\* Mutant of Looks: master and publishers are looked for only while there is no
\* connection at all.
LooksIdle == Active = {}

\* The loop looks for the master and for publishers every 500 ms, whatever
\* connections there are.
Looks == TRUE

\* The top of the loop: wait for events, if there is anything to wait for, then
\* look around if it is time to.
Spin ==
  /\ pc = "top"
  /\ ready' = {i \in Active : conns[i].stream # <<>> \/ ~conns[i].up}
  /\ \/ Active # {} /\ pc' = "events"
     \/ Looks /\ pc' = "master"
  /\ UNCHANGED <<master, running, sent, next, masterSock, conns, heard>>

\* The first lookup needs a master connection: NODE and REGISTER_SUB again.
ctx_reconnect_master ==
  /\ pc = "master"
  /\ IF masterSock # "none" THEN pc' = "lookup" /\ UNCHANGED masterSock
     ELSE IF masterUp THEN pc' = "lookup" /\ masterSock' = "open"
     ELSE pc' = "events" /\ UNCHANGED masterSock
  /\ UNCHANGED <<master, running, sent, next, conns, ready, heard>>

\* One event: what has arrived goes to the callback of the slot; a closed
\* connection is removed.
HandleEvent(i) ==
  /\ pc = "events" /\ i \in ready
  /\ ready' = ready \ {i}
  /\ LET c == conns[i] IN
       IF c.stream = <<>>
       THEN conns' = [conns EXCEPT ![i] = NoConn] /\ UNCHANGED heard
       ELSE /\ conns' = [conns EXCEPT ![i].stream = <<>>]
            /\ heard' = [heard EXCEPT ![c.pub][c.slot] = @ \o c.stream]
  /\ UNCHANGED <<master, running, sent, pc, next, masterSock>>

EventsDone ==
  /\ pc = "events" /\ ready = {} /\ pc' = "top"
  /\ UNCHANGED <<master, running, sent, next, masterSock, conns, ready, heard>>

Subscriber ==
  \/ cmos_sub_create \/ Spin \/ ctx_reconnect_master \/ EventsDone
  \/ \E s \in Slots : LookupAnswered(s) \/ LookupFails(s)
  \/ \E i \in Table : HandleEvent(i)

-----------------------------------------------------------------------------
(* The publishers.                                                           *)

\* cmos_pub_init: it listens, then registers; it does so once.
cmos_pub_init(p) ==
  /\ p \notin running /\ masterUp
  /\ running' = running \union {p} /\ registry' = registry \union {p}
  /\ UNCHANGED <<masterUp, sent, pc, next, masterSock, conns, ready, heard>>

\* cmos_pub_poll: one connection is accepted per call.
cmos_pub_poll(p) ==
  /\ p \in running
  /\ \E i \in Active :
       /\ conns[i].pub = p /\ conns[i].up /\ ~conns[i].accepted
       /\ conns' = [conns EXCEPT ![i].accepted = TRUE]
  /\ UNCHANGED <<master, running, sent, pc, next, masterSock, ready, heard>>

\* cmos_publish: a message that a socket has no room for is dropped for it alone.
cmos_publish(p) ==
  /\ p \in running /\ sent[p] < MaxMsg[p]
  /\ sent' = [sent EXCEPT ![p] = @ + 1]
  /\ conns' = [i \in Table |->
       IF /\ i \in Active /\ conns[i].pub = p /\ conns[i].up
          /\ conns[i].accepted /\ Len(conns[i].stream) < MaxBuf
       THEN [conns[i] EXCEPT !.stream = Append(@, sent'[p])]
       ELSE conns[i]]
  /\ UNCHANGED <<master, running, pc, next, masterSock, ready, heard>>

\* Connections end; what was under way is still read, or lost with a reset.
Cut(lost) == \E keep \in BOOLEAN : conns' = [i \in Table |->
  IF i \notin lost THEN conns[i]
  ELSE [conns[i] EXCEPT !.up = FALSE, !.stream = IF keep THEN @ ELSE <<>>]]

\* cmos_pub_close, or the publisher dies; the master may notice.
cmos_pub_close(p) ==
  /\ p \in running /\ running' = running \ {p}
  /\ registry' \in {registry, registry \ {p}}
  /\ Cut({i \in Active : conns[i].pub = p})
  /\ UNCHANGED <<masterUp, sent, pc, next, masterSock, ready, heard>>

-----------------------------------------------------------------------------
(* The surroundings.                                                         *)

\* The network or a keepalive ends one connection.
Break(i) ==
  /\ i \in Active /\ conns[i].up /\ Cut({i})
  /\ UNCHANGED <<master, running, sent, pc, next, masterSock, ready, heard>>

MasterStops ==
  /\ masterUp /\ masterUp' = FALSE
  /\ masterSock' = IF masterSock = "open" THEN "stale" ELSE masterSock
  /\ UNCHANGED <<registry, running, sent, pc, next, conns, ready, heard>>

\* A new master knows nobody.
MasterStarts ==
  /\ ~masterUp /\ masterUp' = TRUE /\ registry' = {}
  /\ UNCHANGED <<running, sent, pc, next, masterSock, conns, ready, heard>>

Next ==
  \/ Subscriber
  \/ \E p \in Pubs :
       cmos_pub_init(p) \/ cmos_pub_poll(p) \/ cmos_publish(p) \/ cmos_pub_close(p)
  \/ \E i \in Table : Break(i)
  \/ MasterStops \/ MasterStarts

\* The thread runs on, 500 ms pass again and again, a master that is asked again
\* and again answers now and then, and publishers call cmos_pub_poll in a loop.
Fairness ==
  /\ WF_vars(Subscriber)
  /\ SF_vars(Spin /\ pc' = "master")
  /\ \A s \in Slots : SF_vars(LookupAnswered(s))
  /\ \A p \in Pubs : WF_vars(cmos_pub_poll(p))

Spec == Init /\ [][Next]_vars /\ Fairness

-----------------------------------------------------------------------------
TypeOK ==
  /\ masterUp \in BOOLEAN /\ registry \subseteq Pubs /\ running \subseteq Pubs
  /\ \A p \in Pubs : sent[p] \in 0 .. MaxMsg[p]
  /\ pc \in {"create", "add", "top", "master", "lookup", "events", "ended"}
  /\ next \in Slots /\ masterSock \in {"none", "open", "stale"}
  /\ conns \in [Table -> Connections \union {NoConn}]
  /\ ready \subseteq Active
  /\ \A p \in Pubs : \A s \in Slots : heard[p][s] \in Seq(Nat)

\* The callback of a slot gets the messages of a publisher in the order they were
\* published and none of them twice, over reconnects, restarts of the publisher and
\* lookups that name a publisher that is connected already.
InOrderOncePerSlot ==
  \A p \in Pubs, s \in Slots :
    \A j \in 1 .. Len(heard[p][s]) - 1 : heard[p][s][j] < heard[p][s][j + 1]

Listens(p, s) ==
  \E i \in Active : /\ conns[i].pub = p /\ conns[i].slot = s
                    /\ conns[i].up /\ conns[i].accepted

Steady(p) == masterUp /\ p \in running /\ p \in registry /\ pc # "ended"

\* A publisher that stays registered with a master that stays up, and whose
\* connections stay up, is in the end heard by every slot of its topic, no matter
\* which other publishers come, go or keep talking, and how often the master was
\* slow to answer before.
EveryPublisherHeard ==
  \A p \in Pubs : \A s \in {t \in Slots : SlotTopic[t] = PubTopic[p]} :
    (/\ <>[]Steady(p)
     /\ <>[][~\E i \in Active : conns[i].pub = p /\ Break(i)]_vars)
      => <>[]Listens(p, s)
=============================================================================
