----------------------------- MODULE CmosProofs ------------------------------
(***************************************************************************)
(* Proofs about the subscriber's connections, for any publishers, slots,   *)
(* topics, table and buffer sizes, and for publishers, connections and a   *)
(* master that come and go at any time.                                    *)
(***************************************************************************)
EXTENDS Cmos, SequenceTheorems, TLAPS

\* The messages of a publisher are numbered in the order they are published.
Rising(m) == \A a, b \in DOMAIN m : a < b => m[a] < m[b]

\* What a slot has heard, and what waits on its connection, of a publisher that
\* has sent n messages.
Heard(h, n)      == Rising(h) /\ \A a \in DOMAIN h : h[a] <= n
Follows(st, h, n) ==
  /\ Heard(st, n)
  /\ \A a \in DOMAIN h : \A b \in DOMAIN st : h[a] < st[b]

\* A publisher and a slot have at most one connection: a second one would deliver
\* every message twice.
OneConnection ==
  \A i, j \in Active :
    conns[i].pub = conns[j].pub /\ conns[i].slot = conns[j].slot => i = j

\* What is under way is newer than all that was heard before.
StreamsFollow ==
  /\ \A p \in Pubs : \A s \in Slots : Heard(heard[p][s], sent[p])
  /\ \A i \in Active :
       Follows(conns[i].stream, heard[conns[i].pub][conns[i].slot], sent[conns[i].pub])

\* The history is a function of publishers and slots.
HeardFields == heard = [p \in Pubs |-> [s \in Slots |-> heard[p][s]]]

\* The inductive invariant.
IInv ==
  /\ TypeOK /\ HeardFields /\ sent \in [Pubs -> Nat]
  /\ OneConnection /\ StreamsFollow

-----------------------------------------------------------------------------
\* Sizes and bounds.
LEMMA Bounds ==
  /\ NSlots \in Nat \ {0} /\ MaxBuf \in Nat \ {0} /\ MaxMsg \in [Pubs -> Nat] /\ MaxConn \in Nat
  BY TableAssumption

\* An entry of the table is a connection or free.
LEMMA Entries ==
  /\ NoConn \notin Connections
  /\ \A c \in Connections : /\ c.pub \in Pubs /\ c.slot \in Slots /\ c.up \in BOOLEAN
                            /\ c.accepted \in BOOLEAN /\ c.stream \in Seq(Nat)
  BY ConnAssumption DEF Connections

\* A connection whose stream is replaced is that connection.
WithStream(c, st) == [c EXCEPT !.stream = st]
LEMMA SetStream ==
  ASSUME NEW c \in Connections, NEW st \in Seq(Nat)
  PROVE  /\ WithStream(c, st) \in Connections
         /\ WithStream(c, st).stream = st
         /\ WithStream(c, st).pub = c.pub /\ WithStream(c, st).slot = c.slot
  BY DEF Connections, WithStream

\* A new connection has nothing to deliver yet.
LEMMA NothingFollows ==
  ASSUME NEW h, NEW n \in Nat
  PROVE  Follows(<< >>, h, n)
  BY DEF Follows, Heard, Rising

\* A message that is published follows all that was published before.
LEMMA NextFollows ==
  ASSUME NEW h \in Seq(Nat), NEW st \in Seq(Nat), NEW n \in Nat, Heard(h, n), Follows(st, h, n)
  PROVE  /\ Heard(h, n + 1) /\ Follows(st, h, n + 1)
         /\ Append(st, n + 1) \in Seq(Nat) /\ Follows(Append(st, n + 1), h, n + 1)
<1> DEFINE l == Len(st) + 1
           t == Append(st, n + 1)
<1>1. /\ l \in Nat /\ DOMAIN st = 1 .. Len(st) /\ Len(st) \in Nat
      /\ t \in Seq(Nat) /\ DOMAIN t = 1 .. l /\ t[l] = n + 1
      /\ \A b \in DOMAIN st : t[b] = st[b] /\ st[b] \in Nat /\ st[b] <= n
      /\ \A a \in DOMAIN h : h[a] \in Nat /\ h[a] <= n
  BY DEF Follows, Heard
<1>2. Heard(h, n + 1) /\ Follows(st, h, n + 1)
  BY <1>1 DEF Heard, Follows
<1> HIDE DEF t
<1>3. \A b \in DOMAIN t : b = l \/ b \in DOMAIN st
  BY <1>1
<1>4. Rising(t)
  <2> SUFFICES ASSUME NEW a \in DOMAIN t, NEW b \in DOMAIN t, a < b
               PROVE  t[a] < t[b]
    BY DEF Rising
  <2>1. a \in DOMAIN st
    BY <1>1
  <2>2. CASE b = l
    BY <1>1, <2>1, <2>2
  <2>3. CASE b \in DOMAIN st
    BY <1>1, <2>1, <2>3 DEF Follows, Heard, Rising
  <2> QED
    BY <1>3, <2>2, <2>3
<1>5. ASSUME NEW b \in DOMAIN t
      PROVE  t[b] <= n + 1 /\ \A a \in DOMAIN h : h[a] < t[b]
  <2>1. CASE b = l
    <3>1. t[b] = n + 1
      BY <1>1, <2>1
    <3> QED
      BY <1>1, <3>1
  <2>2. CASE b \in DOMAIN st
    BY <1>1, <2>2 DEF Follows
  <2> QED
    BY <1>3, <2>1, <2>2
<1> QED
  BY <1>1, <1>2, <1>4, <1>5 DEF Follows, Heard, t

\* What a slot is handed continues what it has heard.
LEMMA HandedOver ==
  ASSUME NEW h \in Seq(Nat), NEW st \in Seq(Nat), NEW n \in Nat, Heard(h, n), Follows(st, h, n)
  PROVE  h \o st \in Seq(Nat) /\ Heard(h \o st, n)
<1> DEFINE t == h \o st
<1>1. /\ t \in Seq(Nat) /\ DOMAIN t = 1 .. Len(h) + Len(st) /\ Len(h) \in Nat /\ Len(st) \in Nat
      /\ DOMAIN h = 1 .. Len(h) /\ DOMAIN st = 1 .. Len(st)
      /\ \A a \in DOMAIN h : t[a] = h[a]
      /\ \A b \in DOMAIN t : b \in DOMAIN h \/ (b - Len(h) \in DOMAIN st /\ t[b] = st[b - Len(h)])
  OBVIOUS
<1> HIDE DEF t
<1>2. \A a \in DOMAIN t : t[a] <= n
  BY <1>1 DEF Heard, Follows
<1>3. Rising(t)
  <2> SUFFICES ASSUME NEW a \in DOMAIN t, NEW b \in DOMAIN t, a < b
               PROVE  t[a] < t[b]
    BY DEF Rising
  <2>1. CASE a \in DOMAIN h /\ b \in DOMAIN h
    BY <1>1, <2>1 DEF Heard, Rising
  <2>2. CASE a \in DOMAIN h /\ b \notin DOMAIN h
    BY <1>1, <2>2 DEF Follows
  <2>3. CASE a \notin DOMAIN h /\ b \notin DOMAIN h
    BY <1>1, <2>3 DEF Follows, Heard, Rising
  <2>4. a \notin DOMAIN h => b \notin DOMAIN h
    BY <1>1
  <2> QED
    BY <2>1, <2>2, <2>3, <2>4
<1> QED
  BY <1>1, <1>2, <1>3 DEF Heard, t

-----------------------------------------------------------------------------
\* What the invariant says of the table and of the streams in it.
Streams == /\ conns \in [Table -> Connections \union {NoConn}]
           /\ OneConnection /\ StreamsFollow

\* Before anything is published.
LEMMA InitIInv == Init => IInv
<1> SUFFICES ASSUME Init PROVE IInv
  OBVIOUS
<1>1. Active = {}
  BY DEF Init, Active, ctx_init_conns
<1>2. heard = [p \in Pubs |-> [s \in Slots |-> << >>]] /\ sent = [p \in Pubs |-> 0]
  BY DEF Init
<1>3. HeardFields /\ sent \in [Pubs -> Nat]
  BY <1>2 DEF HeardFields
<1>4. OneConnection /\ StreamsFollow
  BY <1>1, <1>2 DEF OneConnection, StreamsFollow, Heard, Rising
<1>5. TypeOK
  <2>1. \A p \in Pubs : sent[p] \in 0 .. MaxMsg[p]
    BY <1>2, Bounds
  <2>2. conns \in [Table -> Connections \union {NoConn}]
    BY DEF Init, ctx_init_conns
  <2>3. \A p \in Pubs : \A s \in Slots : heard[p][s] \in Seq(Nat)
    BY <1>2
  <2>4. next \in Slots
    BY Bounds DEF Init, Slots
  <2> QED
    BY <2>1, <2>2, <2>3, <2>4 DEF Init, TypeOK
<1> QED
  BY <1>3, <1>4, <1>5 DEF IInv

\* Connections that stay as they are, lose what is under way, or go.
LEMMA StreamsKept ==
  ASSUME IInv, heard' = heard, sent' = sent, conns' \in [Table -> Connections \union {NoConn}],
         \A i \in Table : conns'[i] # NoConn =>
           /\ conns[i] # NoConn
           /\ conns'[i].pub = conns[i].pub /\ conns'[i].slot = conns[i].slot
           /\ conns'[i].stream \in {conns[i].stream, << >>}
  PROVE  Streams'
<1>1. Active' \subseteq Active
  BY DEF Active
<1>2. OneConnection'
  BY <1>1 DEF IInv, OneConnection, Active
<1>3. \A p \in Pubs : \A s \in Slots : Heard(heard'[p][s], sent'[p])
  BY DEF IInv, StreamsFollow
<1>4. ASSUME NEW i \in Active'
      PROVE  Follows(conns'[i].stream, heard'[conns'[i].pub][conns'[i].slot], sent'[conns'[i].pub])
  <2>1. i \in Active /\ i \in Table /\ conns'[i] # NoConn
    BY <1>1 DEF Active
  <2>2. conns[i] \in Connections
    BY <2>1 DEF IInv, TypeOK, Active
  <2>3. sent[conns[i].pub] \in Nat
    BY <2>2, Entries DEF IInv
  <2>4. Follows(conns[i].stream, heard[conns[i].pub][conns[i].slot], sent[conns[i].pub])
    BY <2>1 DEF IInv, StreamsFollow
  <2>5. Follows(<< >>, heard[conns[i].pub][conns[i].slot], sent[conns[i].pub])
    BY <2>3, NothingFollows
  <2> QED
    BY <2>1, <2>4, <2>5
<1> QED
  BY <1>2, <1>3, <1>4 DEF Streams, StreamsFollow

\* ctx_add_pub: the new connections are for publishers that had none for the slot.
LEMMA AddedStreams ==
  ASSUME IInv, heard' = heard, sent' = sent, NEW ps \in SUBSET Pubs, NEW s \in Slots,
         ctx_add_pub(ps, s)
  PROVE  Streams' /\ Active \subseteq Active'
<1> DEFINE new == {p \in ps \cap running : ~ctx_find_conn(p, s)}
           free == {i \in Table : conns[i] = NoConn}
<1>1. PICK used \in SUBSET free : \E who \in [used -> new] :
        /\ \A i, j \in used : who[i] = who[j] => i = j
        /\ conns' = [i \in Table |-> IF i \in used THEN Connection(who[i], s) ELSE conns[i]]
  BY DEF ctx_add_pub
<1>2. PICK who \in [used -> new] :
        /\ \A i, j \in used : who[i] = who[j] => i = j
        /\ conns' = [i \in Table |-> IF i \in used THEN Connection(who[i], s) ELSE conns[i]]
  BY <1>1
<1>3. ASSUME NEW p \in Pubs
      PROVE  /\ Connection(p, s) \in Connections /\ Connection(p, s) # NoConn
             /\ Connection(p, s).pub = p /\ Connection(p, s).slot = s
             /\ Connection(p, s).stream = << >>
  <2>1. Connection(p, s) \in Connections
    BY DEF Connection, Connections
  <2> QED
    BY <2>1, Entries DEF Connection
<1>4. \A i \in used : who[i] \in Pubs /\ i \in Table /\ i \notin Active /\ ~ctx_find_conn(who[i], s)
  BY DEF Active
<1>5. conns \in [Table -> Connections \union {NoConn}]
  BY DEF IInv, TypeOK
<1>6. /\ conns' \in [Table -> Connections \union {NoConn}]
      /\ \A i \in used : /\ conns'[i] # NoConn /\ conns'[i].pub = who[i] /\ conns'[i].slot = s
                         /\ conns'[i].stream = << >>
      /\ \A i \in Table : i \notin used => conns'[i] = conns[i]
  <2>1. \A i \in used : conns'[i] = Connection(who[i], s)
    BY <1>2
  <2>2. conns' \in [Table -> Connections \union {NoConn}]
    BY <1>2, <1>3, <1>4, <1>5
  <2> QED
    BY <1>2, <1>3, <1>4, <2>1, <2>2
<1>7. Active' = Active \union used
  BY <1>4, <1>6 DEF Active
<1>8. OneConnection'
  <2> SUFFICES ASSUME NEW i \in Active', NEW j \in Active',
                      conns'[i].pub = conns'[j].pub, conns'[i].slot = conns'[j].slot
               PROVE  i = j
    BY DEF OneConnection
  <2>1. CASE i \in used /\ j \in used
    BY <1>2, <1>6, <2>1
  <2>2. CASE i \in used /\ j \notin used
    BY <1>4, <1>6, <1>7, <2>2 DEF ctx_find_conn, Active
  <2>3. CASE i \notin used /\ j \in used
    BY <1>4, <1>6, <1>7, <2>3 DEF ctx_find_conn, Active
  <2>4. CASE i \notin used /\ j \notin used
    BY <1>6, <1>7, <2>4 DEF IInv, OneConnection, Active
  <2> QED
    BY <2>1, <2>2, <2>3, <2>4
<1>9. StreamsFollow'
  <2>1. \A p \in Pubs : \A t \in Slots : Heard(heard'[p][t], sent'[p])
    BY DEF IInv, StreamsFollow
  <2>2. ASSUME NEW i \in Active'
        PROVE  Follows(conns'[i].stream, heard'[conns'[i].pub][conns'[i].slot], sent'[conns'[i].pub])
    <3>1. CASE i \in used
      <4>1. conns'[i].stream = << >> /\ conns'[i].pub \in Pubs
        BY <1>4, <1>6, <3>1
      <4>2. sent'[conns'[i].pub] \in Nat
        BY <4>1 DEF IInv
      <4> QED
        BY <4>1, <4>2, NothingFollows
    <3>2. CASE i \notin used
      BY <1>6, <1>7, <3>2 DEF IInv, StreamsFollow, Active
    <3> QED
      BY <3>1, <3>2
  <2> QED
    BY <2>1, <2>2 DEF StreamsFollow
<1> QED
  BY <1>6, <1>7, <1>8, <1>9 DEF Streams

\* cmos_publish: the message goes on the connections that have room for it.
LEMMA PublishIInv ==
  ASSUME IInv, NEW p \in Pubs, cmos_publish(p)
  PROVE  IInv'
<1>1. /\ sent[p] < MaxMsg[p] /\ sent' = [sent EXCEPT ![p] = @ + 1]
      /\ masterUp' = masterUp /\ registry' = registry /\ running' = running /\ pc' = pc
      /\ next' = next /\ masterSock' = masterSock /\ ready' = ready /\ heard' = heard
  BY DEF cmos_publish, master
<1>2. /\ sent' \in [Pubs -> Nat] /\ sent[p] \in Nat /\ sent'[p] = sent[p] + 1
      /\ \A o \in Pubs : o # p => sent'[o] = sent[o]
  BY <1>1 DEF IInv
<1>3. \A o \in Pubs : sent'[o] \in 0 .. MaxMsg[o]
  <2> TAKE o \in Pubs
  <2>1. sent[o] \in 0 .. MaxMsg[o] /\ MaxMsg[o] \in Nat
    BY Bounds DEF IInv, TypeOK
  <2>2. CASE o = p
    BY <1>1, <1>2, <2>1, <2>2
  <2>3. CASE o # p
    BY <1>2, <2>1, <2>3
  <2> QED
    BY <2>2, <2>3
<1>4. \A o \in Pubs : \A s \in Slots :
        heard[o][s] \in Seq(Nat) /\ Heard(heard[o][s], sent[o])
  BY DEF IInv, TypeOK, StreamsFollow
<1> DEFINE Room(i) == /\ i \in Active /\ conns[i].pub = p /\ conns[i].up
                      /\ conns[i].accepted /\ Len(conns[i].stream) < MaxBuf
<1>5. conns' = [i \in Table |-> IF Room(i) THEN [conns[i] EXCEPT !.stream = Append(@, sent'[p])]
                              ELSE conns[i]]
  BY DEF cmos_publish
<1>6. ASSUME NEW i \in Table
      PROVE  /\ conns'[i] \in Connections \union {NoConn}
             /\ conns'[i] # NoConn <=> conns[i] # NoConn
             /\ conns[i] # NoConn => /\ conns'[i].pub = conns[i].pub /\ conns'[i].slot = conns[i].slot
                                     /\ conns[i] \in Connections
                                     /\ \/ conns'[i].stream = conns[i].stream
                                        \/ /\ conns[i].pub = p
                                           /\ conns'[i].stream = Append(conns[i].stream, sent[p] + 1)
  <2>1. conns[i] \in Connections \union {NoConn}
    BY DEF IInv, TypeOK
  <2>2. CASE Room(i)
    <3>1. conns[i] \in Connections
      BY <2>1, <2>2 DEF Active
    <3>2. conns'[i] = WithStream(conns[i], Append(conns[i].stream, sent[p] + 1))
      BY <1>2, <1>5, <2>2 DEF WithStream
    <3>3. /\ conns'[i].stream = Append(conns[i].stream, sent[p] + 1)
          /\ conns'[i].pub = conns[i].pub /\ conns'[i].slot = conns[i].slot
          /\ conns'[i] \in Connections
      <4> DEFINE st == Append(conns[i].stream, sent[p] + 1)
                 c  == WithStream(conns[i], st)
      <4>1. st \in Seq(Nat)
        BY <1>2, <3>1, Entries
      <4>2. /\ c \in Connections /\ c.stream = st
            /\ c.pub = conns[i].pub /\ c.slot = conns[i].slot
        BY <3>1, <4>1, SetStream
      <4> QED
        BY <3>2, <4>2
    <3> QED
      BY <2>2, <3>1, <3>3, Entries DEF Active
  <2>3. CASE ~Room(i)
    <3>1. conns'[i] = conns[i]
      BY <1>5, <2>3
    <3> QED
      BY <2>1, <3>1
  <2> QED
    BY <2>2, <2>3
<1> HIDE DEF Room
<1>7. conns' \in [Table -> Connections \union {NoConn}] /\ Active' = Active
  BY <1>5, <1>6 DEF Active
<1>8. OneConnection'
  BY <1>6, <1>7 DEF IInv, OneConnection, Active
<1>9. StreamsFollow'
  <2>1. ASSUME NEW o \in Pubs, NEW s \in Slots PROVE Heard(heard'[o][s], sent'[o])
    <3>1. CASE o = p
      <4>1. Follows(<< >>, heard[o][s], sent[o]) /\ << >> \in Seq(Nat)
        BY <1>2, <3>1, NothingFollows
      <4>2. Heard(heard[o][s], sent[o] + 1)
        BY <1>2, <1>4, <3>1, <4>1, NextFollows
      <4> QED
        BY <1>1, <1>2, <3>1, <4>2
    <3>2. CASE o # p
      BY <1>1, <1>2, <1>4, <3>2
    <3> QED
      BY <3>1, <3>2
  <2>2. ASSUME NEW i \in Active'
        PROVE  Follows(conns'[i].stream, heard'[conns'[i].pub][conns'[i].slot], sent'[conns'[i].pub])
    <3>1. i \in Active /\ i \in Table /\ conns[i] # NoConn
      BY <1>7 DEF Active
    <3> DEFINE o == conns[i].pub
               s == conns[i].slot
               st == conns[i].stream
    <3>2. o \in Pubs /\ s \in Slots /\ st \in Seq(Nat) /\ conns'[i].pub = o /\ conns'[i].slot = s
      BY <1>6, <3>1, Entries
    <3>3. Follows(st, heard[o][s], sent[o])
      BY <3>1 DEF IInv, StreamsFollow
    <3>4. conns'[i].stream = st \/ (o = p /\ conns'[i].stream = Append(st, sent[p] + 1))
      BY <1>6, <3>1
    <3> SUFFICES Follows(conns'[i].stream, heard[o][s], sent'[o])
      BY <1>1, <3>2
    <3>5. CASE o = p
      <4>1. /\ Follows(st, heard[p][s], sent[p] + 1)
            /\ Follows(Append(st, sent[p] + 1), heard[p][s], sent[p] + 1)
        BY <1>2, <1>4, <3>2, <3>3, <3>5, NextFollows
      <4> QED
        BY <1>2, <3>4, <3>5, <4>1
    <3>6. CASE o # p
      BY <1>2, <3>2, <3>3, <3>4, <3>6
    <3> QED
      BY <3>5, <3>6
  <2> QED
    BY <2>1, <2>2 DEF StreamsFollow
<1>10. TypeOK'
  BY <1>1, <1>3, <1>7 DEF IInv, TypeOK
<1> QED
  BY <1>1, <1>2, <1>8, <1>9, <1>10 DEF IInv, HeardFields

\* ctx_handle_line and the close of a connection.
LEMMA HandleEventIInv ==
  ASSUME IInv, NEW i \in Table, HandleEvent(i)
  PROVE  IInv'
<1>1. /\ i \in ready /\ ready' = ready \ {i} /\ sent' = sent
      /\ masterUp' = masterUp /\ registry' = registry /\ running' = running /\ pc' = pc
      /\ next' = next /\ masterSock' = masterSock
  BY DEF HandleEvent, master
<1>2. i \in Active /\ conns[i] \in Connections /\ conns[i] # NoConn
  BY <1>1 DEF IInv, TypeOK, Active
<1> DEFINE p == conns[i].pub
           s == conns[i].slot
           st == conns[i].stream
<1>3. p \in Pubs /\ s \in Slots /\ st \in Seq(Nat)
  BY <1>2, Entries
<1>4. CASE st = << >>
  <2>1. conns' = [conns EXCEPT ![i] = NoConn] /\ heard' = heard
    BY <1>4 DEF HandleEvent
  <2>2. conns' \in [Table -> Connections \union {NoConn}]
        /\ \A j \in Table : conns'[j] = IF j = i THEN NoConn ELSE conns[j]
    BY <2>1 DEF IInv, TypeOK
  <2>3. Streams'
    <3>1. \A j \in Table : conns'[j] # NoConn =>
            /\ conns[j] # NoConn
            /\ conns'[j].pub = conns[j].pub /\ conns'[j].slot = conns[j].slot
            /\ conns'[j].stream \in {conns[j].stream, << >>}
      BY <2>2
    <3> QED
      BY <1>1, <2>1, <2>2, <3>1, StreamsKept
  <2>4. ready' \subseteq Active'
    BY <1>1, <2>2 DEF Active, IInv, TypeOK
  <2>5. TypeOK'
    BY <1>1, <2>1, <2>2, <2>4 DEF IInv, TypeOK
  <2> QED
    BY <1>1, <2>1, <2>3, <2>5 DEF IInv, HeardFields, Streams
<1>5. CASE st # << >>
  <2>1. /\ conns' = [conns EXCEPT ![i].stream = << >>]
        /\ heard' = [heard EXCEPT ![p][s] = heard[p][s] \o st]
    BY <1>5 DEF HandleEvent
  <2>2. /\ conns' \in [Table -> Connections \union {NoConn}]
        /\ conns'[i] \in Connections /\ conns'[i].stream = << >>
        /\ conns'[i].pub = p /\ conns'[i].slot = s
        /\ \A j \in Table : j # i => conns'[j] = conns[j]
    <3>1. conns \in [Table -> Connections \union {NoConn}] /\ << >> \in Seq(Nat)
      BY DEF IInv, TypeOK
    <3>2. /\ conns'[i] = WithStream(conns[i], << >>)
          /\ \A j \in Table : j # i => conns'[j] = conns[j]
      BY <2>1, <3>1 DEF WithStream
    <3>3. conns'[i] \in Connections /\ conns'[i].stream = << >>
          /\ conns'[i].pub = p /\ conns'[i].slot = s
      <4> DEFINE c == WithStream(conns[i], << >>)
      <4>1. c \in Connections /\ c.stream = << >> /\ c.pub = p /\ c.slot = s
        BY <1>2, <3>1, SetStream
      <4> QED
        BY <3>2, <4>1
    <3>4. conns' = [j \in Table |-> conns'[j]]
      BY <2>1, <3>1
    <3> QED
      BY <3>1, <3>2, <3>3, <3>4
  <2>3. Active' = Active
    BY <1>2, <2>2, Entries DEF Active
  <2>4. OneConnection'
    BY <2>2, <2>3 DEF IInv, OneConnection, Active
  <2>5. /\ HeardFields' /\ heard'[p][s] = heard[p][s] \o st
        /\ \A o \in Pubs : \A t \in Slots : (o # p \/ t # s) => heard'[o][t] = heard[o][t]
    <3>1. heard = [o \in Pubs |-> [t \in Slots |-> heard[o][t]]]
      BY DEF IInv, HeardFields
    <3> HIDE DEF p, s, st
    <3>2. heard' = [o \in Pubs |-> [t \in Slots |->
                      IF o = p /\ t = s THEN heard[p][s] \o st ELSE heard[o][t]]]
      BY <1>3, <2>1, <3>1
    <3> QED
      BY <1>3, <3>2 DEF HeardFields
  <2>6. /\ heard[p][s] \in Seq(Nat) /\ sent[p] \in Nat
        /\ Heard(heard[p][s], sent[p]) /\ Follows(st, heard[p][s], sent[p])
    BY <1>2, <1>3 DEF IInv, TypeOK, StreamsFollow
  <2>7. heard'[p][s] \in Seq(Nat) /\ Heard(heard'[p][s], sent[p])
    BY <1>3, <2>5, <2>6, HandedOver
  <2>8. \A o \in Pubs : \A t \in Slots : heard'[o][t] \in Seq(Nat) /\ Heard(heard'[o][t], sent[o])
    BY <2>5, <2>7 DEF IInv, TypeOK, StreamsFollow
  <2>9. ASSUME NEW j \in Active'
        PROVE  Follows(conns'[j].stream, heard'[conns'[j].pub][conns'[j].slot], sent'[conns'[j].pub])
    <3>1. CASE j = i
      BY <1>1, <2>2, <2>6, <3>1, NothingFollows
    <3>2. CASE j # i
      <4>1. j \in Active /\ j \in Table /\ conns'[j] = conns[j] /\ conns[j] \in Connections
        BY <2>2, <2>3, <3>2 DEF Active, IInv, TypeOK
      <4>2. conns[j].pub \in Pubs /\ conns[j].slot \in Slots
            /\ (conns[j].pub # p \/ conns[j].slot # s)
        BY <1>2, <3>2, <4>1, Entries DEF IInv, OneConnection
      <4>3. Follows(conns[j].stream, heard[conns[j].pub][conns[j].slot], sent[conns[j].pub])
        BY <4>1 DEF IInv, StreamsFollow
      <4> QED
        BY <1>1, <2>5, <4>1, <4>2, <4>3
    <3> QED
      BY <3>1, <3>2
  <2>10. StreamsFollow'
    BY <1>1, <2>8, <2>9 DEF StreamsFollow
  <2>11. TypeOK'
    BY <1>1, <2>2, <2>3, <2>8 DEF IInv, TypeOK
  <2> QED
    BY <1>1, <2>4, <2>5, <2>10, <2>11 DEF IInv
<1> QED
  BY <1>4, <1>5

\* The other steps of the subscriber.
LEMMA SubscriberIInv ==
  ASSUME IInv,
         cmos_sub_create \/ Spin \/ ctx_reconnect_master \/ EventsDone
           \/ \E s \in Slots : LookupAnswered(s) \/ LookupFails(s)
  PROVE  IInv'
<1>1. /\ sent' = sent /\ heard' = heard /\ masterUp' = masterUp /\ registry' = registry
      /\ running' = running
  BY DEF cmos_sub_create, Spin, ctx_reconnect_master, EventsDone, LookupAnswered, LookupFails, master
<1>2. /\ next' \in Slots
      /\ pc' \in {"create", "add", "top", "master", "lookup", "events", "ended"}
      /\ masterSock' \in {"none", "open", "stale"}
  <2>1. CASE cmos_sub_create \/ Spin \/ ctx_reconnect_master \/ EventsDone
    BY <2>1 DEF IInv, TypeOK, cmos_sub_create, Spin, ctx_reconnect_master, EventsDone
  <2>2. ASSUME NEW s \in Slots, LookupAnswered(s) \/ LookupFails(s)
        PROVE  /\ next' \in Slots /\ pc' \in {"add", "top", "lookup", "events"}
               /\ masterSock' \in {masterSock, "none"}
    <3>1. NextSlot /\ pc \in {"add", "lookup"} /\ masterSock' \in {masterSock, "none"}
      BY <2>2 DEF LookupAnswered, LookupFails
    <3>2. next \in Slots
      BY DEF IInv, TypeOK
    <3> QED
      BY <3>1, <3>2, Bounds DEF NextSlot, Slots
  <2> QED
    BY <2>1, <2>2 DEF IInv, TypeOK
<1>3. Streams' /\ ready' \subseteq Active'
  <2>1. CASE cmos_sub_create \/ Spin \/ ctx_reconnect_master \/ EventsDone
    <3>1. conns' = conns /\ Active' = Active /\ (ready' = ready \/ ready' \subseteq Active)
      BY <2>1 DEF cmos_sub_create, Spin, ctx_reconnect_master, EventsDone, Active
    <3> QED
      BY <1>1, <3>1 DEF IInv, TypeOK, Streams, OneConnection, StreamsFollow
  <2>2. ASSUME NEW s \in Slots, LookupAnswered(s) \/ LookupFails(s)
        PROVE  Streams' /\ ready' \subseteq Active'
    <3>1. Known(s) \in SUBSET Pubs
      BY DEF Known, IInv, TypeOK
    <3>2. ready' = ready /\ \E ps \in SUBSET Known(s) : ctx_add_pub(ps, s)
      BY <2>2 DEF LookupAnswered, LookupFails
    <3>3. PICK ps \in SUBSET Pubs : ctx_add_pub(ps, s)
      BY <3>1, <3>2
    <3> QED
      BY <1>1, <3>2, <3>3, AddedStreams DEF IInv, TypeOK
  <2> QED
    BY <2>1, <2>2
<1>4. TypeOK'
  BY <1>1, <1>2, <1>3 DEF IInv, TypeOK, Streams
<1> QED
  BY <1>1, <1>3, <1>4 DEF IInv, HeardFields, Streams

\* Publishers start, accept and stop; connections break; the master comes and goes.
LEMMA SurroundingsIInv ==
  ASSUME IInv,
         \/ \E p \in Pubs : cmos_pub_init(p) \/ cmos_pub_poll(p) \/ cmos_pub_close(p)
         \/ \E i \in Table : Break(i)
         \/ MasterStops \/ MasterStarts
  PROVE  IInv'
<1>1. sent' = sent /\ heard' = heard /\ pc' = pc /\ next' = next /\ ready' = ready
  BY DEF cmos_pub_init, cmos_pub_poll, cmos_pub_close, Break, MasterStops, MasterStarts, master
<1>2. /\ masterUp' \in BOOLEAN /\ registry' \subseteq Pubs /\ running' \subseteq Pubs
      /\ masterSock' \in {"none", "open", "stale"}
  BY DEF IInv, TypeOK, cmos_pub_init, cmos_pub_poll, cmos_pub_close, Break, MasterStops,
         MasterStarts, master
<1> DEFINE Same(c, d) == /\ c.pub = d.pub /\ c.slot = d.slot /\ c.stream \in {d.stream, << >>}
<1>3. /\ conns' \in [Table -> Connections \union {NoConn}]
      /\ \A i \in Table : /\ conns'[i] # NoConn <=> conns[i] # NoConn
                          /\ conns[i] # NoConn => Same(conns'[i], conns[i])
  <2>1. conns \in [Table -> Connections \union {NoConn}]
    BY DEF IInv, TypeOK
  <2>2. \A i \in Active : i \in Table /\ conns[i] \in Connections /\ conns[i] # NoConn
    BY <2>1 DEF Active
  <2>3. ASSUME NEW L \in SUBSET Active, Cut(L)
        PROVE  /\ conns' \in [Table -> Connections \union {NoConn}]
               /\ \A i \in Table : /\ conns'[i] # NoConn <=> conns[i] # NoConn
                                   /\ conns[i] # NoConn => Same(conns'[i], conns[i])
    <3>1. PICK keep \in BOOLEAN : conns' = [i \in Table |->
            IF i \notin L THEN conns[i]
            ELSE [conns[i] EXCEPT !.up = FALSE, !.stream = IF keep THEN @ ELSE << >>]]
      BY <2>3 DEF Cut
    <3>2. ASSUME NEW i \in L
          PROVE  /\ conns'[i] \in Connections /\ Same(conns'[i], conns[i])
      <4>1. conns[i] \in Connections /\ i \in Table
        BY <2>2
      <4> DEFINE st == IF keep THEN conns[i].stream ELSE << >>
      <4>2. conns'[i] = [conns[i] EXCEPT !.up = FALSE, !.stream = st]
        BY <3>1, <4>1
      <4>3. st \in Seq(Nat) /\ st \in {conns[i].stream, << >>}
        BY <4>1, Entries
      <4> HIDE DEF st
      <4> QED
        BY <4>1, <4>2, <4>3 DEF Connections
    <3>3. \A i \in Table : i \notin L => conns'[i] = conns[i]
      BY <3>1
    <3>4. conns' = [i \in Table |-> conns'[i]]
      BY <3>1
    <3> HIDE DEF Same
    <3>5. \A i \in Table : conns[i] # NoConn => Same(conns[i], conns[i])
      BY DEF Same
    <3> QED
      BY <2>1, <2>2, <3>2, <3>3, <3>4, <3>5, Entries
  <2>4. CASE \E p \in Pubs : cmos_pub_poll(p)
    <3>1. PICK i \in Active : conns' = [conns EXCEPT ![i].accepted = TRUE]
      BY <2>4 DEF cmos_pub_poll
    <3>2. conns'[i] = [conns[i] EXCEPT !.accepted = TRUE]
          /\ \A j \in Table : j # i => conns'[j] = conns[j]
      BY <2>1, <2>2, <3>1
    <3>3. conns'[i] \in Connections /\ Same(conns'[i], conns[i])
      BY <2>2, <3>2 DEF Connections
    <3>4. conns' = [j \in Table |-> conns'[j]]
      BY <2>1, <3>1
    <3> QED
      BY <2>1, <2>2, <3>2, <3>3, <3>4, Entries
  <2>5. CASE \E p \in Pubs : cmos_pub_close(p)
    <3>1. PICK p \in Pubs : Cut({i \in Active : conns[i].pub = p})
      BY <2>5 DEF cmos_pub_close
    <3> QED
      BY <2>3, <3>1
  <2>6. CASE \E i \in Table : Break(i)
    <3>1. PICK i \in Table : i \in Active /\ Cut({i})
      BY <2>6 DEF Break
    <3> QED
      BY <2>3, <3>1
  <2>7. CASE (\E p \in Pubs : cmos_pub_init(p)) \/ MasterStops \/ MasterStarts
    <3>1. conns' = conns
      BY <2>7 DEF cmos_pub_init, MasterStops, MasterStarts
    <3> QED
      BY <2>1, <3>1
  <2> QED
    BY <2>4, <2>5, <2>6, <2>7
<1>4. Streams'
  BY <1>1, <1>3, StreamsKept
<1>5. Active' = Active
  BY <1>3 DEF Active
<1>6. TypeOK'
  BY <1>1, <1>2, <1>3, <1>5 DEF IInv, TypeOK
<1> QED
  BY <1>1, <1>4, <1>6 DEF IInv, HeardFields, Streams

\* Every step keeps the invariant.
LEMMA NextIInv ==
  ASSUME IInv, [Next]_vars
  PROVE  IInv'
<1>1. ASSUME NEW i \in Table, HandleEvent(i) PROVE IInv'
  BY <1>1, HandleEventIInv
<1>2. CASE cmos_sub_create \/ Spin \/ ctx_reconnect_master \/ EventsDone
             \/ \E s \in Slots : LookupAnswered(s) \/ LookupFails(s)
  BY <1>2, SubscriberIInv
<1>3. ASSUME NEW p \in Pubs, cmos_publish(p) PROVE IInv'
  BY <1>3, PublishIInv
<1>4. CASE \/ \E p \in Pubs : cmos_pub_init(p) \/ cmos_pub_poll(p) \/ cmos_pub_close(p)
           \/ \E i \in Table : Break(i)
           \/ MasterStops \/ MasterStarts
  BY <1>4, SurroundingsIInv
<1>5. CASE UNCHANGED vars
  BY <1>5 DEF vars, IInv, TypeOK, HeardFields, OneConnection, StreamsFollow, Active
<1> QED
  BY <1>1, <1>2, <1>3, <1>4, <1>5 DEF Next, Subscriber

-----------------------------------------------------------------------------
\* The inductive invariant holds in every reachable state.
THEOREM Invariance == Spec => []IInv
  BY InitIInv, NextIInv, PTL DEF Spec

\* Master, subscriber, publishers and the table of connections keep their types.
THEOREM Typing == Spec => []TypeOK
<1>1. IInv => TypeOK
  BY DEF IInv
<1> QED
  BY <1>1, Invariance, PTL

\* cmos_sub_spin_ctx hands a slot the messages of a publisher in their order and
\* none twice: ctx_find_conn keeps a publisher from a second connection for a slot,
\* and what a lost connection had not delivered is never delivered later.
THEOREM InOrderOnce == Spec => []InOrderOncePerSlot
<1>1. IInv => InOrderOncePerSlot
  <2> SUFFICES ASSUME IInv, NEW p \in Pubs, NEW s \in Slots,
                      NEW j \in 1 .. Len(heard[p][s]) - 1
               PROVE  heard[p][s][j] < heard[p][s][j + 1]
    BY DEF InOrderOncePerSlot
  <2>1. Rising(heard[p][s]) /\ heard[p][s] \in Seq(Nat)
    BY DEF IInv, TypeOK, StreamsFollow, Heard
  <2>2. j \in DOMAIN heard[p][s] /\ j + 1 \in DOMAIN heard[p][s] /\ j < j + 1
    BY <2>1
  <2> QED
    BY <2>1, <2>2 DEF Rising
<1> QED
  BY <1>1, Invariance, PTL
=============================================================================
