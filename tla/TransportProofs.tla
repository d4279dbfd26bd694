--------------------------- MODULE TransportProofs ---------------------------
(***************************************************************************)
(* For every set of transports and descriptors, every length of the table  *)
(* and every discipline of the handlers and users:                         *)
(*   - every variable keeps its type, whatever happens;                    *)
(*   - as long as no thread has used the context of another socket, for a  *)
(*     late event or by an id kept from before while the context is being  *)
(*     named, the bytes of a connection stay in order, the contexts match  *)
(*     the sockets, and bytes wait in a write buffer exactly while the     *)
(*     poller watches for room; and an id that the user has kept closes no *)
(*     connection but its own, except in the middle of add_fd.             *)
(*                                                                         *)
(* The second part is not inductive as it stands.  It needs that what a    *)
(* thread still has to do, the frames of its stack and the events of its   *)
(* round, is about its own transport's connections if it is about the      *)
(* socket of the context at all (Mine), that a thread on its way to        *)
(* g_close_socket is alone with a descriptor that is in no use (ShutOK),   *)
(* that the ids given out fit the contexts they were given for (KnownInv), *)
(* and that a context has another name than its owner's only while the     *)
(* owner is about to store it (NamesInv).                                  *)
(***************************************************************************)
EXTENDS Transport, SequenceTheorems, FiniteSetTheorems, TLAPS

TCP == "TCP_CONNECTION"

-----------------------------------------------------------------------------
(* Sequences *)

LEMMA SmallMod ==
  ASSUME NEW x \in Nat, NEW b \in Nat, x < b
  PROVE  x % b = x
OBVIOUS

LEMMA OneFrame ==
  ASSUME NEW S, NEW f \in S, NEW s \in Seq(S)
  PROVE  /\ <<f>> \in Seq(S) /\ Range(<<f>>) = {f}
         /\ <<f>> \o s \in Seq(S) /\ <<f>> \o s # <<>>
         /\ Head(<<f>> \o s) = f /\ Tail(<<f>> \o s) = s
         /\ Range(<<f>> \o s) = {f} \cup Range(s)
<1>1. <<f>> \in Seq(S) /\ Len(<<f>>) = 1 /\ <<f>>[1] = f
  OBVIOUS
<1>2. Range(<<f>>) = {f}
  BY <1>1 DEF Range
<1>3. Range(<<f>> \o s) = {f} \cup Range(s)
  <2> DEFINE a == <<f>>
  <2>1. a \in Seq(S) /\ Range(a) = {f}
    BY <1>1, <1>2
  <2> HIDE DEF a
  <2>2. Range(a \o s) = Range(a) \cup Range(s)
    BY <2>1, RangeConcatenation
  <2> QED
    BY <2>1, <2>2 DEF a
<1> DEFINE c == <<f>> \o s
<1>4. /\ c \in Seq(S) /\ Len(c) = 1 + Len(s) /\ Len(s) \in Nat
      /\ \A i \in 1 .. 1 + Len(s) : c[i] = IF i <= 1 THEN f ELSE s[i - 1]
  BY <1>1, ConcatProperties, LenProperties
<1> HIDE DEF c
<1>5. c # <<>> /\ Head(c) = f
  BY <1>4
<1>6. Tail(c) \in Seq(S) /\ Len(Tail(c)) = Len(s) /\ \A i \in 1 .. Len(s) : Tail(c)[i] = s[i]
  <2>1. Tail(c) \in Seq(S) /\ Len(Tail(c)) = Len(c) - 1
        /\ \A i \in 1 .. Len(Tail(c)) : Tail(c)[i] = c[i + 1]
    BY <1>4, <1>5, HeadTailProperties
  <2> QED
    BY <1>4, <2>1
<1>7. Tail(c) = s
  BY <1>6, SeqEqual
<1> QED
  BY <1>1, <1>2, <1>3, <1>4, <1>5, <1>7 DEF c

LEMMA TailRange ==
  ASSUME NEW S, NEW s \in Seq(S), s # <<>>
  PROVE  /\ Head(s) \in S /\ Tail(s) \in Seq(S)
         /\ Head(s) \in Range(s) /\ Range(Tail(s)) \subseteq Range(s)
<1>1. /\ Head(s) \in S /\ Tail(s) \in Seq(S) /\ Len(Tail(s)) = Len(s) - 1
      /\ \A i \in 1 .. Len(Tail(s)) : Tail(s)[i] = s[i + 1]
  BY HeadTailProperties
<1>2. Range(s) = {s[i] : i \in 1 .. Len(s)} /\ Range(Tail(s)) = {Tail(s)[i] : i \in 1 .. Len(Tail(s))}
  BY <1>1, RangeEquality
<1>3. Len(s) \in Nat \ {0} /\ Head(s) = s[1]
  BY EmptySeq
<1>4. Head(s) \in Range(s)
  BY <1>2, <1>3
<1>5. ASSUME NEW i \in 1 .. Len(Tail(s)) PROVE Tail(s)[i] \in Range(s)
  <2>1. i + 1 \in 1 .. Len(s) /\ Tail(s)[i] = s[i + 1]
    BY <1>1, <1>3
  <2> QED
    BY <1>2, <2>1
<1> QED
  BY <1>1, <1>2, <1>4, <1>5

(* The bytes that send accepts, one after the other.                       *)
UpTo(n) == [i \in 1 .. n |-> i]
From(n, m) == [i \in 1 .. m |-> n + i]

LEMMA Bytes ==
  ASSUME NEW n \in Nat, NEW m \in Nat
  PROVE  /\ UpTo(n) \in Seq(Nat) /\ From(n, m) \in Seq(Nat) /\ Len(From(n, m)) = m
         /\ UpTo(n) \o From(n, m) = UpTo(n + m)
<1>1. /\ UpTo(n) \in Seq(Nat) /\ Len(UpTo(n)) = n /\ \A i \in 1 .. n : UpTo(n)[i] = i
      /\ UpTo(n + m) \in Seq(Nat) /\ Len(UpTo(n + m)) = n + m
      /\ \A i \in 1 .. n + m : UpTo(n + m)[i] = i
      /\ From(n, m) \in Seq(Nat) /\ Len(From(n, m)) = m
      /\ \A i \in 1 .. m : From(n, m)[i] = n + i
  BY DEF UpTo, From
<1> DEFINE c == UpTo(n) \o From(n, m)
<1>2. /\ c \in Seq(Nat) /\ Len(c) = n + m
      /\ \A i \in 1 .. n + m : c[i] = IF i <= n THEN UpTo(n)[i] ELSE From(n, m)[i - n]
  <2> DEFINE a == UpTo(n)  b == From(n, m)
  <2>1. a \in Seq(Nat) /\ b \in Seq(Nat) /\ Len(a) = n /\ Len(b) = m
    BY <1>1
  <2> HIDE DEF a, b
  <2>2. /\ a \o b \in Seq(Nat) /\ Len(a \o b) = Len(a) + Len(b)
        /\ \A i \in 1 .. Len(a) + Len(b) : (a \o b)[i] = IF i <= Len(a) THEN a[i] ELSE b[i - Len(a)]
    BY <2>1, ConcatProperties
  <2> QED
    BY <2>1, <2>2 DEF a, b
<1> HIDE DEF c
<1>3. \A i \in 1 .. n + m : c[i] = UpTo(n + m)[i]
  BY <1>1, <1>2
<1>4. c = UpTo(n + m)
  BY <1>1, <1>2, <1>3, SeqEqual
<1> QED
  BY <1>1, <1>4 DEF c

LEMMA Assoc ==
  \A a, b, c \in Seq(Nat) : (a \o b) \o c = a \o (b \o c)
<1> TAKE a, b, c \in Seq(Nat)
<1> DEFINE S == Nat
<1>1. a \in Seq(S) /\ b \in Seq(S) /\ c \in Seq(S)
  OBVIOUS
<1> HIDE DEF S
<1> QED
  BY <1>1, ConcatAssociative

(* What a socket takes of bs and what it leaves.                           *)
LEMMA Split ==
  ASSUME NEW bs \in Seq(Nat), NEW k \in 0 .. Len(bs)
  PROVE  /\ SubSeq(bs, 1, k) \in Seq(Nat) /\ SubSeq(bs, k + 1, Len(bs)) \in Seq(Nat)
         /\ SubSeq(bs, 1, k) \o SubSeq(bs, k + 1, Len(bs)) = bs
         /\ SubSeq(bs, k + 1, Len(bs)) = <<>> <=> k = Len(bs)
<1>1. Len(bs) \in Nat /\ \A i \in 1 .. Len(bs) : bs[i] \in Nat
  BY LenProperties, ElementOfSeq
<1>2. SubSeq(bs, 1, k) \in Seq(Nat)
  <2>1. \A i \in 1 .. k : bs[i] \in Nat
    BY <1>1
  <2> QED
    BY <1>1, <2>1, SubSeqProperties
<1>3. /\ SubSeq(bs, k + 1, Len(bs)) \in Seq(Nat)
      /\ Len(SubSeq(bs, k + 1, Len(bs))) = IF k + 1 <= Len(bs) THEN Len(bs) - (k + 1) + 1 ELSE 0
  <2>1. \A i \in k + 1 .. Len(bs) : bs[i] \in Nat
    BY <1>1
  <2> QED
    BY <1>1, <2>1, SubSeqProperties
<1>4. SubSeq(bs, 1, k) \o SubSeq(bs, k + 1, Len(bs)) = bs
  <2>1. 1 \in 1 .. Len(bs) + 1 /\ k \in 1 - 1 .. Len(bs) /\ Len(bs) \in k .. Len(bs)
    BY <1>1
  <2>2. SubSeq(bs, 1, k) \o SubSeq(bs, k + 1, Len(bs)) = SubSeq(bs, 1, Len(bs))
    BY <2>1, ConcatAdjacentSubSeq
  <2> QED
    BY <2>2, SubSeqFull
<1>5. SubSeq(bs, k + 1, Len(bs)) = <<>> <=> k = Len(bs)
  <2>1. Len(SubSeq(bs, k + 1, Len(bs))) = 0 <=> k = Len(bs)
    BY <1>1, <1>3
  <2>2. SubSeq(bs, k + 1, Len(bs)) = <<>> <=> Len(SubSeq(bs, k + 1, Len(bs))) = 0
    BY <1>3, EmptySeq
  <2> QED
    BY <2>1, <2>2
<1> QED
  BY <1>2, <1>3, <1>4, <1>5

-----------------------------------------------------------------------------
(* Ids *)

(* A transport knows only ids of its own, it has numbered them in order,   *)
(* and the contexts that it has set up with the number of an id, or that   *)
(* hold the socket of one, are of the same socket and its own.  No two     *)
(* contexts are of one socket or have one number of one transport.         *)
NamedFor(t, id) ==
  /\ id.trans = t /\ id.seq \in 0 .. seq[t] - 1
  /\ id.fd \in DOMAIN ctx /\ id.fd \in Fds /\ id.sk \in 1 .. opened
  /\ \A fd \in DOMAIN ctx :
       /\ ctx[fd].seq = id.seq /\ ctx[fd].by = t => ctx[fd].sk = id.sk
       /\ ctx[fd].sk = id.sk => ctx[fd].by = t
Numbered(fd) ==
  /\ ctx[fd].sk <= opened
  /\ InUse(fd) => ctx[fd].by \in Trans /\ ctx[fd].seq \in 0 .. seq[ctx[fd].by] - 1
  /\ \A g \in DOMAIN ctx :
       /\ InUse(fd) /\ ctx[g].seq = ctx[fd].seq /\ ctx[g].by = ctx[fd].by => g = fd
       /\ ctx[fd].sk # 0 /\ ctx[g].sk = ctx[fd].sk => g = fd
KnownInv ==
  /\ \A t \in Trans : seq[t] <= opened
  /\ \A t \in Trans : \A id \in known[t] : NamedFor(t, id)
  /\ \A fd \in DOMAIN ctx : Numbered(fd)

Base == TypeOK /\ KnownInv

LEMMA TypeFacts ==
  ASSUME TypeOK
  PROVE  /\ DOMAIN ctx = 0 .. MaxFds - 1
         /\ \A fd \in DOMAIN ctx :
              /\ ctx[fd] \in Context
              /\ ctx[fd].type \in Types \cup {"none"} /\ ctx[fd].seq \in Int
              /\ ctx[fd].sk \in Nat /\ ctx[fd].said \in Nat
              /\ ctx[fd].write_buf \in Seq(Nat) /\ ctx[fd].took \in Seq(Nat)
              /\ ctx[fd].unread \in BOOLEAN /\ ctx[fd].ranout \in BOOLEAN
         /\ opened \in Nat
         /\ \A t \in Trans : seq[t] \in Nat /\ stack[t] \in Seq(Frame) /\ round[t] \in Seq(Event)
         /\ \A t \in Trans, fd \in Fds : interest[t][fd] \subseteq {"r", "w"}
BY DEF TypeOK, Context

(* An id the user has kept passes the check of close only if its context   *)
(* is still that of its socket, or has got another one's number and not    *)
(* its name yet.                                                           *)
LEMMA KnownIsOwn ==
  ASSUME Base, NEW t \in Trans, NEW id \in known[t], Same(Tid(id.fd), id)
  PROVE  /\ id.fd \in DOMAIN ctx /\ id.fd \in Fds /\ id.sk \in Nat
         /\ InUse(id.fd) /\ ctx[id.fd].trans = t
         /\ ctx[id.fd].by = t => ctx[id.fd].sk = id.sk
         /\ ctx[id.fd].sk = id.sk => ctx[id.fd].by = t
<1>1. NamedFor(t, id) /\ opened \in Nat
  BY TypeFacts DEF Base, KnownInv
<1>2. ctx[id.fd].seq = id.seq /\ ctx[id.fd].trans = id.trans
  BY DEF Same, Tid
<1>3. InUse(id.fd) /\ id.sk \in Nat
  BY <1>1, <1>2 DEF InUse, NamedFor
<1> QED
  BY <1>1, <1>2, <1>3 DEF NamedFor

-----------------------------------------------------------------------------
(* Types *)

Tables ==
  /\ sock \in [Fds -> Nat] /\ opened \in 0 .. MaxOpens
  /\ interest \in [Trans -> [Fds -> SUBSET {"r", "w"}]]
  /\ ctx \in [0 .. MaxFds - 1 -> Context]
  /\ seq \in [Trans -> 0 .. SeqLimit - 1]
  /\ known \in [Trans -> SUBSET Id]

Threads == /\ round \in [Trans -> Seq(Event)]
           /\ stack \in [Trans -> Seq(Frame)]
           /\ strayed \in BOOLEAN

LEMMA TypeSplit == TypeOK <=> Tables /\ Threads
BY DEF TypeOK, Tables, Threads

NewContext(t, fd, type) ==
  [NoContext EXCEPT !.type = type, !.seq = seq[t], !.trans = ctx[fd].trans,
                    !.write_buf = ctx[fd].write_buf, !.sk = opened + 1, !.by = t]
NameFrame(fd, how) == F("name", fd, opened + 1, how)

(* What add_fd does: it numbers sockets without a gap, and seq does not    *)
(* come round.                                                             *)
Added(t, fd, type) ==
  /\ opened' = opened + 1
  /\ sock' = [sock EXCEPT ![fd] = opened + 1]
  /\ ctx' = [ctx EXCEPT ![fd] = NewContext(t, fd, type)]
  /\ interest' = [interest EXCEPT ![t][fd] = {"r"}]
  /\ seq' = [seq EXCEPT ![t] = seq[t] + 1]
  /\ UNCHANGED <<known, round>>

LEMMA NewEffect ==
  ASSUME Base, NEW t \in Trans, NEW fd \in Fds, NEW type \in Types, NEW how, NEW s,
         NewSocket(t, fd, type, how, s)
  PROVE  /\ fd \in DOMAIN ctx /\ sock[fd] = 0
         /\ opened \in Nat /\ opened < MaxOpens /\ seq[t] \in Nat /\ seq[t] + 1 < SeqLimit
         /\ Added(t, fd, type)
<1>1. /\ opened < MaxOpens /\ sock[fd] = 0 /\ fd < MaxFds
      /\ seq' = [seq EXCEPT ![t] = (seq[t] + 1) % SeqLimit]
  BY DEF NewSocket
<1>2. /\ DOMAIN ctx = 0 .. MaxFds - 1 /\ fd \in Nat /\ MaxFds \in Nat
      /\ opened \in Nat /\ MaxOpens \in Nat /\ SeqLimit \in Nat /\ SeqLimit > MaxOpens
      /\ seq[t] \in Nat /\ seq[t] <= opened
  BY TransportAssumption, TypeFacts DEF Base, KnownInv
<1>3. (seq[t] + 1) % SeqLimit = seq[t] + 1 /\ seq[t] + 1 < SeqLimit
  <2>1. seq[t] + 1 \in Nat /\ seq[t] + 1 < SeqLimit
    BY <1>1, <1>2
  <2> QED
    BY <1>2, <2>1, SmallMod
<1>4. fd \in DOMAIN ctx
  BY <1>1, <1>2
<1>5. Added(t, fd, type)
  BY <1>1, <1>3 DEF NewSocket, Added, NewContext
<1> QED
  BY <1>1, <1>2, <1>3, <1>4, <1>5

IsNew(t, fd, type, c) ==
  /\ c \in Context
  /\ c.type = type /\ c.seq = seq[t] /\ c.by = t /\ c.sk = opened + 1
  /\ c.trans = ctx[fd].trans /\ c.write_buf = ctx[fd].write_buf
  /\ c.took = <<>> /\ c.said = 0 /\ c.unread = FALSE /\ c.ranout = FALSE

LEMMA NewContextFacts ==
  ASSUME TypeOK, NEW t \in Trans, NEW fd \in DOMAIN ctx, NEW type \in Types
  PROVE  IsNew(t, fd, type, NewContext(t, fd, type))
<1> DEFINE n == NoContext  c == NewContext(t, fd, type)
<1>1. n \in Context
  <2>1. <<>> \in Seq(Nat) /\ -1 \in -1 .. SeqLimit - 1
    BY TransportAssumption DEF TypeOK
  <2> QED
    BY <2>1 DEF NoContext, Context
<1>2. n.took = <<>> /\ n.said = 0 /\ n.unread = FALSE /\ n.ranout = FALSE
  BY DEF NoContext
<1> DEFINE b == ctx[fd]  u == b.trans  w == b.write_buf  k == opened + 1
<1>3. seq[t] \in -1 .. SeqLimit - 1
  BY TransportAssumption DEF TypeOK
<1>4. b \in Context /\ k \in Nat
  BY TypeFacts
<1>5. w \in Seq(Nat) /\ u \in Trans \cup {"none"}
  BY <1>4 DEF Context
<1>6. c = [n EXCEPT !.type = type, !.seq = seq[t], !.trans = u,
                    !.write_buf = w, !.sk = k, !.by = t]
  BY DEF NewContext
<1> DEFINE m == [n EXCEPT !.type = type, !.seq = seq[t], !.sk = k, !.by = t]
<1>7. c = [m EXCEPT !.trans = u, !.write_buf = w]
  BY <1>6
<1> HIDE DEF n, b, u, w, k, c
<1>8. /\ m \in Context
      /\ m.type = type /\ m.seq = seq[t] /\ m.by = t /\ m.sk = k
      /\ m.took = <<>> /\ m.said = 0 /\ m.unread = FALSE /\ m.ranout = FALSE
  BY <1>1, <1>2, <1>3, <1>4 DEF Context
<1> HIDE DEF m
<1>9. /\ c \in Context
      /\ c.type = type /\ c.seq = seq[t] /\ c.by = t /\ c.sk = k /\ c.trans = u
      /\ c.write_buf = w /\ c.took = <<>> /\ c.said = 0 /\ c.unread = FALSE /\ c.ranout = FALSE
  BY <1>5, <1>7, <1>8 DEF Context
<1> QED
  BY <1>9 DEF w, u, k, b, c, IsNew

LEMMA NewTypes ==
  ASSUME TypeOK, NEW t \in Trans, NEW fd \in Fds, NEW type \in Types, NEW how, NEW s,
         NewSocket(t, fd, type, how, s)
  PROVE  Tables'
<1>1. /\ Tables /\ MaxOpens \in Nat /\ SeqLimit \in Nat /\ SeqLimit > MaxOpens
      /\ MaxFds \in Nat /\ fd \in Nat
  BY TypeSplit, TransportAssumption
<1> DEFINE c == NewContext(t, fd, type)
<1>2. /\ opened < MaxOpens /\ fd < MaxFds /\ opened' = opened + 1
      /\ sock' = [sock EXCEPT ![fd] = opened + 1]
      /\ ctx' = [ctx EXCEPT ![fd] = c]
      /\ interest' = [interest EXCEPT ![t][fd] = {"r"}]
      /\ seq' = [seq EXCEPT ![t] = (seq[t] + 1) % SeqLimit]
      /\ UNCHANGED known
  BY DEF NewSocket, NewContext
<1>3. fd \in DOMAIN ctx /\ opened \in Nat /\ seq[t] \in Nat
  BY <1>1, <1>2 DEF Tables
<1>4. IsNew(t, fd, type, c)
  BY <1>3, NewContextFacts
<1> HIDE DEF c
<1>5. ctx' \in [0 .. MaxFds - 1 -> Context]
  BY <1>1, <1>2, <1>3, <1>4 DEF Tables, IsNew
<1>6. seq' \in [Trans -> 0 .. SeqLimit - 1]
  <2>1. (seq[t] + 1) % SeqLimit \in 0 .. SeqLimit - 1
    BY <1>1, <1>3
  <2> QED
    BY <1>1, <1>2, <2>1 DEF Tables
<1>7. /\ sock' \in [Fds -> Nat] /\ opened' \in 0 .. MaxOpens
      /\ known' \in [Trans -> SUBSET Id]
  BY <1>1, <1>2, <1>3 DEF Tables
<1>8. interest' \in [Trans -> [Fds -> SUBSET {"r", "w"}]]
  BY <1>1, <1>2 DEF Tables
<1> QED
  BY <1>5, <1>6, <1>7, <1>8 DEF Tables

(* transport::close up to g_close_socket.                                  *)
Cleared(fd) == [NoContext EXCEPT !.type = ctx[fd].type, !.trans = ctx[fd].trans,
                                 !.by = ctx[fd].by]
Closed(t, fd) == /\ interest' = [interest EXCEPT ![t][fd] = {}]
                 /\ ctx' = [ctx EXCEPT ![fd] = Cleared(fd)]

LEMMA ClearedFacts ==
  ASSUME TypeOK, NEW fd \in DOMAIN ctx
  PROVE  LET c == Cleared(fd)
         IN /\ c \in Context
            /\ c.type = ctx[fd].type /\ c.trans = ctx[fd].trans /\ c.by = ctx[fd].by
            /\ c.seq = -1 /\ c.sk = 0 /\ c.write_buf = <<>>
<1> DEFINE n == NoContext
<1>1. n \in Context
  <2>1. <<>> \in Seq(Nat) /\ -1 \in -1 .. SeqLimit - 1
    BY TransportAssumption DEF TypeOK
  <2> QED
    BY <2>1 DEF NoContext, Context
<1>2. n.write_buf = <<>> /\ n.seq = -1 /\ n.sk = 0
  BY DEF NoContext
<1>3. Cleared(fd) = [n EXCEPT !.type = ctx[fd].type, !.trans = ctx[fd].trans, !.by = ctx[fd].by]
  BY DEF Cleared
<1>4. ctx[fd] \in Context
  BY TypeFacts
<1> HIDE DEF n
<1>5. /\ ctx[fd].type \in Types \cup {"none"} /\ ctx[fd].trans \in Trans \cup {"none"}
      /\ ctx[fd].by \in Trans \cup {"none"}
  BY <1>4 DEF Context
<1> QED
  BY <1>1, <1>2, <1>3, <1>5 DEF Context

LEMMA CloseTables ==
  ASSUME TypeOK, NEW t \in Trans, NEW fd, Closed(t, fd),
         UNCHANGED <<sock, opened, seq, known>>
  PROVE  Tables'
<1>1. Tables
  BY TypeSplit
<1> DEFINE c == Cleared(fd)
<1>2. fd \in DOMAIN ctx => c \in Context
  BY ClearedFacts
<1>3. ctx' = [ctx EXCEPT ![fd] = c]
  BY DEF Closed
<1> HIDE DEF c
<1>4. ctx' \in [0 .. MaxFds - 1 -> Context]
  BY <1>1, <1>2, <1>3 DEF Tables
<1>5. interest' \in [Trans -> [Fds -> SUBSET {"r", "w"}]]
  BY <1>1 DEF Tables, Closed
<1> QED
  BY <1>1, <1>4, <1>5 DEF Tables

(* Bytes and data move in a connection, which stays the one it is.         *)
StreamOK(c) == c.seq # -1 /\ ~c.ranout => c.took \o c.write_buf = UpTo(c.said)
StreamInv == \A fd \in DOMAIN ctx : StreamOK(ctx[fd])

Moved(b, c) ==
  /\ c \in Context
  /\ c.type = b.type /\ c.seq = b.seq /\ c.trans = b.trans /\ c.by = b.by /\ c.sk = b.sk
  /\ StreamOK(b) => StreamOK(c)
Data(fd) == /\ ctx' = [g \in DOMAIN ctx |-> ctx'[g]]
            /\ \A g \in DOMAIN ctx : g # fd => ctx'[g] = ctx[g]
            /\ fd \in DOMAIN ctx => Moved(ctx[fd], ctx'[fd])

LEMMA StreamIs == (~strayed => StreamInv) => StreamIntact
BY DEF StreamInv, StreamIntact, StreamOK, UpTo, InUse

LEMMA DataTables ==
  ASSUME TypeOK, NEW fd, Data(fd),
         interest' \in [Trans -> [Fds -> SUBSET {"r", "w"}]],
         UNCHANGED <<sock, opened, seq, known>>
  PROVE  Tables'
<1>1. Tables /\ DOMAIN ctx = 0 .. MaxFds - 1
  BY TypeSplit, TypeFacts
<1>2. \A g \in DOMAIN ctx : ctx'[g] \in Context
  BY <1>1 DEF Data, Moved, Tables
<1>3. ctx' \in [0 .. MaxFds - 1 -> Context]
  BY <1>1, <1>2 DEF Data
<1> QED
  BY <1>1, <1>3 DEF Tables

LEMMA TakesMoves ==
  ASSUME TypeOK, NEW fd \in DOMAIN ctx, NEW k \in 0 .. Len(ctx[fd].write_buf)
  PROVE  Moved(ctx[fd], Takes(fd, ctx[fd].write_buf, k)[fd])
<1> DEFINE b == ctx[fd]  bs == b.write_buf
           x == SubSeq(bs, 1, k)  y == SubSeq(bs, k + 1, Len(bs))
           c == [b EXCEPT !.took = b.took \o x, !.write_buf = y]
<1>1. Takes(fd, bs, k)[fd] = c
  BY DEF Takes
<1>2. b \in Context /\ bs \in Seq(Nat) /\ b.took \in Seq(Nat)
  BY TypeFacts
<1>3. k \in 0 .. Len(bs)
  OBVIOUS
<1> HIDE DEF b, bs
<1>4. x \in Seq(Nat) /\ y \in Seq(Nat) /\ x \o y = bs /\ (y = <<>> <=> k = Len(bs))
  BY <1>2, <1>3, Split
<1> HIDE DEF x, y, c
<1>6. b.took \o x \in Seq(Nat) /\ (b.took \o x) \o y = b.took \o bs
  <2> DEFINE a == b.took
  <2>1. a \in Seq(Nat)
    BY <1>2
  <2> HIDE DEF a
  <2>2. a \o x \in Seq(Nat)
    BY <1>4, <2>1, ConcatProperties
  <2>3. (a \o x) \o y = a \o (x \o y)
    BY <1>4, <2>1, Assoc
  <2> QED
    BY <1>4, <2>2, <2>3 DEF a
<1>7. /\ c \in Context
      /\ c.type = b.type /\ c.seq = b.seq /\ c.trans = b.trans /\ c.by = b.by /\ c.sk = b.sk
      /\ c.took = b.took \o x /\ c.write_buf = y /\ c.said = b.said /\ c.ranout = b.ranout
      /\ c.unread = b.unread
  BY <1>2, <1>4, <1>6 DEF c, Context
<1>8. StreamOK(b) => StreamOK(c)
  BY <1>6, <1>7 DEF StreamOK, bs
<1> QED
  BY <1>1, <1>7, <1>8 DEF Moved, b, bs

LEMMA UnreadMoves ==
  ASSUME TypeOK, NEW fd \in DOMAIN ctx, NEW u \in BOOLEAN
  PROVE  Moved(ctx[fd], [ctx EXCEPT ![fd].unread = u][fd])
<1> DEFINE b == ctx[fd]  c == [b EXCEPT !.unread = u]
<1>1. [ctx EXCEPT ![fd].unread = u][fd] = c
  OBVIOUS
<1>2. b \in Context
  BY TypeFacts
<1> HIDE DEF b
<1>3. /\ c \in Context
      /\ c.type = b.type /\ c.seq = b.seq /\ c.trans = b.trans /\ c.by = b.by /\ c.sk = b.sk
      /\ c.took = b.took /\ c.write_buf = b.write_buf /\ c.said = b.said
      /\ c.ranout = b.ranout /\ c.unread = u
  BY <1>2 DEF Context
<1> HIDE DEF c
<1> QED
  BY <1>1, <1>2, <1>3 DEF Moved, StreamOK, b

(* What send adds to a stream: said grows by n, the socket takes x and y   *)
(* is left.                                                                *)
LEMMA SentMoves ==
  ASSUME NEW b \in Context, NEW n \in Nat,
         NEW x \in Seq(Nat), NEW y \in Seq(Nat)
  PROVE  x \o y = b.write_buf \o From(b.said, n)
         => Moved(b, [b EXCEPT !.took = b.took \o x, !.write_buf = y, !.said = b.said + n])
<1> DEFINE c == [b EXCEPT !.took = b.took \o x, !.write_buf = y, !.said = b.said + n]
           a == b.took  w == b.write_buf  z == From(b.said, n)  p == UpTo(b.said)
<1>1. a \in Seq(Nat) /\ w \in Seq(Nat) /\ b.said \in Nat /\ b.said + n \in Nat
  BY DEF Context
<1>2. z \in Seq(Nat) /\ p \in Seq(Nat) /\ p \o z = UpTo(b.said + n)
  BY <1>1, Bytes
<1>3. x \o y = b.write_buf \o From(b.said, n) <=> x \o y = w \o z
  OBVIOUS
<1> HIDE DEF c, a, w, z, p
<1>4. a \o x \in Seq(Nat)
  BY <1>1, ConcatProperties
<1>5. x \o y = w \o z => (a \o x) \o y = (a \o w) \o z
  <2>1. (a \o x) \o y = a \o (x \o y)
    BY <1>1, Assoc
  <2>2. (a \o w) \o z = a \o (w \o z)
    BY <1>1, <1>2, Assoc
  <2> QED
    BY <2>1, <2>2
<1>6. /\ c \in Context
      /\ c.type = b.type /\ c.seq = b.seq /\ c.trans = b.trans /\ c.by = b.by /\ c.sk = b.sk
      /\ c.took = a \o x /\ c.write_buf = y /\ c.said = b.said + n /\ c.ranout = b.ranout
  BY <1>1, <1>4 DEF Context, c, a
<1>7. x \o y = w \o z /\ StreamOK(b) => StreamOK(c)
  <2>1. x \o y = w \o z /\ a \o w = p => (a \o x) \o y = UpTo(b.said + n)
    BY <1>2, <1>5
  <2> QED
    BY <1>6, <2>1 DEF StreamOK, a, w, p
<1> QED
  BY <1>3, <1>6, <1>7 DEF Moved, c

(* A put that fails ends what is said about the stream.                    *)
LEMMA RanOutMoves ==
  ASSUME NEW b \in Context, NEW x \in Seq(Nat), NEW y \in Seq(Nat), NEW m \in Nat
  PROVE  Moved(b, [b EXCEPT !.took = x, !.write_buf = y, !.said = m, !.ranout = TRUE])
BY DEF Moved, StreamOK, Context

-----------------------------------------------------------------------------
(* What an action does to the tables                                       *)

(* A context keeps its connection or is cleared.                           *)
Kept ==
  /\ DOMAIN ctx' = DOMAIN ctx
  /\ \A g \in DOMAIN ctx :
       Moved(ctx[g], ctx'[g]) \/ (ctx'[g].seq = -1 /\ ctx'[g].sk = 0)

LEMMA NothingKeeps ==
  ASSUME TypeOK, UNCHANGED ctx
  PROVE  Kept
BY TypeFacts DEF Kept, Moved, TypeOK

LEMMA DataKeeps ==
  ASSUME TypeOK, NEW fd, Data(fd)
  PROVE  Kept
<1>1. \A g \in DOMAIN ctx : Moved(ctx[g], ctx[g])
  BY TypeFacts DEF Moved, TypeOK
<1> QED
  BY <1>1 DEF Data, Kept

LEMMA CloseKeeps ==
  ASSUME TypeOK, NEW t, NEW fd, Closed(t, fd)
  PROVE  Kept
<1> DEFINE c == Cleared(fd)
<1>1. fd \in DOMAIN ctx => c.seq = -1 /\ c.sk = 0
  BY ClearedFacts
<1>2. ctx' = [ctx EXCEPT ![fd] = c]
  BY DEF Closed
<1>3. \A g \in DOMAIN ctx : Moved(ctx[g], ctx[g])
  BY TypeFacts DEF Moved, TypeOK
<1> HIDE DEF c
<1> QED
  BY <1>1, <1>2, <1>3 DEF Kept

LEMMA KnownKept ==
  ASSUME Base, Kept, UNCHANGED <<opened, seq, known>>
  PROVE  KnownInv'
<1>1. KnownInv /\ TypeOK
  BY DEF Base
<1>2. \A g \in DOMAIN ctx :
        \/ ctx'[g].seq = ctx[g].seq /\ ctx'[g].by = ctx[g].by /\ ctx'[g].sk = ctx[g].sk
        \/ ctx'[g].seq = -1 /\ ctx'[g].sk = 0
  BY DEF Kept, Moved
<1>3. DOMAIN ctx' = DOMAIN ctx
  BY DEF Kept
<1>4. opened \in Nat /\ \A t \in Trans : seq[t] \in Nat
  BY <1>1, TypeFacts
<1>5. ASSUME NEW t \in Trans, NEW id \in known[t]
      PROVE  NamedFor(t, id)'
  <2>1. NamedFor(t, id)
    BY <1>1 DEF KnownInv
  <2>2. id.seq # -1 /\ id.sk # 0
    BY <1>4, <2>1 DEF NamedFor
  <2>3. ASSUME NEW g \in DOMAIN ctx
        PROVE  /\ ctx'[g].seq = id.seq /\ ctx'[g].by = t => ctx'[g].sk = id.sk
               /\ ctx'[g].sk = id.sk => ctx'[g].by = t
    BY <1>2, <2>1, <2>2 DEF NamedFor
  <2> QED
    BY <1>3, <2>1, <2>3 DEF NamedFor
<1>6. ASSUME NEW fd \in DOMAIN ctx
      PROVE  Numbered(fd)'
  <2>1. Numbered(fd)
    BY <1>1 DEF KnownInv
  <2>2. CASE ctx'[fd].seq = -1 /\ ctx'[fd].sk = 0
    BY <1>4, <2>2 DEF Numbered, InUse
  <2>3. CASE ctx'[fd].seq = ctx[fd].seq /\ ctx'[fd].by = ctx[fd].by /\ ctx'[fd].sk = ctx[fd].sk
    <3>1. ASSUME NEW g \in DOMAIN ctx
          PROVE  /\ InUse(fd)' /\ ctx'[g].seq = ctx'[fd].seq /\ ctx'[g].by = ctx'[fd].by => g = fd
                 /\ ctx'[fd].sk # 0 /\ ctx'[g].sk = ctx'[fd].sk => g = fd
      BY <1>2, <2>1, <2>3 DEF Numbered, InUse
    <3> QED
      BY <1>3, <2>1, <2>3, <3>1 DEF Numbered, InUse
  <2> QED
    BY <1>2, <2>2, <2>3
<1> QED
  BY <1>1, <1>3, <1>5, <1>6 DEF KnownInv

LEMMA StreamKept ==
  ASSUME StreamInv, Kept
  PROVE  StreamInv'
BY DEF StreamInv, Kept, Moved, StreamOK

LEMMA KnownNew ==
  ASSUME Base, NEW t \in Trans, NEW fd \in Fds, NEW type \in Types, NEW how, NEW s,
         NewSocket(t, fd, type, how, s)
  PROVE  KnownInv'
<1>1. KnownInv /\ TypeOK
  BY DEF Base
<1>2. fd \in DOMAIN ctx /\ opened \in Nat /\ seq[t] \in Nat /\ Added(t, fd, type)
  BY NewEffect
<1> DEFINE c == NewContext(t, fd, type)
<1>0. IsNew(t, fd, type, c)
  BY <1>1, <1>2, NewContextFacts
<1>3. c.seq = seq[t] /\ c.by = t /\ c.sk = opened + 1
  BY <1>0 DEF IsNew
<1>4. /\ ctx' = [ctx EXCEPT ![fd] = c] /\ seq' = [seq EXCEPT ![t] = seq[t] + 1]
      /\ known' = known /\ opened' = opened + 1
  BY <1>2 DEF Added
<1> HIDE DEF c
<1>5. \A u \in Trans : seq[u] \in Nat /\ seq[u] <= opened
  BY <1>1, TypeFacts DEF KnownInv
<1>6. DOMAIN seq = Trans /\ DOMAIN known = Trans
  BY <1>1 DEF TypeOK
<1>7. \A u \in Trans : seq'[u] = IF u = t THEN seq[u] + 1 ELSE seq[u]
  BY <1>4, <1>6
<1>8. DOMAIN ctx' = DOMAIN ctx /\ \A g \in DOMAIN ctx : ctx'[g] = IF g = fd THEN c ELSE ctx[g]
  BY <1>4
<1>9. \A u \in Trans : seq'[u] <= opened'
  BY <1>2, <1>4, <1>5, <1>7
<1>10. \A g \in DOMAIN ctx : ctx[g].sk \in Nat
  BY <1>1, TypeFacts
<1>11. ASSUME NEW u \in Trans, NEW id \in known'[u]
       PROVE  NamedFor(u, id)'
  <2>1. NamedFor(u, id)
    BY <1>1, <1>4 DEF KnownInv
  <2>2. id.seq \in 0 .. seq'[u] - 1 /\ id.sk \in 1 .. opened' /\ id.sk # c.sk
    BY <1>2, <1>3, <1>4, <1>5, <1>7, <2>1 DEF NamedFor
  <2>3. u = t => c.seq # id.seq
    BY <1>3, <1>5, <2>1 DEF NamedFor
  <2>4. ASSUME NEW g \in DOMAIN ctx
        PROVE  /\ ctx'[g].seq = id.seq /\ ctx'[g].by = u => ctx'[g].sk = id.sk
               /\ ctx'[g].sk = id.sk => ctx'[g].by = u
    BY <1>3, <1>8, <2>1, <2>2, <2>3 DEF NamedFor
  <2> QED
    BY <1>8, <2>1, <2>2, <2>4 DEF NamedFor
<1>12. ASSUME NEW g \in DOMAIN ctx, g # fd
       PROVE  /\ Numbered(g) /\ ctx'[g] = ctx[g] /\ (InUse(g)' <=> InUse(g))
              /\ ctx[g].sk # c.sk
              /\ InUse(g) => ~(ctx[g].seq = c.seq /\ ctx[g].by = t)
  <2>1. Numbered(g) /\ ctx'[g] = ctx[g]
    BY <1>1, <1>8, <1>12 DEF KnownInv
  <2>2. ctx[g].sk # c.sk
    BY <1>2, <1>3, <1>10, <2>1 DEF Numbered
  <2>3. InUse(g) => ~(ctx[g].seq = c.seq /\ ctx[g].by = t)
    BY <1>2, <1>3, <2>1 DEF Numbered
  <2> QED
    BY <2>1, <2>2, <2>3 DEF InUse
<1>13. ASSUME NEW g \in DOMAIN ctx
       PROVE  Numbered(g)'
  <2>1. CASE g = fd
    <3>1. /\ ctx'[g] = c /\ ctx'[g].sk <= opened'
          /\ ctx'[g].by \in Trans /\ ctx'[g].seq \in 0 .. seq'[ctx'[g].by] - 1
      BY <1>2, <1>3, <1>4, <1>7, <1>8, <2>1
    <3>2. ASSUME NEW h \in DOMAIN ctx, h # g
          PROVE  /\ ~(ctx'[h].seq = ctx'[g].seq /\ ctx'[h].by = ctx'[g].by)
                 /\ ctx'[h].sk # ctx'[g].sk
      <4>1. ctx'[h] = ctx[h] /\ ctx[h].sk # c.sk
            /\ (InUse(h) => ~(ctx[h].seq = c.seq /\ ctx[h].by = t))
        BY <1>12, <2>1, <3>2
      <4>2. ctx[h].seq = c.seq => InUse(h)
        BY <1>2, <1>3 DEF InUse
      <4> QED
        BY <1>3, <3>1, <4>1, <4>2
    <3> QED
      BY <1>8, <3>1, <3>2 DEF Numbered
  <2>2. CASE g # fd
    <3>1. /\ Numbered(g) /\ ctx'[g] = ctx[g] /\ (InUse(g)' <=> InUse(g)) /\ ctx[g].sk # c.sk
          /\ InUse(g) => ~(ctx[g].seq = c.seq /\ ctx[g].by = t)
      BY <1>12, <2>2
    <3>2. ctx'[g].sk <= opened'
      BY <1>2, <1>4, <1>10, <3>1 DEF Numbered
    <3>3. InUse(g) => ctx[g].by \in Trans /\ ctx[g].seq \in 0 .. seq'[ctx[g].by] - 1
      BY <1>5, <1>7, <3>1 DEF Numbered
    <3>4. ASSUME NEW h \in DOMAIN ctx
          PROVE  /\ InUse(g) /\ ctx'[h].seq = ctx[g].seq /\ ctx'[h].by = ctx[g].by => h = g
                 /\ ctx[g].sk # 0 /\ ctx'[h].sk = ctx[g].sk => h = g
      <4>1. CASE h = fd
        BY <1>3, <1>8, <3>1, <4>1
      <4>2. CASE h # fd
        BY <1>8, <3>1, <4>2 DEF Numbered
      <4> QED
        BY <4>1, <4>2
    <3> QED
      BY <1>8, <3>1, <3>2, <3>3, <3>4 DEF Numbered
  <2> QED
    BY <2>1, <2>2
<1> QED
  BY <1>8, <1>9, <1>11, <1>13 DEF KnownInv

LEMMA StreamNew ==
  ASSUME Base, StreamInv,
         NEW t \in Trans, NEW fd \in Fds, NEW type \in Types, NEW how, NEW s,
         NewSocket(t, fd, type, how, s), ctx[fd].write_buf = <<>>
  PROVE  StreamInv'
<1> DEFINE c == NewContext(t, fd, type)
<1>1. fd \in DOMAIN ctx /\ Added(t, fd, type) /\ TypeOK
  BY NewEffect DEF Base
<1>0. IsNew(t, fd, type, c)
  BY <1>1, NewContextFacts
<1>2. c.took = <<>> /\ c.write_buf = ctx[fd].write_buf /\ c.said = 0
  BY <1>0 DEF IsNew
<1>3. ctx' = [ctx EXCEPT ![fd] = c]
  BY <1>1 DEF Added
<1> HIDE DEF c
<1>4. <<>> \o <<>> = UpTo(0)
  BY DEF UpTo
<1>5. StreamOK(c)
  BY <1>2, <1>4 DEF StreamOK
<1> QED
  BY <1>3, <1>5 DEF StreamInv

(* The last store of add_fd, which changes the name of a context and       *)
(* nothing else of it, and gives out the id.                               *)
Named(t, fd, sk) ==
  /\ ctx' = [ctx EXCEPT ![fd].trans = t]
  /\ known' = [known EXCEPT ![t] = known[t] \cup
       {[fd |-> fd, seq |-> ctx[fd].seq, trans |-> t, sk |-> sk, type |-> ctx[fd].type]}]
  /\ UNCHANGED <<sock, opened, interest, seq>>

-----------------------------------------------------------------------------
(* How bytes and data move                                                 *)

LEMMA OneContext ==
  ASSUME TypeOK, NEW fd \in DOMAIN ctx, NEW c, Moved(ctx[fd], c), ctx' = [ctx EXCEPT ![fd] = c]
  PROVE  Data(fd) /\ ctx'[fd] = c
BY TypeFacts DEF Data

(* The poller is told exactly when bytes start or cease to wait.           *)
Still(fd) ==
  /\ UNCHANGED interest
  /\ fd \in DOMAIN ctx => (ctx'[fd].write_buf = <<>> <=> ctx[fd].write_buf = <<>>)
Toggled(t, fd) ==
  \E m \in {{}, {"r"}, {"r", "w"}} :
    /\ interest' = [interest EXCEPT ![t][fd] = m]
    /\ m = {} => interest[t][fd] = {}
    /\ m # {} /\ fd \in DOMAIN ctx => (ctx'[fd].write_buf = <<>> <=> "w" \notin m)
DataStep(t, fd) ==
  /\ Data(fd) /\ (Still(fd) \/ Toggled(t, fd))
  /\ UNCHANGED <<sock, opened, seq, known>>

LEMMA DataStepTables ==
  ASSUME TypeOK, NEW t \in Trans, NEW fd, DataStep(t, fd)
  PROVE  Tables'
<1>1. interest \in [Trans -> [Fds -> SUBSET {"r", "w"}]]
  BY DEF TypeOK
<1>2. CASE UNCHANGED interest
  BY <1>1, <1>2, DataTables DEF DataStep, Still, Toggled
<1>3. ASSUME NEW m \in {{}, {"r"}, {"r", "w"}}, interest' = [interest EXCEPT ![t][fd] = m]
      PROVE  Tables'
  <2>1. [interest[t] EXCEPT ![fd] = m] \in [Fds -> SUBSET {"r", "w"}]
    BY <1>1
  <2>2. interest' \in [Trans -> [Fds -> SUBSET {"r", "w"}]]
    BY <1>1, <1>3, <2>1
  <2> QED
    BY <2>2, DataTables DEF DataStep, Still, Toggled
<1> QED
  BY <1>2, <1>3 DEF DataStep, Still, Toggled

LEMMA StaysWaiting ==
  ASSUME NEW w \in Seq(Nat), NEW z \in Seq(Nat), w # <<>>
  PROVE  w \o z \in Seq(Nat) /\ w \o z # <<>>
<1>1. w \o z \in Seq(Nat) /\ Len(w \o z) = Len(w) + Len(z) /\ Len(w) \in Nat /\ Len(z) \in Nat
  BY ConcatProperties, LenProperties
<1>2. Len(w) # 0
  BY EmptySeq
<1> QED
  BY <1>1, <1>2, EmptySeq

(* send, with the three ways it takes bytes.                               *)
LEMMA DirectStep ==
  ASSUME TypeOK, NEW t \in Trans, NEW fd \in DOMAIN ctx, NEW n \in Nat,
         NEW k \in 0 .. n, SendDirect(t, fd, n, k), UNCHANGED <<sock, opened, seq, known>>
  PROVE  DataStep(t, fd)
<1> DEFINE b == ctx[fd]  z == From(b.said, n)
           x == SubSeq(z, 1, k)  y == SubSeq(z, k + 1, Len(z))
           c == [b EXCEPT !.took = b.took \o x, !.write_buf = y, !.said = b.said + n]
<1>1. b \in Context /\ b.said \in Nat /\ b.write_buf = <<>>
  BY TypeFacts DEF SendDirect
<1>2. z \in Seq(Nat) /\ Len(z) = n
  BY <1>1, Bytes
<1>3. x \in Seq(Nat) /\ y \in Seq(Nat) /\ x \o y = z /\ (y = <<>> <=> k = n)
  <2> HIDE DEF b, z
  <2> QED
    BY <1>2, Split
<1>4. New(fd, n) = z
  BY DEF New, From
<1>5. Takes(fd, z, k) = [ctx EXCEPT ![fd] = [b EXCEPT !.took = b.took \o x, !.write_buf = y]]
  BY DEF Takes
<1>6. ctx' = [ctx EXCEPT ![fd] = c]
  <2> HIDE DEF x, y, z
  <2>1. ctx' = [Takes(fd, z, k) EXCEPT ![fd].said = @ + n]
    BY <1>4 DEF SendDirect
  <2> DEFINE d == [b EXCEPT !.took = b.took \o x, !.write_buf = y]
  <2>2. d.said = b.said /\ [d EXCEPT !.said = d.said + n] = c
    <3> HIDE DEF b
    <3> DEFINE v == b.took \o x
    <3> HIDE DEF v
    <3>1. d = [b EXCEPT !.took = v, !.write_buf = y]
      BY DEF v
    <3>2. c = [b EXCEPT !.took = v, !.write_buf = y, !.said = b.said + n]
      BY DEF v
    <3> HIDE DEF d, c
    <3> QED
      BY <1>1, <3>1, <3>2 DEF Context
  <2> HIDE DEF d
  <2>3. Takes(fd, z, k) = [ctx EXCEPT ![fd] = d]
    BY <1>5 DEF d
  <2> HIDE DEF c
  <2> QED
    BY <2>1, <2>2, <2>3
<1>7. b.write_buf \o z = z
  <2> HIDE DEF z
  <2> QED
    BY <1>1, <1>2
<1>8. Moved(b, c)
  <2> HIDE DEF b, x, y, z
  <2>1. x \o y = b.write_buf \o From(b.said, n)
    BY <1>3, <1>7 DEF z
  <2> QED
    BY <1>1, <1>3, <2>1, SentMoves
<1>9. c.write_buf = y
  BY <1>1 DEF Context
<1> HIDE DEF c, x, y, z
<1>10. Data(fd) /\ ctx'[fd] = c
  BY <1>6, <1>8, OneContext
<1>11. k < n => interest' = [interest EXCEPT ![t][fd] =
                               IF interest[t][fd] = {} THEN {} ELSE {"r", "w"}]
  BY DEF SendDirect, toggle_write, TypeOK
<1>12. ~(k < n) => UNCHANGED interest
  BY DEF SendDirect
<1>13. ctx'[fd].write_buf = <<>> <=> ~(k < n)
  BY <1>3, <1>9, <1>10
<1>14. b.write_buf = <<>>
  BY <1>1
<1> QED
  BY <1>10, <1>11, <1>12, <1>13, <1>14 DEF DataStep, Still, Toggled

LEMMA BlockingStep ==
  ASSUME TypeOK, NEW t \in Trans, NEW fd \in DOMAIN ctx, NEW n \in Nat,
         NEW k, SendBlocking(t, fd, n, k), UNCHANGED <<sock, opened, seq, known>>
  PROVE  DataStep(t, fd)
<1> DEFINE b == ctx[fd]  e == IF k = 0 THEN <<0>> ELSE <<>>  a == b.took
           z == From(b.said, n)  x == a \o e \o z
           c == [b EXCEPT !.took = x, !.ranout = TRUE]
<1>1. b \in Context /\ b.said \in Nat /\ a \in Seq(Nat)
  BY TypeFacts
<1>2. e \in Seq(Nat)
  OBVIOUS
<1>3. z \in Seq(Nat)
  BY <1>1, Bytes
<1>4. ctx' = [ctx EXCEPT ![fd] = c] /\ UNCHANGED interest
  BY DEF SendBlocking, New, From
<1> HIDE DEF a, e, z
<1>5. x \in Seq(Nat)
  BY <1>1, <1>2, <1>3, ConcatProperties
<1> HIDE DEF x, b
<1>6. c = [b EXCEPT !.took = x, !.write_buf = b.write_buf, !.said = b.said, !.ranout = TRUE]
  BY <1>1 DEF Context
<1>7. b.write_buf \in Seq(Nat)
  BY <1>1 DEF Context
<1>8. c.write_buf = b.write_buf
  BY <1>1 DEF Context
<1> HIDE DEF c
<1>9. Moved(b, c)
  BY <1>1, <1>5, <1>6, <1>7, RanOutMoves
<1>10. Data(fd) /\ ctx'[fd] = c
  BY <1>4, <1>9, OneContext DEF b
<1> QED
  BY <1>4, <1>8, <1>10 DEF DataStep, Still, Toggled, b

LEMMA BehindStep ==
  ASSUME TypeOK, NEW t \in Trans, NEW fd \in DOMAIN ctx, NEW n \in Nat,
         SendBehind(t, fd, n), UNCHANGED <<sock, opened, seq, known>>
  PROVE  DataStep(t, fd)
<1> DEFINE b == ctx[fd]  w == b.write_buf  z == From(b.said, n)
<1>1. b \in Context /\ b.said \in Nat /\ b.said + n \in Nat
      /\ w \in Seq(Nat) /\ w # <<>> /\ b.took \in Seq(Nat) /\ b.ranout \in BOOLEAN
  BY TypeFacts DEF SendBehind
<1>2. z \in Seq(Nat) /\ New(fd, n) = z
  BY <1>1, Bytes DEF New, From
<1>3. UNCHANGED interest
  BY DEF SendBehind
<1>4. PICK fits \in BOOLEAN :
        ctx' = [ctx EXCEPT ![fd].write_buf = @ \o (IF fits THEN New(fd, n) ELSE <<>>),
                           ![fd].said = @ + n, ![fd].ranout = @ \/ ~fits]
  BY DEF SendBehind
<1> DEFINE y == w \o (IF fits THEN z ELSE <<>>)
           c == [b EXCEPT !.write_buf = y, !.said = b.said + n, !.ranout = b.ranout \/ ~fits]
<1>5. ctx' = [ctx EXCEPT ![fd] = c]
  <2> HIDE DEF z
  <2> QED
    BY <1>1, <1>2, <1>4 DEF Context
<1>6. y \in Seq(Nat) /\ y # <<>>
  <2> HIDE DEF w, z
  <2>1. CASE fits
    BY <1>1, <1>2, <2>1, StaysWaiting
  <2>2. CASE ~fits
    <3>1. <<>> \in Seq(Nat)
      OBVIOUS
    <3> QED
      BY <1>1, <2>2, <3>1, StaysWaiting
  <2> QED
    BY <2>1, <2>2
<1>7. Moved(b, c) /\ c.write_buf = y
  <2>1. CASE fits
    <3> HIDE DEF b
    <3>1. c = [b EXCEPT !.took = b.took \o <<>>, !.write_buf = y, !.said = b.said + n]
      <4>1. b.took \o <<>> = b.took
        <5> DEFINE a == b.took
        <5>1. a \in Seq(Nat)
          BY <1>1
        <5> HIDE DEF a
        <5>2. a \o <<>> = a
          BY <5>1
        <5> QED
          BY <5>2 DEF a
      <4>2. (b.ranout \/ ~fits) = b.ranout
        BY <1>1, <2>1
      <4> HIDE DEF y
      <4> QED
        BY <1>1, <4>1, <4>2 DEF Context
    <3>2. <<>> \in Seq(Nat) /\ <<>> \o y = b.write_buf \o From(b.said, n)
      <4>1. y = b.write_buf \o From(b.said, n)
        BY <2>1
      <4> HIDE DEF y
      <4>2. <<>> \o y = y /\ <<>> \in Seq(Nat)
        BY <1>6
      <4> QED
        BY <4>1, <4>2
    <3> HIDE DEF y
    <3>3. c.write_buf = y
      BY <1>1 DEF Context
    <3> HIDE DEF c
    <3> QED
      BY <1>1, <1>6, <3>1, <3>2, <3>3, SentMoves
  <2>2. CASE ~fits
    <3> HIDE DEF b, y
    <3>1. c = [b EXCEPT !.took = b.took, !.write_buf = y, !.said = b.said + n, !.ranout = TRUE]
      BY <1>1, <2>2 DEF Context
    <3>2. c.write_buf = y
      BY <1>1 DEF Context
    <3> HIDE DEF c
    <3> QED
      BY <1>1, <1>6, <3>1, <3>2, RanOutMoves
  <2> QED
    BY <2>1, <2>2
<1> HIDE DEF c, y
<1>8. Data(fd) /\ ctx'[fd] = c
  BY <1>5, <1>7, OneContext
<1> QED
  BY <1>1, <1>3, <1>6, <1>7, <1>8 DEF DataStep, Still, Toggled

(* The id of a stray send may be of a descriptor beyond the table.         *)
LEMMA OutsideStep ==
  ASSUME TypeOK, NEW t \in Trans, NEW fd, fd \notin DOMAIN ctx, NEW n, NEW k,
         SendDirect(t, fd, n, k) \/ SendBlocking(t, fd, n, k) \/ SendBehind(t, fd, n),
         UNCHANGED <<sock, opened, seq, known>>
  PROVE  DataStep(t, fd)
<1>1. UNCHANGED ctx
  <2>1. ctx = [g \in DOMAIN ctx |-> ctx[g]] /\ fd \notin DOMAIN ctx
    BY DEF TypeOK
  <2>2. CASE SendDirect(t, fd, n, k)
    BY <2>1, <2>2 DEF SendDirect, Takes
  <2>3. CASE SendBlocking(t, fd, n, k)
    BY <2>1, <2>3 DEF SendBlocking
  <2>4. CASE SendBehind(t, fd, n)
    <3>1. PICK fits \in BOOLEAN :
            ctx' = [ctx EXCEPT ![fd].write_buf = @ \o (IF fits THEN New(fd, n) ELSE <<>>),
                               ![fd].said = @ + n, ![fd].ranout = @ \/ ~fits]
      BY <2>4 DEF SendBehind
    <3> DEFINE a == [ctx EXCEPT ![fd].write_buf = @ \o (IF fits THEN New(fd, n) ELSE <<>>)]
               c == [a EXCEPT ![fd].said = @ + n]
    <3>2. a = ctx
      BY <2>1
    <3>3. c = a
      BY <2>1, <3>2
    <3>4. [c EXCEPT ![fd].ranout = @ \/ ~fits] = c
      BY <2>1, <3>2, <3>3
    <3> QED
      BY <3>1, <3>2, <3>3, <3>4
  <2> QED
    BY <2>2, <2>3, <2>4
<1>2. Data(fd)
  BY <1>1 DEF Data, TypeOK
<1>3. \/ UNCHANGED interest
      \/ interest' = [interest EXCEPT ![t][fd] = IF interest[t][fd] = {} THEN {} ELSE {"r", "w"}]
  BY DEF SendDirect, SendBlocking, SendBehind, toggle_write, TypeOK
<1> QED
  BY <1>2, <1>3 DEF DataStep, Still, Toggled

LEMMA SendTypes ==
  ASSUME TypeOK, NEW t \in Trans, NEW id \in known[t], NEW n \in 1 .. MaxBytes, Send(t, id, n)
  PROVE  /\ id.fd \in Fds \cup {-1} /\ DataStep(t, id.fd)
         /\ Users(t) /\ UNCHANGED <<round, stack>>
<1> DEFINE fd == id.fd
<1>1. fd \in Fds \cup {-1} /\ n \in Nat
  BY TransportAssumption DEF TypeOK, Id
<1>2. UNCHANGED <<sock, opened, seq, known>> /\ Users(t) /\ UNCHANGED <<round, stack>>
  BY DEF Send
<1>3. \/ \E k \in 0 .. n : SendDirect(t, fd, n, k)
      \/ \E k \in 0 .. n - 1 : SendBlocking(t, fd, n, k)
      \/ SendBehind(t, fd, n)
  BY DEF Send
<1> HIDE DEF fd
<1>4. ASSUME NEW k,
             \/ k \in 0 .. n /\ SendDirect(t, fd, n, k)
             \/ SendBlocking(t, fd, n, k)
             \/ SendBehind(t, fd, n)
      PROVE  DataStep(t, fd)
  <2>1. CASE fd \notin DOMAIN ctx
    BY <1>2, <1>4, <2>1, OutsideStep
  <2>2. CASE fd \in DOMAIN ctx
    BY <1>1, <1>2, <1>4, <2>2, DirectStep, BlockingStep, BehindStep
  <2> QED
    BY <2>1, <2>2
<1>5. DataStep(t, fd)
  BY <1>3, <1>4
<1> QED
  BY <1>1, <1>2, <1>5 DEF fd

LEMMA SendOwn ==
  ASSUME Base, ~strayed', NEW t \in Trans, NEW id \in known[t], NEW n \in 1 .. MaxBytes,
         Send(t, id, n)
  PROVE  /\ id.fd \in DOMAIN ctx /\ id.fd \in Fds /\ InUse(id.fd)
         /\ ctx[id.fd].type = TCP /\ ctx[id.fd].by = t
<1>1. Same(Tid(id.fd), id) /\ ctx[id.fd].type = TCP /\ ctx[id.fd].sk = id.sk
  BY DEF Send, Uses, TCP
<1> QED
  BY <1>1, KnownIsOwn

-----------------------------------------------------------------------------
(* Types and streams: every step                                           *)

LEMMA HeadFacts ==
  ASSUME TypeOK, NEW t \in Trans, stack[t] # <<>>
  PROVE  /\ Head(stack[t]) \in Frame /\ Head(stack[t]) \in Range(stack[t])
         /\ Fd(t) \in Fds \cup {-1} /\ Head(stack[t]).sk \in Nat /\ How(t) \in Callbacks \cup {""}
         /\ Below(t) \in Seq(Frame) /\ Range(Below(t)) \subseteq Range(stack[t])
         /\ At(t, "name") => Fd(t) \in DOMAIN ctx /\ Fd(t) \in Fds
<1>1. stack[t] \in Seq(Frame)
  BY DEF TypeOK
<1>2. /\ Head(stack[t]) \in Frame /\ Tail(stack[t]) \in Seq(Frame)
      /\ Head(stack[t]) \in Range(stack[t]) /\ Range(Tail(stack[t])) \subseteq Range(stack[t])
  BY <1>1, TailRange
<1>3. Fd(t) \in Fds \cup {-1} /\ Head(stack[t]).sk \in Nat /\ How(t) \in Callbacks \cup {""}
  BY <1>2 DEF Frame, Fd, How
<1>4. At(t, "name") => Fd(t) \in DOMAIN ctx /\ Fd(t) \in Fds
  <2>1. \A f \in Frame : f.pc = "name" => f.fd \in 0 .. MaxFds - 1
    BY DEF Frame
  <2>2. DOMAIN ctx = 0 .. MaxFds - 1 /\ MaxFds \in Nat
    BY TypeFacts, TransportAssumption
  <2>3. At(t, "name") => Fd(t) \in 0 .. MaxFds - 1
    BY <1>2, <2>1 DEF Fd, At
  <2>4. -1 \notin 0 .. MaxFds - 1
    BY <2>2
  <2>5. CASE At(t, "name")
    BY <1>3, <2>2, <2>3, <2>4, <2>5
  <2> QED
    BY <2>5
<1> QED
  BY <1>2, <1>3, <1>4 DEF Below

LEMMA FrameOn ==
  \A f \in Frame, s \in Seq(Frame) :
    /\ <<f>> \o s \in Seq(Frame) /\ <<f>> \o s # <<>>
    /\ Head(<<f>> \o s) = f /\ Tail(<<f>> \o s) = s
    /\ Range(<<f>> \o s) = {f} \cup Range(s)
<1> DEFINE S == Frame
<1> SUFFICES ASSUME NEW f \in S, NEW s \in Seq(S)
             PROVE  /\ <<f>> \o s \in Seq(S) /\ <<f>> \o s # <<>>
                    /\ Head(<<f>> \o s) = f /\ Tail(<<f>> \o s) = s
                    /\ Range(<<f>> \o s) = {f} \cup Range(s)
  OBVIOUS
<1> HIDE DEF S
<1> QED
  BY OneFrame

(* Whatever is strayed, the tables keep their types; and what the ids say  *)
(* as long as nothing is.                                                  *)
CloseStep(t, fd) == Closed(t, fd) /\ UNCHANGED <<sock, opened, seq, known>>
Nothing == UNCHANGED <<sock, opened, interest, ctx, seq, known>>
Watches(t) ==
  /\ sock' \in [Fds -> Nat] /\ interest' \in [Trans -> [Fds -> SUBSET {"r", "w"}]]
  /\ UNCHANGED <<opened, ctx, seq, known>>

TableStep(t) ==
  \/ Nothing
  \/ \E fd \in Fds \cup {-1} : DataStep(t, fd)
  \/ \E fd \in Fds \cup {-1} : CloseStep(t, fd)
  \/ \E fd \in Fds, type \in Types : \E how, s : NewSocket(t, fd, type, how, s)
  \/ NameContext(t)
  \/ Watches(t)

LEMMA NameSteps ==
  ASSUME TypeOK, NEW t \in Trans, NameContext(t)
  PROVE  /\ At(t, "name") /\ stack[t] # <<>> /\ UNCHANGED round
         /\ Fd(t) \in DOMAIN ctx /\ Fd(t) \in Fds
         /\ Named(t, Fd(t), Head(stack[t]).sk) /\ Uses(Fd(t), Head(stack[t]).sk)
         /\ \/ Goto(t, Callback(Fd(t), Head(stack[t]).sk, "accepted") \o Below(t))
            \/ Goto(t, Below(t))
<1>1. At(t, "name") /\ stack[t] # <<>>
  BY DEF NameContext, At
<1> QED
  BY <1>1, HeadFacts DEF NameContext, Named

LEMMA NameTables ==
  ASSUME TypeOK, NEW t \in Trans, NEW fd \in DOMAIN ctx, fd \in Fds, NEW sk \in Nat,
         Named(t, fd, sk)
  PROVE  Tables'
<1>1. Tables /\ ctx[fd] \in Context
  BY TypeSplit, TypeFacts
<1>2. [ctx[fd] EXCEPT !.trans = t] \in Context
  BY <1>1 DEF Context
<1>3. ctx' \in [0 .. MaxFds - 1 -> Context]
  BY <1>1, <1>2 DEF Tables, Named
<1> DEFINE id == [fd |-> fd, seq |-> ctx[fd].seq, trans |-> t, sk |-> sk, type |-> ctx[fd].type]
<1>4. id \in Id
  BY <1>1 DEF Id, Context
<1>5. known' = [known EXCEPT ![t] = known[t] \cup {id}]
  BY DEF Named
<1> HIDE DEF id
<1>6. known' \in [Trans -> SUBSET Id]
  BY <1>1, <1>4, <1>5 DEF Tables
<1> QED
  BY <1>1, <1>3, <1>6 DEF Tables, Named

LEMMA TablesTyped ==
  ASSUME TypeOK, NEW t \in Trans, TableStep(t)
  PROVE  Tables'
<1>1. Tables
  BY TypeSplit
<1>2. CASE Nothing \/ Watches(t)
  BY <1>1, <1>2 DEF Tables, Nothing, Watches
<1>3. ASSUME NEW fd \in Fds \cup {-1}, CloseStep(t, fd) PROVE Tables'
  BY <1>3, CloseTables DEF CloseStep
<1>4. CASE NameContext(t)
  <2>1. Head(stack[t]).sk \in Nat
    BY <1>4, NameSteps, HeadFacts
  <2> QED
    BY <1>4, <2>1, NameSteps, NameTables
<1> QED
  BY <1>2, <1>3, <1>4, DataStepTables, NewTypes DEF TableStep

(* Every step of t moves t to a stack of frames.                           *)
ThreadStep(t) ==
  /\ TableStep(t)
  /\ \E s \in Seq(Frame) : Goto(t, s)
  /\ round' \in [Trans -> Seq(Event)]

LEMMA StepTyped ==
  ASSUME TypeOK, NEW t \in Trans, ThreadStep(t), strayed' \in BOOLEAN
  PROVE  TypeOK'
<1>1. Tables'
  BY TablesTyped DEF ThreadStep
<1>2. Threads'
  BY TypeSplit DEF ThreadStep, Threads, Goto
<1> QED
  BY <1>1, <1>2, TypeSplit DEF TypeOK, Tables, Threads

LEMMA StaysPut ==
  ASSUME TypeOK, NEW t \in Trans
  PROVE  /\ UNCHANGED stack => Goto(t, stack[t])
         /\ stack[t] \in Seq(Frame) /\ <<>> \in Seq(Frame)
         /\ UNCHANGED round => round' \in [Trans -> Seq(Event)]
BY DEF TypeOK, Goto

LEMMA CloseOwn ==
  ASSUME NEW t, NEW fd, NEW sk, NEW s, Close(t, [Tid(fd) EXCEPT !.sk = sk], s)
  PROVE  Closed(t, fd) /\ Goto(t, <<F("shut", fd, sk, "")>> \o s)
<1> DEFINE id == [Tid(fd) EXCEPT !.sk = sk]
<1>1. id.fd = fd /\ id.sk = sk /\ id.seq = Tid(fd).seq /\ id.trans = Tid(fd).trans
  BY DEF Tid
<1> HIDE DEF id
<1>2. Same(Tid(id.fd), id)
  BY <1>1 DEF Same
<1>3. Close(t, id, s)
  BY DEF id
<1> QED
  BY <1>1, <1>2, <1>3 DEF Close, Closed, Cleared

LEMMA WriteStep ==
  ASSUME TypeOK, NEW t \in Trans, NEW e, e.fd \in Fds, e.sk \in Nat,
         NEW s \in Seq(Frame), handle_tcp_write(t, e, s),
         UNCHANGED <<sock, opened, seq, known>>
  PROVE  \/ DataStep(t, e.fd) /\ Goto(t, Callback(e.fd, e.sk, "sent") \o s)
         \/ /\ CloseStep(t, e.fd)
            /\ Goto(t, <<F("shut", e.fd, e.sk, "")>> \o (Callback(e.fd, e.sk, "closed") \o s))
<1> DEFINE fd == e.fd  bs == ctx[fd].write_buf
<1>1. PICK k \in 0 .. Len(bs) :
        \/ /\ ctx' = Takes(fd, bs, k)
           /\ IF k = Len(bs) THEN toggle_write(t, fd, FALSE) ELSE UNCHANGED interest
           /\ Goto(t, Callback(fd, e.sk, "sent") \o s)
        \/ /\ k < Len(bs)
           /\ Close(t, [Tid(fd) EXCEPT !.sk = e.sk], Callback(fd, e.sk, "closed") \o s)
  BY DEF handle_tcp_write
<1>2. CASE Close(t, [Tid(fd) EXCEPT !.sk = e.sk], Callback(fd, e.sk, "closed") \o s)
  <2> HIDE DEF fd
  <2>1. Closed(t, fd) /\ Goto(t, <<F("shut", fd, e.sk, "")>> \o (Callback(fd, e.sk, "closed") \o s))
    BY <1>2, CloseOwn
  <2> QED
    BY <2>1 DEF CloseStep, fd
<1>3. CASE /\ ctx' = Takes(fd, bs, k)
           /\ IF k = Len(bs) THEN toggle_write(t, fd, FALSE) ELSE UNCHANGED interest
           /\ Goto(t, Callback(fd, e.sk, "sent") \o s)
  <2>1. ctx' = [ctx EXCEPT ![fd].took = @ \o SubSeq(bs, 1, k),
                           ![fd].write_buf = SubSeq(bs, k + 1, Len(bs))]
    BY <1>3 DEF Takes
  <2>2. fd \in DOMAIN ctx => Moved(ctx[fd], ctx'[fd])
    BY <1>1, <1>3, TakesMoves
  <2>3. fd \in DOMAIN ctx => /\ bs \in Seq(Nat) /\ ctx[fd] \in Context
                             /\ ctx'[fd].write_buf = SubSeq(bs, k + 1, Len(bs))
    <3> DEFINE y == SubSeq(bs, k + 1, Len(bs))  x == SubSeq(bs, 1, k)
    <3>1. fd \in DOMAIN ctx => ctx[fd] \in Context /\ bs \in Seq(Nat)
      BY TypeFacts
    <3>2. ctx' = [ctx EXCEPT ![fd].took = @ \o x, ![fd].write_buf = y]
      BY <2>1
    <3> HIDE DEF x, y, bs, fd
    <3>3. fd \in DOMAIN ctx => ctx'[fd].write_buf = y
      BY <3>1, <3>2 DEF Context
    <3> QED
      BY <3>1, <3>3 DEF y
  <2>4. fd \in DOMAIN ctx => (ctx'[fd].write_buf = <<>> <=> k = Len(bs))
    <3> HIDE DEF bs, fd
    <3> QED
      BY <1>1, <2>3, Split
  <2>5. fd \in DOMAIN ctx /\ bs = <<>> => k = Len(bs)
    <3> HIDE DEF bs, fd
    <3>1. fd \in DOMAIN ctx /\ bs = <<>> => Len(bs) = 0
      OBVIOUS
    <3> QED
      BY <1>1, <3>1
  <2>6. Data(fd)
    <3> HIDE DEF bs, fd
    <3> QED
      BY <2>1, <2>2 DEF Data
  <2>7. k = Len(bs) => interest' = [interest EXCEPT ![t][fd] =
                                       IF interest[t][fd] = {} THEN {} ELSE {"r"}]
    BY <1>3 DEF toggle_write, TypeOK
  <2>8. k # Len(bs) => UNCHANGED interest
    BY <1>3
  <2>9. CASE k = Len(bs)
    <3> DEFINE m == IF interest[t][fd] = {} THEN {} ELSE {"r"}
    <3>1. /\ interest' = [interest EXCEPT ![t][fd] = m]
          /\ m \in {{}, {"r"}, {"r", "w"}} /\ "w" \notin m /\ (m = {} => interest[t][fd] = {})
      BY <2>7, <2>9
    <3> HIDE DEF bs, fd, m
    <3>2. DataStep(t, fd)
      BY <2>4, <2>6, <2>9, <3>1 DEF DataStep, Still, Toggled
    <3> QED
      BY <1>3, <3>2 DEF fd
  <2>10. CASE k # Len(bs)
    <3>1. fd \in DOMAIN ctx => (ctx'[fd].write_buf = <<>> <=> ctx[fd].write_buf = <<>>)
      BY <2>4, <2>5, <2>10
    <3> HIDE DEF fd
    <3>2. DataStep(t, fd)
      BY <2>6, <2>8, <2>10, <3>1 DEF DataStep, Still, Toggled
    <3> QED
      BY <1>3, <3>2 DEF fd
  <2> QED
    BY <2>9, <2>10
<1> QED
  BY <1>1, <1>2, <1>3

LEMMA EventFacts ==
  ASSUME TypeOK, NEW t \in Trans, round[t] # <<>>
  PROVE  /\ Head(round[t]) \in Event /\ Head(round[t]) \in Range(round[t])
         /\ Head(round[t]).fd \in Fds /\ Head(round[t]).sk \in Nat
         /\ Tail(round[t]) \in Seq(Event) /\ Range(Tail(round[t])) \subseteq Range(round[t])
<1>1. round[t] \in Seq(Event)
  BY DEF TypeOK
<1>2. /\ Head(round[t]) \in Event /\ Tail(round[t]) \in Seq(Event)
      /\ Head(round[t]) \in Range(round[t]) /\ Range(Tail(round[t])) \subseteq Range(round[t])
  BY <1>1, TailRange
<1> QED
  BY <1>2 DEF Event

(* What is left of an event when its write part is done.                   *)
ReadPart(t) ==
  LET e == Head(round[t])
  IN IF "r" \in e.mask THEN <<F("read", e.fd, e.sk, "")>> \o stack[t] ELSE stack[t]

LEMMA ReadPartFacts ==
  ASSUME TypeOK, NEW t \in Trans, round[t] # <<>>
  PROVE  /\ ReadPart(t) \in Seq(Frame)
         /\ Range(ReadPart(t)) \subseteq
              Range(stack[t]) \cup {F("read", Head(round[t]).fd, Head(round[t]).sk, "")}
<1>1. Head(round[t]).fd \in Fds \cup {-1} /\ Head(round[t]).sk \in Nat
  BY EventFacts
<1>2. stack[t] \in Seq(Frame)
  BY DEF TypeOK
<1> DEFINE e == Head(round[t])  f == F("read", e.fd, e.sk, "")
<1>3. <<f>> \o stack[t] \in Seq(Frame) /\ Range(<<f>> \o stack[t]) = {f} \cup Range(stack[t])
  <2>1. f \in Frame
    <3> HIDE DEF e
    <3> QED
      BY <1>1 DEF e, F, Frame, Callbacks
  <2> HIDE DEF f
  <2> QED
    BY <1>2, <2>1, FrameOn
<1> HIDE DEF f
<1>4. CASE "r" \in e.mask
  <2>1. ReadPart(t) = <<f>> \o stack[t]
    BY <1>4 DEF ReadPart, f
  <2> QED
    BY <1>3, <2>1 DEF f
<1>5. CASE "r" \notin e.mask
  <2>1. ReadPart(t) = stack[t]
    BY <1>5 DEF ReadPart
  <2> QED
    BY <1>2, <2>1
<1> QED
  BY <1>4, <1>5

(* The three ways an event is taken up.                                    *)
EventStep(t) ==
  LET e == Head(round[t])
  IN \/ /\ CloseStep(t, e.fd) /\ e.mask # {"r"}
        /\ \E s \in {stack[t], ReadPart(t)} :
             Goto(t, <<F("shut", e.fd, e.sk, "")>> \o (Callback(e.fd, e.sk, "closed") \o s))
     \/ /\ DataStep(t, e.fd) /\ "w" \in e.mask
        /\ Goto(t, Callback(e.fd, e.sk, "sent") \o ReadPart(t))
     \/ Nothing /\ e.mask = {"r"} /\ Goto(t, ReadPart(t))

LEMMA EventSteps ==
  ASSUME TypeOK, NEW t \in Trans, EdaCallback(t)
  PROVE  /\ At(t, "event") /\ round[t] # <<>>
         /\ round' = [round EXCEPT ![t] = Tail(round[t])]
         /\ EventStep(t)
         /\ Head(round[t]).mask # {"r"} => Uses(Head(round[t]).fd, Head(round[t]).sk)
<1> DEFINE e == Head(round[t])
<1>1. /\ At(t, "event") /\ round[t] # <<>> /\ round' = [round EXCEPT ![t] = Tail(round[t])]
      /\ UNCHANGED <<sock, opened, seq, known>>
  BY DEF EdaCallback
<1>2. e.fd \in Fds /\ e.sk \in Nat
  BY <1>1, EventFacts
<1>3. ReadPart(t) \in Seq(Frame)
  BY <1>1, ReadPartFacts
<1>8. e.mask # {"r"} => Uses(e.fd, e.sk)
  BY DEF EdaCallback
<1>4. \/ /\ "e" \in e.mask
         /\ Close(t, [Tid(e.fd) EXCEPT !.sk = e.sk], Callback(e.fd, e.sk, "closed") \o stack[t])
      \/ "w" \in e.mask /\ handle_tcp_write(t, e, ReadPart(t))
      \/ e.mask = {"r"} /\ Goto(t, ReadPart(t)) /\ UNCHANGED <<ctx, interest>>
  BY DEF EdaCallback, ReadPart
<1> HIDE DEF e
<1>5. CASE /\ "e" \in e.mask
           /\ Close(t, [Tid(e.fd) EXCEPT !.sk = e.sk], Callback(e.fd, e.sk, "closed") \o stack[t])
  <2>1. /\ Closed(t, e.fd)
        /\ Goto(t, <<F("shut", e.fd, e.sk, "")>> \o (Callback(e.fd, e.sk, "closed") \o stack[t]))
    BY <1>5, CloseOwn
  <2>2. e.mask # {"r"}
    BY <1>5
  <2> QED
    BY <1>1, <1>8, <2>1, <2>2 DEF EventStep, CloseStep, e
<1>6. CASE "w" \in e.mask /\ handle_tcp_write(t, e, ReadPart(t))
  <2>1. \/ DataStep(t, e.fd) /\ Goto(t, Callback(e.fd, e.sk, "sent") \o ReadPart(t))
        \/ /\ CloseStep(t, e.fd)
           /\ Goto(t, <<F("shut", e.fd, e.sk, "")>>
                      \o (Callback(e.fd, e.sk, "closed") \o ReadPart(t)))
    BY <1>1, <1>2, <1>3, <1>6, WriteStep
  <2>2. e.mask # {"r"}
    BY <1>6
  <2> QED
    BY <1>1, <1>6, <1>8, <2>1, <2>2 DEF EventStep, e
<1>7. CASE e.mask = {"r"} /\ Goto(t, ReadPart(t)) /\ UNCHANGED <<ctx, interest>>
  BY <1>1, <1>7, <1>8 DEF EventStep, Nothing, e
<1> QED
  BY <1>1, <1>4, <1>5, <1>6, <1>7 DEF e

LEMMA CallbackOn ==
  ASSUME NEW fd \in Fds \cup {-1}, NEW sk \in Nat, NEW how \in Callbacks, NEW s \in Seq(Frame)
  PROVE  LET f == F("handler", fd, sk, how)
         IN /\ Callback(fd, sk, how) \o s \in Seq(Frame)
            /\ Range(Callback(fd, sk, how) \o s) = {f} \cup Range(s)
            /\ f.pc = "handler" /\ f.fd = fd /\ f.sk = sk
<1> DEFINE f == F("handler", fd, sk, how)
<1>1. f \in Frame /\ f.pc = "handler" /\ f.fd = fd /\ f.sk = sk
  BY DEF F, Frame
<1> HIDE DEF f
<1>2. <<f>> \o s \in Seq(Frame) /\ Range(<<f>> \o s) = {f} \cup Range(s)
  BY <1>1, FrameOn
<1> QED
  BY <1>1, <1>2 DEF f, Callback

LEMMA ShutOn ==
  ASSUME NEW fd \in Fds \cup {-1}, NEW sk \in Nat, NEW s \in Seq(Frame)
  PROVE  LET f == F("shut", fd, sk, "")
         IN /\ <<f>> \o s \in Seq(Frame) /\ <<f>> \o s # <<>>
            /\ Head(<<f>> \o s) = f /\ Tail(<<f>> \o s) = s
            /\ f.pc = "shut" /\ f.fd = fd /\ f.sk = sk
<1> DEFINE f == F("shut", fd, sk, "")
<1>1. f \in Frame /\ f.pc = "shut" /\ f.fd = fd /\ f.sk = sk
  BY DEF F, Frame
<1> HIDE DEF f
<1>2. /\ <<f>> \o s \in Seq(Frame) /\ <<f>> \o s # <<>>
      /\ Head(<<f>> \o s) = f /\ Tail(<<f>> \o s) = s
  BY <1>1, FrameOn
<1> QED
  BY <1>1, <1>2 DEF f

LEMMA UnreadStep ==
  ASSUME TypeOK, NEW t \in Trans, NEW fd, NEW u \in BOOLEAN,
         ctx' = [ctx EXCEPT ![fd].unread = u], UNCHANGED <<sock, opened, interest, seq, known>>
  PROVE  DataStep(t, fd) /\ Still(fd)
<1>1. CASE fd \in DOMAIN ctx
  <2>1. Moved(ctx[fd], ctx'[fd])
    BY <1>1, UnreadMoves
  <2>2. ctx'[fd].write_buf = ctx[fd].write_buf
    BY <1>1, TypeFacts DEF Context
  <2>3. Data(fd)
    BY <2>1 DEF Data
  <2> QED
    BY <2>2, <2>3 DEF DataStep, Still
<1>2. CASE fd \notin DOMAIN ctx
  <2>1. ctx' = ctx
    BY <1>2 DEF TypeOK
  <2>2. Data(fd)
    BY <1>2, <2>1, TypeFacts DEF Data
  <2> QED
    BY <1>2, <2>2 DEF DataStep, Still
<1> QED
  BY <1>1, <1>2

(* Frames that leave the tables as they are for the other threads.         *)
Plain(f) == f.pc \notin {"shut", "name"}

(* A read event leads to one of these.                                     *)
ReadOn(t, s) ==
  LET fd == Fd(t)
      sk == Head(stack[t]).sk
      end == <<F("end", fd, sk, "")>> \o Below(t)
  IN s \in {<<F("accept", fd, sk, "")>> \o Below(t), <<F("udp", fd, sk, "")>> \o Below(t), Below(t),
            Callback(fd, sk, "received") \o Below(t), Callback(fd, sk, "last") \o end, <<>> \o end}

LEMMA ReadSteps ==
  ASSUME TypeOK, NEW t \in Trans, Read(t)
  PROVE  /\ At(t, "read") /\ UNCHANGED round
         /\ Nothing \/ (DataStep(t, Fd(t)) /\ Still(Fd(t)))
         /\ \E s : ReadOn(t, s) /\ Goto(t, s)
<1> DEFINE fd == Fd(t)  sk == Head(stack[t]).sk
<1>1. At(t, "read") /\ UNCHANGED <<sock, opened, interest, seq, known, round>>
  BY DEF Read
<1>2. \/ /\ Goto(t, <<F("accept", fd, sk, "")>> \o Below(t)) \/ Goto(t, <<F("udp", fd, sk, "")>> \o Below(t))
            \/ Goto(t, Below(t))
         /\ UNCHANGED ctx
      \/ InUse(fd) /\ handle_tcp_read(t, fd, sk)
  BY DEF Read
<1>3. CASE /\ Goto(t, <<F("accept", fd, sk, "")>> \o Below(t)) \/ Goto(t, <<F("udp", fd, sk, "")>> \o Below(t))
              \/ Goto(t, Below(t))
           /\ UNCHANGED ctx
  BY <1>1, <1>3 DEF Nothing, ReadOn
<1>4. CASE InUse(fd) /\ handle_tcp_read(t, fd, sk)
  <2>1. \/ \E more \in BOOLEAN :
             /\ ctx' = [ctx EXCEPT ![fd].unread = @ \/ more]
             /\ Goto(t, Callback(fd, sk, "received") \o Below(t))
        \/ /\ Goto(t, (IF ctx[fd].unread THEN Callback(fd, sk, "last") ELSE <<>>)
                      \o (<<F("end", fd, sk, "")>> \o Below(t)))
           /\ UNCHANGED ctx
    BY <1>4 DEF handle_tcp_read
  <2>2. ASSUME NEW more \in BOOLEAN, ctx' = [ctx EXCEPT ![fd].unread = @ \/ more],
               Goto(t, Callback(fd, sk, "received") \o Below(t))
        PROVE  /\ DataStep(t, fd) /\ Still(fd)
               /\ \E s : ReadOn(t, s) /\ Goto(t, s)
    <3> DEFINE u == ctx[fd].unread \/ more
    <3>1. u \in BOOLEAN /\ ctx' = [ctx EXCEPT ![fd].unread = u]
      BY <1>4, <2>2
    <3> HIDE DEF u, fd
    <3>2. DataStep(t, fd) /\ Still(fd)
      BY <1>1, <3>1, UnreadStep
    <3> QED
      BY <2>2, <3>2 DEF ReadOn, fd
  <2>3. CASE /\ Goto(t, (IF ctx[fd].unread THEN Callback(fd, sk, "last") ELSE <<>>)
                        \o (<<F("end", fd, sk, "")>> \o Below(t)))
             /\ UNCHANGED ctx
    <3> DEFINE end == <<F("end", fd, sk, "")>> \o Below(t)
    <3>1. Goto(t, Callback(fd, sk, "last") \o end) \/ Goto(t, <<>> \o end)
      <4>1. CASE ctx[fd].unread
        BY <2>3, <4>1
      <4>2. CASE ~ctx[fd].unread
        BY <2>3, <4>2
      <4> QED
        BY <4>1, <4>2
    <3> QED
      BY <1>1, <2>3, <3>1 DEF Nothing, ReadOn
  <2> QED
    BY <1>1, <2>1, <2>2, <2>3
<1> QED
  BY <1>1, <1>2, <1>3, <1>4

LEMMA ReadOnFacts ==
  ASSUME TypeOK, NEW t \in Trans, stack[t] # <<>>, NEW s, ReadOn(t, s)
  PROVE  /\ s \in Seq(Frame)
         /\ \A f \in Range(s) : \/ f \in Range(Below(t))
                                \/ Plain(f) /\ f.fd = Fd(t) /\ f.sk = Head(stack[t]).sk
<1> DEFINE fd == Fd(t)  sk == Head(stack[t]).sk  b == Below(t)
           a == F("accept", fd, sk, "")  u == F("udp", fd, sk, "")  e == F("end", fd, sk, "")
           r == F("handler", fd, sk, "received")  l == F("handler", fd, sk, "last")
           Ours(f) == Plain(f) /\ f.fd = fd /\ f.sk = sk
<1>1. fd \in Fds \cup {-1} /\ sk \in Nat /\ b \in Seq(Frame)
  BY HeadFacts
<1>2. s \in {<<a>> \o b, <<u>> \o b, b, <<r>> \o b, <<l>> \o (<<e>> \o b), <<>> \o (<<e>> \o b)}
  BY DEF ReadOn, Callback
<1> HIDE DEF fd, sk, b
<1>3. a \in Frame /\ u \in Frame /\ e \in Frame /\ r \in Frame /\ l \in Frame
  BY <1>1 DEF F, Frame, Callbacks
<1>4. Ours(a) /\ Ours(u) /\ Ours(e) /\ Ours(r) /\ Ours(l)
  BY DEF F, Plain
<1> HIDE DEF a, u, e, r, l, Ours
<1>5. /\ <<a>> \o b \in Seq(Frame) /\ Range(<<a>> \o b) = {a} \cup Range(b)
      /\ <<u>> \o b \in Seq(Frame) /\ Range(<<u>> \o b) = {u} \cup Range(b)
  BY <1>1, <1>3, FrameOn
<1>6. /\ <<r>> \o b \in Seq(Frame) /\ Range(<<r>> \o b) = {r} \cup Range(b)
      /\ <<e>> \o b \in Seq(Frame) /\ Range(<<e>> \o b) = {e} \cup Range(b)
  BY <1>1, <1>3, FrameOn
<1> DEFINE x == <<e>> \o b
<1>7. x \in Seq(Frame) /\ Range(x) = {e} \cup Range(b)
  BY <1>6
<1> HIDE DEF x
<1>8. /\ <<l>> \o x \in Seq(Frame) /\ Range(<<l>> \o x) = {l} \cup Range(x)
      /\ <<>> \o x = x
  BY <1>3, <1>7, FrameOn
<1>9. s \in Seq(Frame) /\ \A f \in Range(s) : f \in Range(b) \/ Ours(f)
  <2>1. CASE s = <<a>> \o b \/ s = <<u>> \o b
    BY <1>4, <1>5, <2>1
  <2>2. CASE s = b
    BY <1>1, <2>2
  <2>3. CASE s = <<r>> \o b
    BY <1>4, <1>6, <2>3
  <2>4. CASE s = <<l>> \o x
    BY <1>4, <1>7, <1>8, <2>4
  <2>5. CASE s = <<>> \o x
    BY <1>4, <1>7, <1>8, <2>5
  <2> QED
    BY <1>2, <2>1, <2>2, <2>3, <2>4, <2>5 DEF x
<1> QED
  BY <1>9 DEF b, Ours, fd, sk

(* The frames of an event.                                                 *)
EventOn(t, s) ==
  /\ s \in Seq(Frame)
  /\ \A f \in Range(s) : \/ f \in Range(stack[t])
                         \/ /\ Plain(f)
                            /\ f.fd = Head(round[t]).fd /\ f.sk = Head(round[t]).sk

LEMMA EventOnFacts ==
  ASSUME TypeOK, NEW t \in Trans, round[t] # <<>>
  PROVE  LET e == Head(round[t])
         IN /\ EventOn(t, stack[t]) /\ EventOn(t, ReadPart(t))
            /\ EventOn(t, Callback(e.fd, e.sk, "sent") \o ReadPart(t))
            /\ EventOn(t, Callback(e.fd, e.sk, "closed") \o stack[t])
            /\ EventOn(t, Callback(e.fd, e.sk, "closed") \o ReadPart(t))
<1> DEFINE e == Head(round[t])
<1>1. e.fd \in Fds \cup {-1} /\ e.sk \in Nat
  BY EventFacts
<1>2. stack[t] \in Seq(Frame)
  BY DEF TypeOK
<1>3. EventOn(t, stack[t])
  BY <1>2 DEF EventOn
<1>4. EventOn(t, ReadPart(t))
  <2>1. LET f == F("read", e.fd, e.sk, "") IN Plain(f) /\ f.fd = e.fd /\ f.sk = e.sk
    BY DEF F, Plain
  <2> QED
    BY <2>1, ReadPartFacts DEF EventOn
<1>5. ASSUME NEW how \in {"sent", "closed"}, NEW s, EventOn(t, s)
      PROVE  EventOn(t, Callback(e.fd, e.sk, how) \o s)
  <2> DEFINE f == F("handler", e.fd, e.sk, how)  c == Callback(e.fd, e.sk, how) \o s
  <2>1. s \in Seq(Frame) /\ how \in Callbacks
    BY <1>5 DEF EventOn, Callbacks
  <2>2. c \in Seq(Frame) /\ Range(c) = {f} \cup Range(s)
        /\ f.pc = "handler" /\ f.fd = e.fd /\ f.sk = e.sk
    <3> DEFINE fd == e.fd  sk == e.sk
    <3>1. fd \in Fds \cup {-1} /\ sk \in Nat
      BY <1>1
    <3> HIDE DEF fd, sk
    <3>2. f \in Frame /\ f.pc = "handler" /\ f.fd = fd /\ f.sk = sk
      BY <2>1, <3>1 DEF F, Frame, fd, sk
    <3>3. c = <<f>> \o s
      BY DEF Callback
    <3> HIDE DEF c, f
    <3>4. <<f>> \o s \in Seq(Frame) /\ Range(<<f>> \o s) = {f} \cup Range(s)
      BY <2>1, <3>2, FrameOn
    <3> QED
      BY <3>2, <3>3, <3>4 DEF fd, sk
  <2> HIDE DEF c, f
  <2>3. EventOn(t, c)
    BY <1>5, <2>2 DEF EventOn, Plain
  <2> QED
    BY <2>3 DEF c
<1>6. /\ EventOn(t, Callback(e.fd, e.sk, "sent") \o ReadPart(t))
      /\ EventOn(t, Callback(e.fd, e.sk, "closed") \o stack[t])
      /\ EventOn(t, Callback(e.fd, e.sk, "closed") \o ReadPart(t))
  <2> HIDE DEF e
  <2> QED
    BY <1>3, <1>4, <1>5
<1> QED
  BY <1>3, <1>4, <1>6

LEMMA PollFacts ==
  ASSUME TypeOK, NEW t \in Trans, poll(t)
  PROVE  /\ stack[t] = <<>> /\ Nothing
         /\ Goto(t, <<F("event", -1, 0, "")>>) /\ <<F("event", -1, 0, "")>> \in Seq(Frame)
         /\ \E r \in Seq(Event) :
              /\ round' = [round EXCEPT ![t] = r]
              /\ \A e \in Range(r) : /\ e.fd \in Fds /\ interest[t][e.fd] # {}
                                     /\ e.sk = sock[e.fd] /\ e.mask \in Masks(t, e.fd)
<1>1. PICK ready \in SUBSET {fd \in Fds : interest[t][fd] # {}} :
        \E mask \in [ready -> SUBSET {"r", "w", "e"}], order \in SetToSeqs(ready) :
          /\ \A fd \in ready : mask[fd] \in Masks(t, fd)
          /\ round' = [round EXCEPT ![t] =
               [i \in DOMAIN order |-> [fd |-> order[i], sk |-> sock[order[i]],
                                        mask |-> mask[order[i]]]]]
  BY DEF poll
<1>2. PICK mask \in [ready -> SUBSET {"r", "w", "e"}], order \in SetToSeqs(ready) :
        /\ \A fd \in ready : mask[fd] \in Masks(t, fd)
        /\ round' = [round EXCEPT ![t] =
             [i \in DOMAIN order |-> [fd |-> order[i], sk |-> sock[order[i]],
                                      mask |-> mask[order[i]]]]]
  BY <1>1
<1>3. ready \subseteq Fds /\ \A fd \in ready : interest[t][fd] # {}
  OBVIOUS
<1>4. Cardinality(ready) \in Nat
  BY <1>3, TransportAssumption, FS_Subset, FS_CardinalityType
<1>5. order \in [1 .. Cardinality(ready) -> ready]
  BY <1>2 DEF SetToSeqs
<1> DEFINE E(i) == [fd |-> order[i], sk |-> sock[order[i]], mask |-> mask[order[i]]]
           r == [i \in DOMAIN order |-> E(i)]
<1>6. ASSUME NEW i \in DOMAIN order
      PROVE  /\ E(i) \in Event
             /\ E(i).fd \in Fds /\ interest[t][E(i).fd] # {}
             /\ E(i).sk = sock[E(i).fd] /\ E(i).mask \in Masks(t, E(i).fd)
  <2>1. order[i] \in ready /\ order[i] \in Fds
    BY <1>3, <1>5
  <2>2. sock[order[i]] \in Nat /\ mask[order[i]] \in SUBSET {"r", "w", "e"}
    BY <2>1 DEF TypeOK
  <2>3. E(i) \in Event
    BY <2>1, <2>2 DEF Event
  <2> QED
    BY <1>2, <1>3, <2>1, <2>3
<1>7. r \in Seq(Event)
  <2> HIDE DEF E
  <2> DEFINE n == Cardinality(ready)
  <2>1. n \in Nat /\ DOMAIN order = 1 .. n
    BY <1>4, <1>5
  <2> HIDE DEF n
  <2>2. r \in [1 .. n -> Event]
    BY <1>6, <2>1
  <2> QED
    BY <2>1, <2>2
<1>8. \A e \in Range(r) : \E i \in DOMAIN order : e = E(i)
  <2> HIDE DEF E
  <2> QED
    BY DEF Range
<1>9. round' = [round EXCEPT ![t] = r]
  BY <1>2
<1>10. \A e \in Range(r) : /\ e.fd \in Fds /\ interest[t][e.fd] # {}
                           /\ e.sk = sock[e.fd] /\ e.mask \in Masks(t, e.fd)
  <2> HIDE DEF E, r
  <2> QED
    BY <1>6, <1>8
<1>11. /\ stack[t] = <<>> /\ Nothing /\ Goto(t, <<F("event", -1, 0, "")>>)
  BY DEF poll, Nothing
<1>12. <<F("event", -1, 0, "")>> \in Seq(Frame)
  <2> DEFINE f == F("event", -1, 0, "")
  <2>1. f \in Frame
    BY DEF F, Frame, Callbacks
  <2> HIDE DEF f
  <2>2. <<f>> \in Seq(Frame)
    BY <2>1
  <2> QED
    BY <2>2 DEF f
<1> HIDE DEF r, E
<1> QED
  BY <1>7, <1>9, <1>10, <1>11, <1>12

(* What the shorter actions do, for a thread whose stack is t's.           *)
LEMMA UserCloseSteps ==
  ASSUME TypeOK, NEW t \in Trans, NEW id \in known[t], UserClose(t, id)
  PROVE  /\ stack[t] = <<>> /\ UNCHANGED round
         /\ \/ /\ CloseStep(t, id.fd) /\ Goto(t, <<F("shut", id.fd, id.sk, "")>> \o <<>>)
               /\ id.fd \in Fds \cup {-1} /\ id.sk \in Nat
               /\ Same(Tid(id.fd), id) /\ Uses(id.fd, id.sk)
            \/ Nothing /\ Goto(t, <<>>) /\ UNCHANGED strayed
<1>1. /\ stack[t] = <<>> /\ Close(t, id, <<>>)
      /\ UNCHANGED <<sock, opened, seq, known, round>>
      /\ IF Same(Tid(id.fd), id) THEN Uses(id.fd, id.sk) ELSE UNCHANGED strayed
  BY DEF UserClose
<1>2. CASE Same(Tid(id.fd), id)
  <2>1. Closed(t, id.fd) /\ Goto(t, <<F("shut", id.fd, id.sk, "")>> \o <<>>)
    BY <1>1, <1>2 DEF Close, Closed, Cleared
  <2>2. id.fd \in Fds \cup {-1} /\ id.sk \in Nat
    BY DEF TypeOK, Id
  <2> QED
    BY <1>1, <1>2, <2>1, <2>2 DEF CloseStep
<1>3. CASE ~Same(Tid(id.fd), id)
  BY <1>1, <1>3 DEF Close, Nothing
<1> QED
  BY <1>1, <1>2, <1>3

LEMMA UserCloseOwn ==
  ASSUME Base, ~strayed', NEW t \in Trans, NEW id \in known[t],
         Same(Tid(id.fd), id), Uses(id.fd, id.sk)
  PROVE  /\ id.fd \in DOMAIN ctx /\ id.fd \in Fds /\ id.sk \in Nat
         /\ InUse(id.fd) /\ ctx[id.fd].sk = id.sk /\ ctx[id.fd].by = t
<1>1. ctx[id.fd].sk = id.sk
  BY DEF Uses
<1> QED
  BY <1>1, KnownIsOwn

LEMMA EndSteps ==
  ASSUME NEW t \in Trans, EndConnection(t)
  PROVE  LET fd == Fd(t)
             sk == Head(stack[t]).sk
         IN /\ At(t, "end") /\ CloseStep(t, fd) /\ UNCHANGED round
            /\ Goto(t, <<F("shut", fd, sk, "")>> \o (Callback(fd, sk, "closed") \o Below(t)))
BY CloseOwn DEF EndConnection, CloseStep

LEMMA HandlerCloseSteps ==
  ASSUME NEW t \in Trans, HandlerClose(t)
  PROVE  LET fd == Fd(t)
             sk == Head(stack[t]).sk
         IN /\ At(t, "handler") /\ CloseStep(t, fd) /\ UNCHANGED round
            /\ Goto(t, <<F("shut", fd, sk, "")>>
                       \o (<<[Head(stack[t]) EXCEPT !.pc = "done"]>> \o Below(t)))
BY CloseOwn DEF HandlerClose, CloseStep

LEMMA DoneOn ==
  ASSUME TypeOK, NEW t \in Trans, stack[t] # <<>>
  PROVE  LET f == [Head(stack[t]) EXCEPT !.pc = "done"]
             s == <<f>> \o Below(t)
         IN /\ s \in Seq(Frame) /\ Range(s) = {f} \cup Range(Below(t))
            /\ f.pc = "done" /\ f.fd = Fd(t) /\ f.sk = Head(stack[t]).sk
<1> DEFINE h == Head(stack[t])  f == [h EXCEPT !.pc = "done"]  b == Below(t)
<1>1. h \in Frame /\ b \in Seq(Frame) /\ Fd(t) = h.fd
  BY HeadFacts DEF Fd
<1> HIDE DEF h, b
<1>2. f \in Frame /\ f.pc = "done" /\ f.fd = h.fd /\ f.sk = h.sk
  BY <1>1 DEF Frame
<1> HIDE DEF f
<1>3. <<f>> \o b \in Seq(Frame) /\ Range(<<f>> \o b) = {f} \cup Range(b)
  BY <1>1, <1>2, FrameOn
<1> QED
  BY <1>1, <1>2, <1>3 DEF f, h, b

LEMMA ShutSteps ==
  ASSUME TypeOK, NEW t \in Trans, CloseSocket(t)
  PROVE  Watches(t) /\ At(t, "shut") /\ UNCHANGED round /\ Goto(t, Below(t))
<1>1. /\ At(t, "shut") /\ Goto(t, Below(t)) /\ UNCHANGED <<opened, ctx, seq, known, round>>
      /\ sock' = [sock EXCEPT ![Fd(t)] = 0]
      /\ interest' = [u \in Trans |-> [interest[u] EXCEPT ![Fd(t)] = {}]]
  BY DEF CloseSocket
<1>2. sock \in [Fds -> Nat] /\ interest \in [Trans -> [Fds -> SUBSET {"r", "w"}]]
  BY DEF TypeOK
<1>3. interest' \in [Trans -> [Fds -> SUBSET {"r", "w"}]]
  BY <1>1, <1>2
<1> QED
  BY <1>1, <1>2, <1>3 DEF Watches

LEMMA CloneSteps ==
  ASSUME TypeOK, NEW t \in Trans, NEW u \in Trans, NEW id \in known[u], Clone(t, id)
  PROVE  Watches(t) /\ Users(t) /\ UNCHANGED <<round, stack>>
<1> DEFINE fd == id.fd
<1>1. interest \in [Trans -> [Fds -> SUBSET {"r", "w"}]]
  BY DEF TypeOK
<1>2. /\ interest' = [interest EXCEPT ![t][fd] = {"r"}] /\ Users(t)
      /\ UNCHANGED <<sock, opened, ctx, seq, known, round, stack>>
  BY DEF Clone
<1> HIDE DEF fd
<1>3. [interest[t] EXCEPT ![fd] = {"r"}] \in [Fds -> SUBSET {"r", "w"}]
  BY <1>1
<1>4. interest' \in [Trans -> [Fds -> SUBSET {"r", "w"}]]
  BY <1>1, <1>2, <1>3
<1> QED
  BY <1>2, <1>4 DEF Watches, TypeOK

LEMMA NextSocket ==
  ASSUME TypeOK, NEW fd \in DOMAIN ctx
  PROVE  fd \in 0 .. MaxFds - 1 /\ opened + 1 \in Nat
BY TypeFacts

(* What add_fd is called for, and the frame for its last store.            *)
Cause(how) == how \in Callbacks \cup {""}

LEMMA NameOn ==
  ASSUME TypeOK, NEW fd \in Fds, fd \in DOMAIN ctx, NEW how, Cause(how),
         NEW s \in Seq(Frame)
  PROVE  LET f == NameFrame(fd, how)
         IN /\ <<f>> \o s \in Seq(Frame) /\ <<f>> \o s # <<>>
            /\ Head(<<f>> \o s) = f /\ Tail(<<f>> \o s) = s
            /\ Range(<<f>> \o s) = {f} \cup Range(s)
            /\ f.pc = "name" /\ f.fd = fd /\ f.sk = opened + 1 /\ f.how = how
<1> DEFINE f == NameFrame(fd, how)
<1>1. f.pc = "name" /\ f.fd = fd /\ f.sk = opened + 1 /\ f.how = how
  BY DEF NameFrame, F
<1> HIDE DEF f
<1>2. fd \in 0 .. MaxFds - 1 /\ opened + 1 \in Nat
  BY NextSocket
<1>3. f \in Frame
  BY <1>2 DEF NameFrame, F, Frame, Cause, f
<1>4. /\ <<f>> \o s \in Seq(Frame) /\ <<f>> \o s # <<>>
      /\ Head(<<f>> \o s) = f /\ Tail(<<f>> \o s) = s
      /\ Range(<<f>> \o s) = {f} \cup Range(s)
  BY <1>3, FrameOn
<1> QED
  BY <1>1, <1>4 DEF f

LEMMA HandlerReadsSteps ==
  ASSUME TypeOK, NEW t \in Trans, HandlerReads(t)
  PROVE  /\ At(t, "handler") /\ UNCHANGED <<round, stack>>
         /\ DataStep(t, Fd(t)) /\ Still(Fd(t))
<1>1. /\ At(t, "handler") /\ ctx' = [ctx EXCEPT ![Fd(t)].unread = FALSE]
      /\ UNCHANGED <<sock, opened, interest, seq, known, round, stack>>
  BY DEF HandlerReads
<1> QED
  BY <1>1, UnreadStep

-----------------------------------------------------------------------------
(* The actions that use a context, by which a thread may stray.            *)
Touching(t) ==
  \/ EdaCallback(t) \/ EndConnection(t) \/ HandlerClose(t) \/ NameContext(t)
  \/ \E id \in known[t] : UserClose(t, id) \/ \E n \in 1 .. MaxBytes : Send(t, id, n)

LEMMA TouchingStep ==
  ASSUME TypeOK, NEW t \in Trans, Touching(t)
  PROVE  ThreadStep(t)
<1>1. TypeOK
  OBVIOUS
<1>2. CASE EdaCallback(t)
  <2> DEFINE e == Head(round[t])
  <2>1. /\ round[t] # <<>> /\ round' = [round EXCEPT ![t] = Tail(round[t])] /\ EventStep(t)
    BY <1>1, <1>2, EventSteps
  <2>2. round' \in [Trans -> Seq(Event)]
    BY <1>1, <2>1, EventFacts DEF TypeOK
  <2>3. e.fd \in Fds \cup {-1} /\ e.sk \in Nat
    BY <1>1, <2>1, EventFacts
  <2>4. /\ ReadPart(t) \in Seq(Frame)
        /\ Callback(e.fd, e.sk, "sent") \o ReadPart(t) \in Seq(Frame)
        /\ Callback(e.fd, e.sk, "closed") \o stack[t] \in Seq(Frame)
        /\ Callback(e.fd, e.sk, "closed") \o ReadPart(t) \in Seq(Frame)
    BY <1>1, <2>1, EventOnFacts DEF EventOn
  <2> HIDE DEF e
  <2>5. ASSUME NEW s \in {stack[t], ReadPart(t)}
        PROVE  <<F("shut", e.fd, e.sk, "")>> \o (Callback(e.fd, e.sk, "closed") \o s) \in Seq(Frame)
    <3> DEFINE c == Callback(e.fd, e.sk, "closed") \o s  f == F("shut", e.fd, e.sk, "")
    <3>1. c \in Seq(Frame)
      BY <2>4
    <3>2. f \in Frame
      BY <2>3 DEF F, Frame
    <3> HIDE DEF c, f
    <3>3. <<f>> \o c \in Seq(Frame)
      BY <3>1, <3>2, FrameOn
    <3> QED
      BY <3>3 DEF c, f
  <2>6. TableStep(t)
    BY <2>1, <2>3 DEF EventStep, TableStep, e
  <2>7. \E s \in Seq(Frame) : Goto(t, s)
    BY <2>1, <2>4, <2>5 DEF EventStep, e
  <2> QED
    BY <2>2, <2>6, <2>7 DEF ThreadStep
<1>3. ASSUME NEW fd \in Fds \cup {-1}, NEW sk \in Nat, NEW s \in Seq(Frame),
             CloseStep(t, fd), Goto(t, <<F("shut", fd, sk, "")>> \o s), UNCHANGED round
      PROVE  ThreadStep(t)
  <2>1. <<F("shut", fd, sk, "")>> \o s \in Seq(Frame)
    BY ShutOn
  <2>2. round' \in [Trans -> Seq(Event)]
    BY <1>1, <1>3, StaysPut
  <2> QED
    BY <1>3, <2>1, <2>2 DEF ThreadStep, TableStep
<1> DEFINE fd == Fd(t)  sk == Head(stack[t]).sk
<1>4. stack[t] # <<>> => fd \in Fds \cup {-1} /\ sk \in Nat /\ Below(t) \in Seq(Frame)
  BY <1>1, HeadFacts
<1>5. CASE EndConnection(t)
  <2>1. /\ At(t, "end") /\ CloseStep(t, fd) /\ UNCHANGED round
        /\ Goto(t, <<F("shut", fd, sk, "")>> \o (Callback(fd, sk, "closed") \o Below(t)))
    BY <1>5, EndSteps
  <2>2. stack[t] # <<>>
    BY <2>1 DEF At
  <2> HIDE DEF fd, sk
  <2>3. Callback(fd, sk, "closed") \o Below(t) \in Seq(Frame)
    <3>1. "closed" \in Callbacks
      BY DEF Callbacks
    <3> QED
      BY <1>4, <2>2, <3>1, CallbackOn
  <2> QED
    BY <1>3, <1>4, <2>1, <2>2, <2>3
<1>6. CASE HandlerClose(t)
  <2>1. /\ At(t, "handler") /\ CloseStep(t, fd) /\ UNCHANGED round
        /\ Goto(t, <<F("shut", fd, sk, "")>>
                   \o (<<[Head(stack[t]) EXCEPT !.pc = "done"]>> \o Below(t)))
    BY <1>6, HandlerCloseSteps
  <2>2. stack[t] # <<>>
    BY <2>1 DEF At
  <2>3. <<[Head(stack[t]) EXCEPT !.pc = "done"]>> \o Below(t) \in Seq(Frame)
    BY <1>1, <2>2, DoneOn
  <2> HIDE DEF fd, sk
  <2> QED
    BY <1>3, <1>4, <2>1, <2>2, <2>3
<1>7. CASE NameContext(t)
  <2>1. /\ stack[t] # <<>> /\ UNCHANGED round
        /\ \/ Goto(t, Callback(fd, sk, "accepted") \o Below(t))
           \/ Goto(t, Below(t))
    BY <1>7, NameSteps
  <2> HIDE DEF fd, sk
  <2>2. Callback(fd, sk, "accepted") \o Below(t) \in Seq(Frame)
    <3>1. "accepted" \in Callbacks
      BY DEF Callbacks
    <3> QED
      BY <1>4, <2>1, <3>1, CallbackOn
  <2>3. round' \in [Trans -> Seq(Event)]
    BY <2>1, StaysPut
  <2> QED
    BY <1>4, <1>7, <2>1, <2>2, <2>3 DEF ThreadStep, TableStep
<1>8. ASSUME NEW id \in known[t], UserClose(t, id) PROVE ThreadStep(t)
  <2>1. /\ UNCHANGED round
        /\ \/ /\ CloseStep(t, id.fd) /\ Goto(t, <<F("shut", id.fd, id.sk, "")>> \o <<>>)
              /\ id.fd \in Fds \cup {-1} /\ id.sk \in Nat
           \/ Nothing /\ Goto(t, <<>>)
    BY <1>8, UserCloseSteps
  <2>2. CASE /\ CloseStep(t, id.fd) /\ Goto(t, <<F("shut", id.fd, id.sk, "")>> \o <<>>)
             /\ id.fd \in Fds \cup {-1} /\ id.sk \in Nat
    BY <1>3, <2>1, <2>2, StaysPut
  <2>3. CASE Nothing /\ Goto(t, <<>>)
    BY <2>1, <2>3, StaysPut DEF ThreadStep, TableStep
  <2> QED
    BY <2>1, <2>2, <2>3
<1>9. ASSUME NEW id \in known[t], NEW n \in 1 .. MaxBytes, Send(t, id, n) PROVE ThreadStep(t)
  <2>1. id.fd \in Fds \cup {-1} /\ DataStep(t, id.fd) /\ UNCHANGED <<round, stack>>
    BY <1>9, SendTypes
  <2> QED
    BY <2>1, StaysPut DEF ThreadStep, TableStep
<1> QED
  BY <1>2, <1>5, <1>6, <1>7, <1>8, <1>9 DEF Touching

LEMMA StrayedFacts ==
  ASSUME TypeOK, NEW t \in Trans, Touching(t)
  PROVE  strayed' \in BOOLEAN /\ (strayed => strayed')
<1>1. strayed \in BOOLEAN
  BY DEF TypeOK
<1> QED
  BY <1>1 DEF Touching, EdaCallback, EndConnection, HandlerClose, NameContext, UserClose, Send, Uses

(* The actions in which no thread can stray.                               *)
Quiet(t) ==
  \/ \E fd \in Fds, type \in Opens : Open(t, fd, type)
  \/ \E u \in Trans : \E id \in known[u] : Clone(t, id)
  \/ CloseSocket(t)
  \/ poll(t) \/ PollReturns(t) \/ Read(t) \/ Accept(t) \/ UdpRead(t)
  \/ HandlerReads(t) \/ HandlerReturns(t)

LEMMA QuietStep ==
  ASSUME TypeOK, NEW t \in Trans, Quiet(t)
  PROVE  ThreadStep(t)
<1>1. TypeOK
  OBVIOUS
<1>2. /\ UNCHANGED stack => \E s \in Seq(Frame) : Goto(t, s)
      /\ UNCHANGED round => round' \in [Trans -> Seq(Event)]
      /\ <<>> \in Seq(Frame)
  BY <1>1, StaysPut
<1>3. stack[t] # <<>> =>
        /\ Fd(t) \in Fds \cup {-1} /\ Head(stack[t]).sk \in Nat /\ Below(t) \in Seq(Frame)
  BY <1>1, HeadFacts
<1>4. \A pc : At(t, pc) => stack[t] # <<>>
  BY DEF At
<1>5. ASSUME NEW fd \in Fds, NEW type \in Types, NEW how, Cause(how),
             NewSocket(t, fd, type, how, stack[t])
      PROVE  ThreadStep(t)
  <2>1. /\ UNCHANGED round /\ fd < MaxFds
        /\ Goto(t, <<NameFrame(fd, how)>> \o stack[t])
    BY <1>5 DEF NewSocket, NameFrame
  <2>4. fd \in DOMAIN ctx
    <3>1. fd \in Nat /\ MaxFds \in Nat /\ DOMAIN ctx = 0 .. MaxFds - 1
      BY TransportAssumption, TypeFacts
    <3> QED
      BY <2>1, <3>1
  <2>2. <<NameFrame(fd, how)>> \o stack[t] \in Seq(Frame)
    BY <1>5, <2>4, StaysPut, NameOn
  <2>3. TableStep(t)
    BY <1>5 DEF TableStep
  <2> QED
    BY <1>2, <2>1, <2>2, <2>3 DEF ThreadStep
<1>6. ASSUME NEW u \in Trans, NEW id \in known[u], Clone(t, id) PROVE ThreadStep(t)
  BY <1>1, <1>2, <1>6, CloneSteps DEF ThreadStep, TableStep
<1>7. ASSUME NEW fd \in Fds, NEW type \in Opens, Open(t, fd, type) PROVE ThreadStep(t)
  <2>1. NewSocket(t, fd, type, "", stack[t]) /\ type \in Types /\ fd \in Fds
    BY <1>7, TransportAssumption DEF Open
  <2>2. Cause("")
    BY DEF Cause
  <2> QED
    BY <1>5, <2>1, <2>2
<1>9. CASE CloseSocket(t)
  BY <1>1, <1>2, <1>3, <1>4, <1>9, ShutSteps DEF ThreadStep, TableStep
<1>10. CASE poll(t)
  <2>1. /\ Nothing /\ Goto(t, <<F("event", -1, 0, "")>>) /\ <<F("event", -1, 0, "")>> \in Seq(Frame)
        /\ \E r \in Seq(Event) : round' = [round EXCEPT ![t] = r]
    BY <1>1, <1>10, PollFacts
  <2>2. round' \in [Trans -> Seq(Event)]
    BY <1>1, <2>1 DEF TypeOK
  <2> QED
    BY <2>1, <2>2 DEF ThreadStep, TableStep
<1>11. CASE PollReturns(t) \/ HandlerReturns(t)
  <2>1. stack[t] # <<>> /\ Goto(t, Below(t)) /\ Nothing /\ UNCHANGED round
    BY <1>4, <1>11 DEF PollReturns, HandlerReturns, Nothing
  <2> QED
    BY <1>2, <1>3, <2>1 DEF ThreadStep, TableStep
<1>12. CASE Read(t)
  <2>1. /\ At(t, "read") /\ UNCHANGED round /\ (Nothing \/ DataStep(t, Fd(t)))
        /\ \E s : ReadOn(t, s) /\ Goto(t, s)
    BY <1>1, <1>12, ReadSteps
  <2>2. stack[t] # <<>>
    BY <1>4, <2>1
  <2>3. \E s \in Seq(Frame) : Goto(t, s)
    BY <1>1, <2>1, <2>2, ReadOnFacts
  <2> QED
    BY <1>2, <1>3, <2>1, <2>2, <2>3 DEF ThreadStep, TableStep
<1>13. CASE Accept(t)
  <2>1. At(t, "accept") /\ stack[t] # <<>>
    BY <1>4, <1>13 DEF Accept
  <2>2. ASSUME NEW fd \in Fds, NewSocket(t, fd, "TCP_CONNECTION", "accepted", stack[t])
        PROVE  ThreadStep(t)
    <3>1. "TCP_CONNECTION" \in Types /\ Cause("accepted")
      BY DEF Types, Callbacks, Cause
    <3> QED
      BY <1>5, <2>2, <3>1
  <2>3. CASE Goto(t, Below(t)) /\ UNCHANGED <<sock, opened, interest, ctx, seq, known, round>>
    BY <1>2, <1>3, <2>1, <2>3 DEF ThreadStep, TableStep, Nothing
  <2> QED
    BY <1>13, <2>2, <2>3 DEF Accept
<1>14. CASE UdpRead(t)
  <2>1. /\ stack[t] # <<>> /\ stack[t] \in Seq(Frame) /\ Nothing /\ UNCHANGED round
        /\ \/ Goto(t, Callback(Fd(t), Head(stack[t]).sk, "udp") \o stack[t])
           \/ Goto(t, Below(t))
    BY <1>1, <1>4, <1>14 DEF UdpRead, TypeOK, Nothing
  <2> DEFINE fd == Fd(t)  sk == Head(stack[t]).sk
  <2>2. fd \in Fds \cup {-1} /\ sk \in Nat /\ "udp" \in Callbacks
    BY <1>3, <2>1 DEF Callbacks
  <2>3. Callback(fd, sk, "udp") \o stack[t] \in Seq(Frame)
    <3> HIDE DEF fd, sk
    <3> QED
      BY <2>1, <2>2, CallbackOn
  <2> QED
    BY <1>2, <1>3, <2>1, <2>3 DEF ThreadStep, TableStep
<1>15. CASE HandlerReads(t)
  <2>1. /\ stack[t] # <<>> /\ UNCHANGED <<round, stack>> /\ DataStep(t, Fd(t))
    BY <1>1, <1>4, <1>15, HandlerReadsSteps
  <2> QED
    BY <1>2, <1>3, <2>1 DEF ThreadStep, TableStep
<1> QED
  BY <1>6, <1>7, <1>9, <1>10, <1>11, <1>12, <1>13, <1>14, <1>15 DEF Quiet

LEMMA NextIs ==
  Next <=> \E t \in Trans : Touching(t) \/ (Quiet(t) /\ UNCHANGED strayed)
BY DEF Next, Touching, Quiet

LEMMA InitBase == Init => Base /\ StreamInv
<1> SUFFICES ASSUME Init PROVE Base /\ StreamInv
  OBVIOUS
<1>1. NoContext \in Context
  <2>1. <<>> \in Seq(Nat) /\ -1 \in -1 .. SeqLimit - 1
    BY TransportAssumption
  <2> QED
    BY <2>1 DEF NoContext, Context
<1>2. NoContext.seq = -1 /\ NoContext.write_buf = <<>> /\ ~NoContext.unread
  BY DEF NoContext
<1>3. \A fd \in DOMAIN ctx : ctx[fd] = NoContext
  BY DEF Init
<1>4. TypeOK
  <2>1. /\ sock \in [Fds -> Nat] /\ opened \in 0 .. MaxOpens
        /\ interest \in [Trans -> [Fds -> SUBSET {"r", "w"}]]
        /\ seq \in [Trans -> 0 .. SeqLimit - 1] /\ known \in [Trans -> SUBSET Id]
        /\ strayed \in BOOLEAN
    <3>1. 0 \in 0 .. SeqLimit - 1 /\ 0 \in 0 .. MaxOpens
      BY TransportAssumption
    <3>2. seq \in [Trans -> 0 .. SeqLimit - 1] /\ opened \in 0 .. MaxOpens
      BY <3>1 DEF Init
    <3>3. sock \in [Fds -> Nat] /\ strayed \in BOOLEAN /\ known \in [Trans -> SUBSET Id]
      BY DEF Init
    <3>4. interest \in [Trans -> [Fds -> SUBSET {"r", "w"}]]
      BY DEF Init
    <3> QED
      BY <3>2, <3>3, <3>4
  <2>2. round \in [Trans -> Seq(Event)] /\ stack \in [Trans -> Seq(Frame)]
    BY DEF Init
  <2>3. /\ ctx \in [0 .. MaxFds - 1 -> Context]
        /\ \A fd \in DOMAIN ctx : ctx[fd].seq = -1 => ctx[fd].write_buf = <<>> /\ ~ctx[fd].unread
    <3>1. ctx = [fd \in 0 .. MaxFds - 1 |-> NoContext]
      BY DEF Init
    <3> QED
      BY <1>1, <1>2, <3>1
  <2> QED
    BY <2>1, <2>2, <2>3 DEF TypeOK
<1>5. KnownInv
  <2>1. opened = 0 /\ (\A t \in Trans : seq[t] = 0 /\ known[t] = {}) /\ NoContext.sk = 0
    BY DEF Init, NoContext
  <2>2. \A fd \in DOMAIN ctx : ctx[fd].sk = 0 /\ ~InUse(fd)
    BY <1>2, <1>3, <2>1 DEF InUse
  <2> QED
    BY <2>1, <2>2 DEF KnownInv, Numbered
<1>6. StreamInv
  BY <1>2, <1>3 DEF StreamInv, StreamOK
<1> QED
  BY <1>4, <1>5, <1>6 DEF Base

LEMMA TypeNext ==
  ASSUME TypeOK, [Next]_vars
  PROVE  TypeOK' /\ (strayed => strayed')
<1>1. CASE UNCHANGED vars
  BY <1>1 DEF vars, TypeOK
<1>2. ASSUME NEW t \in Trans, Touching(t)
      PROVE  TypeOK' /\ (strayed => strayed')
  BY <1>2, TouchingStep, StrayedFacts, StepTyped
<1>3. ASSUME NEW t \in Trans, Quiet(t), UNCHANGED strayed
      PROVE  TypeOK' /\ (strayed => strayed')
  <2>1. strayed' \in BOOLEAN
    BY <1>3 DEF TypeOK
  <2> QED
    BY <1>3, <2>1, QuietStep, StepTyped
<1> QED
  BY <1>1, <1>2, <1>3, NextIs

(* Everything keeps its type, whatever the threads stray into and by       *)
(* whatever ids the users call.                                            *)
THEOREM TypeCorrect == Spec => []TypeOK
<1>1. Init => TypeOK
  BY InitBase DEF Base
<1>2. TypeOK /\ [Next]_vars => TypeOK'
  BY TypeNext
<1> QED
  BY <1>1, <1>2, PTL DEF Spec

-----------------------------------------------------------------------------
(* While nobody has strayed                                                *)

(* What thread t has to do for fd and the socket sk is about a connection  *)
(* of its own, or about a socket that fd does not name any more.           *)
Mine(t, fd, sk) ==
  /\ fd \in Fds /\ fd \in DOMAIN ctx /\ sk \in 1 .. opened
  /\ ctx[fd].sk = sk /\ ctx[fd].type = TCP => ctx[fd].by = t

GoodFrame(t, f) ==
  /\ f.pc # "shut" /\ (f.pc # "event" => Mine(t, f.fd, f.sk))
  /\ f.pc = "name" /\ ctx[f.fd].sk = f.sk => ctx[f.fd].by = t
GoodEvent(t, e) ==
  /\ Mine(t, e.fd, e.sk)
  /\ "w" \in e.mask /\ ctx[e.fd].sk = e.sk => ctx[e.fd].type = TCP

(* The frames a thread comes to when it has closed its socket.             *)
Rest(t) == IF At(t, "shut") THEN Below(t) ELSE stack[t]
FramesInv == \A t \in Trans : \A f \in Range(Rest(t)) : GoodFrame(t, f)
RoundInv == \A t \in Trans : \A e \in Range(round[t]) : GoodEvent(t, e)

ShutAt(t, fd) == At(t, "shut") /\ Fd(t) = fd

FdOK(fd) ==
  /\ sock[fd] <= opened
  /\ sock[fd] = 0 => \A t \in Trans : interest[t][fd] = {}
  /\ sock[fd] # 0 => fd \in DOMAIN ctx /\ (InUse(fd) \/ \E t \in Trans : ShutAt(t, fd))
  /\ \A t \in Trans :
       /\ "w" \in interest[t][fd] => ctx[fd].type = TCP
       /\ interest[t][fd] # {} /\ ctx[fd].type = TCP => ctx[fd].by = t
ContextOK(fd) ==
  IF InUse(fd)
  THEN /\ fd \in Fds /\ ctx[fd].sk # 0 /\ sock[fd] = ctx[fd].sk
       /\ "r" \in interest[ctx[fd].by][fd]
       /\ ctx[fd].type = TCP =>
            (ctx[fd].write_buf # <<>> <=> "w" \in interest[ctx[fd].by][fd])
  ELSE ctx[fd].sk = 0 /\ ctx[fd].write_buf = <<>>
ShutOK(t, fd) ==
  /\ fd \in Fds /\ fd \in DOMAIN ctx /\ ~InUse(fd) /\ sock[fd] # 0
  /\ \A u \in Trans : ShutAt(u, fd) => u = t

TablesInv ==
  /\ \A fd \in Fds : FdOK(fd)
  /\ \A fd \in DOMAIN ctx : ContextOK(fd)
  /\ \A t \in Trans : \A fd \in Fds \cup {-1} : ShutAt(t, fd) => ShutOK(t, fd)

(* A context has another name than its owner's only before NameContext.    *)
NamesInv == \A fd \in DOMAIN ctx :
              InUse(fd) /\ ctx[fd].trans # ctx[fd].by => BeingNamed(fd)

Matched == TablesInv /\ FramesInv /\ RoundInv /\ NamesInv

(* A context is not taken for another one of its descriptor.               *)
Fates ==
  /\ DOMAIN ctx' = DOMAIN ctx
  /\ opened \in Nat /\ opened' \in Nat /\ opened <= opened'
  /\ \A g \in DOMAIN ctx :
       \/ ctx'[g].sk = ctx[g].sk /\ ctx'[g].type = ctx[g].type /\ ctx'[g].by = ctx[g].by
       \/ ctx'[g].sk = 0
       \/ ctx'[g].sk = opened + 1

LEMMA FatesKept ==
  ASSUME TypeOK, Kept, UNCHANGED opened
  PROVE  Fates
BY TypeFacts DEF Kept, Moved, Fates

LEMMA FatesNew ==
  ASSUME Base, NEW t \in Trans, NEW fd \in Fds, NEW type \in Types, NEW how, NEW s,
         NewSocket(t, fd, type, how, s)
  PROVE  Fates
<1> DEFINE c == NewContext(t, fd, type)
<1>1. opened \in Nat /\ Added(t, fd, type) /\ fd \in DOMAIN ctx /\ TypeOK
  BY NewEffect DEF Base
<1>2. IsNew(t, fd, type, c)
  BY <1>1, NewContextFacts
<1>3. ctx' = [ctx EXCEPT ![fd] = c] /\ opened' = opened + 1
  BY <1>1 DEF Added
<1> HIDE DEF c
<1>4. c.sk = opened + 1
  BY <1>2 DEF IsNew
<1> QED
  BY <1>1, <1>3, <1>4 DEF Fates

LEMMA MineStays ==
  ASSUME Fates, NEW t, NEW fd, NEW sk, Mine(t, fd, sk)
  PROVE  Mine(t, fd, sk)'
<1>1. sk \in 1 .. opened /\ opened \in Nat /\ opened' \in Nat /\ opened <= opened'
      /\ fd \in Fds /\ fd \in DOMAIN ctx /\ fd \in DOMAIN ctx'
  BY DEF Mine, Fates
<1>2. sk \in 1 .. opened' /\ sk # 0 /\ sk # opened + 1
  BY <1>1
<1> QED
  BY <1>1, <1>2 DEF Mine, Fates

LEMMA FrameStays ==
  ASSUME Fates, NEW t, NEW f, GoodFrame(t, f)
  PROVE  GoodFrame(t, f)'
<1>1. f.pc # "shut" /\ (f.pc # "event" => Mine(t, f.fd, f.sk) /\ Mine(t, f.fd, f.sk)')
  BY MineStays DEF GoodFrame
<1>2. f.pc = "name" => Mine(t, f.fd, f.sk)
  BY <1>1
<1>3. f.pc = "name" => f.sk # 0 /\ f.sk # opened + 1 /\ f.fd \in DOMAIN ctx
  BY <1>2 DEF Mine, Fates
<1>4. f.pc = "name" /\ ctx'[f.fd].sk = f.sk => ctx'[f.fd].by = t
  BY <1>3 DEF GoodFrame, Fates
<1> QED
  BY <1>1, <1>4 DEF GoodFrame

LEMMA EventStays ==
  ASSUME Fates, NEW t, NEW e, GoodEvent(t, e)
  PROVE  GoodEvent(t, e)'
<1>1. Mine(t, e.fd, e.sk) /\ Mine(t, e.fd, e.sk)'
  BY MineStays DEF GoodEvent
<1>2. e.sk # 0 /\ e.sk # opened + 1 /\ e.fd \in DOMAIN ctx
  BY <1>1 DEF Mine, Fates
<1> QED
  BY <1>1, <1>2 DEF GoodEvent, Fates

(* Where a thread comes to.                                                *)
LEMMA Lands ==
  ASSUME TypeOK, NEW t \in Trans, NEW s \in Seq(Frame), Goto(t, s),
         \A f \in Range(s) : f.pc # "shut"
  PROVE  /\ ~At(t, "shut")' /\ Rest(t)' = s /\ stack'[t] = s
         /\ \A u \in Trans \ {t} : stack'[u] = stack[u]
<1>1. stack'[t] = s /\ \A u \in Trans \ {t} : stack'[u] = stack[u]
  BY DEF Goto, TypeOK
<1>2. s # <<>> => Head(s) \in Range(s)
  BY TailRange
<1>3. ~At(t, "shut")'
  BY <1>1, <1>2 DEF At
<1> QED
  BY <1>1, <1>3 DEF Rest

LEMMA LandsShut ==
  ASSUME TypeOK, NEW t \in Trans, NEW fd \in Fds \cup {-1}, NEW sk \in Nat, NEW s \in Seq(Frame),
         Goto(t, <<F("shut", fd, sk, "")>> \o s)
  PROVE  /\ At(t, "shut")' /\ Fd(t)' = fd /\ Rest(t)' = s
         /\ stack'[t] # <<>> /\ Head(stack'[t]).fd = fd /\ Head(stack'[t]).sk = sk
         /\ \A u \in Trans \ {t} : stack'[u] = stack[u]
<1> DEFINE f == F("shut", fd, sk, "")  c == <<f>> \o s
<1>1. c # <<>> /\ Head(c) = f /\ Tail(c) = s /\ f.pc = "shut" /\ f.fd = fd /\ f.sk = sk
  BY ShutOn
<1>2. stack'[t] = c /\ \A u \in Trans \ {t} : stack'[u] = stack[u]
  <2> HIDE DEF c
  <2>1. Goto(t, c)
    BY DEF c
  <2> QED
    BY <2>1 DEF Goto, TypeOK
<1> HIDE DEF c, f
<1>3. At(t, "shut")' /\ Fd(t)' = fd
  BY <1>1, <1>2 DEF At, Fd
<1> QED
  BY <1>1, <1>2, <1>3 DEF Rest, Below

(* The frames and events of the other threads stay good.                   *)
LEMMA ThreadsStay ==
  ASSUME FramesInv, RoundInv, Fates, NEW t \in Trans,
         \A u \in Trans \ {t} : stack'[u] = stack[u] /\ round'[u] = round[u],
         \A f \in Range(Rest(t)') : GoodFrame(t, f)',
         \A e \in Range(round'[t]) : GoodEvent(t, e)'
  PROVE  FramesInv' /\ RoundInv'
<1>1. ASSUME NEW u \in Trans, u # t
      PROVE  /\ \A f \in Range(Rest(u)') : GoodFrame(u, f)'
             /\ \A e \in Range(round'[u]) : GoodEvent(u, e)'
  <2>1. Rest(u)' = Rest(u) /\ round'[u] = round[u]
    BY <1>1 DEF Rest, At, Below
  <2>2. \A f \in Range(Rest(u)) : GoodFrame(u, f)'
    BY FrameStays DEF FramesInv
  <2>3. \A e \in Range(round[u]) : GoodEvent(u, e)'
    BY EventStays DEF RoundInv
  <2> QED
    BY <2>1, <2>2, <2>3
<1>2. FramesInv'
  BY <1>1 DEF FramesInv
<1>3. RoundInv'
  BY <1>1 DEF RoundInv
<1> QED
  BY <1>2, <1>3

(* The tables stay good: one lemma for each way they change.               *)
SameOthers(t) == \A u \in Trans \ {t} : stack'[u] = stack[u]

LEMMA OthersShut ==
  ASSUME NEW t, SameOthers(t)
  PROVE  \A u \in Trans \ {t} : \A fd : ShutAt(u, fd)' <=> ShutAt(u, fd)
BY DEF SameOthers, At, Fd, ShutAt

SameShuts == \A u \in Trans : \A fd : ShutAt(u, fd)' <=> ShutAt(u, fd)

LEMMA NoneShut ==
  ASSUME NEW t \in Trans, SameOthers(t), ~At(t, "shut"), ~At(t, "shut")'
  PROVE  SameShuts
BY OthersShut DEF ShutAt, SameShuts

SameIds(b, c) == c.type = b.type /\ c.seq = b.seq /\ c.by = b.by /\ c.sk = b.sk

LEMMA TablesSame ==
  ASSUME TablesInv, SameShuts, UNCHANGED <<sock, opened, interest>>,
         DOMAIN ctx' = DOMAIN ctx,
         \A g \in DOMAIN ctx : /\ SameIds(ctx[g], ctx'[g])
                               /\ ctx'[g].write_buf = <<>> <=> ctx[g].write_buf = <<>>
  PROVE  TablesInv'
<1>1. \A g \in DOMAIN ctx : InUse(g)' <=> InUse(g)
  BY DEF InUse, SameIds
<1>2. ASSUME NEW fd \in Fds PROVE FdOK(fd)'
  <2>1. FdOK(fd)
    BY DEF TablesInv
  <2>2. sock'[fd] <= opened' /\ (sock'[fd] = 0 => \A t \in Trans : interest'[t][fd] = {})
    BY <2>1 DEF FdOK
  <2>3. sock'[fd] # 0 => fd \in DOMAIN ctx' /\ (InUse(fd)' \/ \E t \in Trans : ShutAt(t, fd)')
    BY <1>1, <2>1 DEF FdOK, SameShuts
  <2>4. fd \in DOMAIN ctx \/ sock[fd] = 0
    BY <2>1 DEF FdOK
  <2>5. ASSUME NEW t \in Trans
        PROVE  /\ "w" \in interest'[t][fd] => ctx'[fd].type = TCP
               /\ interest'[t][fd] # {} /\ ctx'[fd].type = TCP => ctx'[fd].by = t
    BY <2>1, <2>4 DEF FdOK, SameIds
  <2> QED
    BY <2>2, <2>3, <2>5 DEF FdOK
<1>3. ASSUME NEW fd \in DOMAIN ctx' PROVE ContextOK(fd)'
  <2>1. ContextOK(fd) /\ fd \in DOMAIN ctx
    BY DEF TablesInv
  <2> QED
    BY <1>1, <2>1 DEF ContextOK, SameIds
<1>4. ASSUME NEW t \in Trans, NEW fd \in Fds \cup {-1}, ShutAt(t, fd)' PROVE ShutOK(t, fd)'
  <2>1. ShutOK(t, fd)
    BY <1>4 DEF TablesInv, SameShuts
  <2> QED
    BY <1>1, <2>1 DEF ShutOK, SameShuts
<1> QED
  BY <1>2, <1>3, <1>4 DEF TablesInv

LEMMA TablesToggle ==
  ASSUME TypeOK, TablesInv, SameShuts, UNCHANGED <<sock, opened>>,
         DOMAIN ctx' = DOMAIN ctx,
         NEW t \in Trans, NEW fd \in Fds, fd \in DOMAIN ctx, InUse(fd),
         ctx[fd].type = TCP, ctx[fd].by = t,
         \A g \in DOMAIN ctx : g # fd => ctx'[g] = ctx[g],
         SameIds(ctx[fd], ctx'[fd]),
         NEW m \in {{"r"}, {"r", "w"}},
         interest' = [interest EXCEPT ![t][fd] = m],
         ctx'[fd].write_buf = <<>> <=> "w" \notin m
  PROVE  TablesInv'
<1>1. \A g \in DOMAIN ctx : (InUse(g)' <=> InUse(g)) /\ SameIds(ctx[g], ctx'[g])
  BY DEF InUse, SameIds
<1>2. \A u \in Trans, g \in Fds : interest'[u][g] = IF u = t /\ g = fd THEN m ELSE interest[u][g]
  BY DEF TypeOK
<1>3. sock[fd] # 0 /\ ContextOK(fd)
  BY DEF TablesInv, ContextOK
<1>4. ASSUME NEW g \in Fds PROVE FdOK(g)'
  <2>1. FdOK(g)
    BY DEF TablesInv
  <2>2. sock'[g] <= opened' /\ (sock'[g] = 0 => \A u \in Trans : interest'[u][g] = {})
    BY <1>2, <1>3, <2>1 DEF FdOK
  <2>3. sock'[g] # 0 => g \in DOMAIN ctx' /\ (InUse(g)' \/ \E u \in Trans : ShutAt(u, g)')
    BY <1>1, <2>1 DEF FdOK, SameShuts
  <2>4. g \in DOMAIN ctx \/ sock[g] = 0
    BY <2>1 DEF FdOK
  <2>5. ASSUME NEW u \in Trans
        PROVE  /\ "w" \in interest'[u][g] => ctx'[g].type = TCP
               /\ interest'[u][g] # {} /\ ctx'[g].type = TCP => ctx'[g].by = u
    <3>1. CASE u = t /\ g = fd
      BY <1>1, <3>1 DEF SameIds
    <3>2. CASE ~(u = t /\ g = fd)
      <4>1. interest'[u][g] = interest[u][g]
        BY <1>2, <3>2
      <4> QED
        BY <1>1, <2>1, <2>4, <4>1 DEF FdOK, SameIds
    <3> QED
      BY <3>1, <3>2
  <2> QED
    BY <2>2, <2>3, <2>5 DEF FdOK
<1>5. ASSUME NEW g \in DOMAIN ctx' PROVE ContextOK(g)'
  <2>1. ContextOK(g) /\ g \in DOMAIN ctx
    BY DEF TablesInv
  <2>2. CASE g = fd
    <3>1. interest'[ctx'[g].by][g] = m /\ InUse(g)'
      BY <1>1, <1>2, <2>2 DEF SameIds
    <3>2. /\ g \in Fds /\ ctx'[g].sk # 0 /\ sock'[g] = ctx'[g].sk
          /\ "r" \in m /\ (ctx'[g].write_buf # <<>> <=> "w" \in m)
      BY <1>1, <1>3, <2>2 DEF SameIds, ContextOK
    <3> QED
      BY <3>1, <3>2 DEF ContextOK
  <2>3. CASE g # fd
    <3>1. ctx'[g] = ctx[g] /\ (InUse(g)' <=> InUse(g))
      BY <1>1, <2>1, <2>3
    <3>2. g \in Fds => \A u \in Trans : interest'[u][g] = interest[u][g]
      BY <1>2, <2>3
    <3>3. interest'[ctx[g].by][g] = interest[ctx[g].by][g]
      BY <2>3 DEF TypeOK
    <3> QED
      BY <2>1, <3>1, <3>3 DEF ContextOK
  <2> QED
    BY <2>2, <2>3
<1>6. ASSUME NEW u \in Trans, NEW g \in Fds \cup {-1}, ShutAt(u, g)' PROVE ShutOK(u, g)'
  <2>1. ShutOK(u, g)
    BY <1>6 DEF TablesInv, SameShuts
  <2> QED
    BY <1>1, <2>1 DEF ShutOK, SameShuts
<1> QED
  BY <1>4, <1>5, <1>6 DEF TablesInv

(* The context of a free descriptor has no bytes, which NewSocket relies   *)
(* on: add_fd does not look at write_buf.                                  *)
LEMMA FreeIsEmpty ==
  ASSUME TypeOK, TablesInv, NEW fd \in DOMAIN ctx, fd \in Fds, sock[fd] = 0
  PROVE  ctx[fd].write_buf = <<>> /\ ~InUse(fd)
BY DEF TablesInv, ContextOK

LEMMA TablesNew ==
  ASSUME Base, TablesInv, SameShuts, NEW t \in Trans, NEW fd \in Fds, NEW type \in Types,
         NEW how, NEW s, NewSocket(t, fd, type, how, s)
  PROVE  TablesInv'
<1> DEFINE c == NewContext(t, fd, type)  k == opened + 1
<1>1. /\ fd \in DOMAIN ctx /\ sock[fd] = 0 /\ opened \in Nat /\ seq[t] \in Nat
      /\ seq[t] + 1 < SeqLimit /\ Added(t, fd, type) /\ TypeOK
  BY NewEffect DEF Base
<1>0. IsNew(t, fd, type, c)
  BY <1>1, NewContextFacts
<1>3. /\ ctx' = [ctx EXCEPT ![fd] = c] /\ opened' = k
      /\ sock' = [sock EXCEPT ![fd] = k] /\ interest' = [interest EXCEPT ![t][fd] = {"r"}]
  BY <1>1 DEF Added
<1>2. c.type = type /\ c.seq = seq[t] /\ c.by = t /\ c.sk = k /\ c.write_buf = <<>>
  <2>1. ctx[fd].write_buf = <<>>
    BY <1>1, FreeIsEmpty
  <2> HIDE DEF c
  <2> QED
    BY <1>0, <2>1 DEF IsNew
<1>4. k \in Nat /\ k # 0 /\ opened <= k
  BY <1>1
<1> HIDE DEF c, k
<1>5. \A u \in Trans, g \in Fds : interest'[u][g] = IF u = t /\ g = fd THEN {"r"} ELSE interest[u][g]
  BY <1>1, <1>3 DEF TypeOK
<1>6. /\ DOMAIN ctx' = DOMAIN ctx /\ ctx'[fd] = c /\ InUse(fd)'
      /\ \A g \in DOMAIN ctx : g # fd => ctx'[g] = ctx[g] /\ (InUse(g)' <=> InUse(g))
  BY <1>1, <1>2, <1>3 DEF InUse
<1>7. sock'[fd] = k /\ \A g \in Fds : sock[g] \in Nat /\ (g # fd => sock'[g] = sock[g])
  BY <1>1, <1>3 DEF TypeOK
<1>8. \A u \in Trans : interest[u][fd] = {}
  BY <1>1 DEF TablesInv, FdOK
<1>9. ASSUME NEW g \in Fds PROVE FdOK(g)'
  <2>1. FdOK(g)
    BY DEF TablesInv
  <2>2. CASE g = fd
    <3>1. \A u \in Trans : interest'[u][g] = IF u = t THEN {"r"} ELSE {}
      BY <1>5, <1>8, <2>2
    <3> QED
      BY <1>1, <1>2, <1>3, <1>4, <1>6, <1>7, <2>2, <3>1 DEF FdOK
  <2>3. CASE g # fd
    <3>1. sock'[g] = sock[g] /\ \A u \in Trans : interest'[u][g] = interest[u][g]
      BY <1>5, <1>7, <2>3
    <3>2. sock'[g] <= opened'
      BY <1>1, <1>3, <1>4, <1>7, <2>1, <3>1 DEF FdOK
    <3>3. g \in DOMAIN ctx \/ sock[g] = 0
      BY <2>1 DEF FdOK
    <3>4. sock'[g] = 0 => \A u \in Trans : interest'[u][g] = {}
      BY <2>1, <3>1 DEF FdOK
    <3>5. sock'[g] # 0 => g \in DOMAIN ctx' /\ (InUse(g)' \/ \E u \in Trans : ShutAt(u, g)')
      BY <1>6, <2>1, <2>3, <3>1 DEF FdOK, SameShuts
    <3>6. ASSUME NEW u \in Trans
          PROVE  /\ "w" \in interest'[u][g] => ctx'[g].type = TCP
                 /\ interest'[u][g] # {} /\ ctx'[g].type = TCP => ctx'[g].by = u
      <4>1. CASE g \in DOMAIN ctx
        BY <1>6, <2>1, <2>3, <3>1, <4>1 DEF FdOK
      <4>2. CASE sock[g] = 0
        BY <2>1, <3>1, <4>2 DEF FdOK
      <4> QED
        BY <3>3, <4>1, <4>2
    <3> QED
      BY <3>2, <3>4, <3>5, <3>6 DEF FdOK
  <2> QED
    BY <2>2, <2>3
<1>10. ASSUME NEW g \in DOMAIN ctx' PROVE ContextOK(g)'
  <2>1. ContextOK(g) /\ g \in DOMAIN ctx
    BY <1>6 DEF TablesInv
  <2>2. CASE g = fd
    <3>1. interest'[ctx'[g].by][g] = {"r"}
      BY <1>2, <1>5, <1>6, <2>2
    <3> QED
      BY <1>2, <1>4, <1>6, <1>7, <2>2, <3>1 DEF ContextOK
  <2>3. CASE g # fd
    <3>1. interest'[ctx[g].by][g] = interest[ctx[g].by][g]
      BY <1>1, <1>3, <2>3 DEF TypeOK
    <3>2. g \in Fds => sock'[g] = sock[g]
      BY <1>7, <2>3
    <3> QED
      BY <1>6, <2>1, <2>3, <3>1, <3>2 DEF ContextOK
  <2> QED
    BY <2>2, <2>3
<1>11. ASSUME NEW u \in Trans, NEW g \in Fds \cup {-1}, ShutAt(u, g)' PROVE ShutOK(u, g)'
  <2>1. ShutOK(u, g)
    BY <1>11 DEF TablesInv, SameShuts
  <2>2. g # fd
    BY <1>1, <2>1 DEF ShutOK
  <2> QED
    BY <1>6, <1>7, <2>1, <2>2 DEF ShutOK, SameShuts
<1> QED
  BY <1>9, <1>10, <1>11 DEF TablesInv

LEMMA TablesClone ==
  ASSUME TypeOK, TablesInv, SameShuts, NEW t \in Trans, NEW id, Clone(t, id),
         NEW fd \in Fds, fd = id.fd
  PROVE  TablesInv'
<1>1. /\ ctx[fd].type \in {"TCP_LISTEN", "UDP_BIND"} /\ sock[fd] # 0
      /\ interest' = [interest EXCEPT ![t][fd] = {"r"}] /\ UNCHANGED <<sock, opened, ctx>>
  BY DEF Clone
<1>2. \A u \in Trans, g \in Fds : interest'[u][g] = IF u = t /\ g = fd THEN {"r"} ELSE interest[u][g]
  BY <1>1 DEF TypeOK
<1>3. ctx[fd].type # TCP
  BY <1>1 DEF TCP
<1>4. \A g : InUse(g)' <=> InUse(g)
  BY <1>1 DEF InUse
<1>5. ASSUME NEW g \in Fds PROVE FdOK(g)'
  <2>1. FdOK(g)
    BY DEF TablesInv
  <2>2. CASE g = fd
    BY <1>1, <1>2, <1>3, <1>4, <2>1, <2>2 DEF FdOK, SameShuts
  <2>3. CASE g # fd
    <3>1. \A u \in Trans : interest'[u][g] = interest[u][g]
      BY <1>2, <2>3
    <3> QED
      BY <1>1, <1>4, <2>1, <3>1 DEF FdOK, SameShuts
  <2> QED
    BY <2>2, <2>3
<1>6. ASSUME NEW g \in DOMAIN ctx' PROVE ContextOK(g)'
  <2>1. ContextOK(g)
    BY <1>1 DEF TablesInv
  <2>2. "r" \in interest[ctx[g].by][g] => "r" \in interest'[ctx[g].by][g]
    <3>1. interest'[ctx[g].by][g] \in {interest[ctx[g].by][g], {"r"}}
      BY <1>1 DEF TypeOK
    <3> QED
      BY <3>1
  <2>3. ctx[g].type = TCP => interest'[ctx[g].by][g] = interest[ctx[g].by][g]
    BY <1>1, <1>3 DEF TypeOK
  <2> QED
    BY <1>1, <1>4, <2>1, <2>2, <2>3 DEF ContextOK
<1>7. ASSUME NEW u \in Trans, NEW g \in Fds \cup {-1}, ShutAt(u, g)' PROVE ShutOK(u, g)'
  <2>1. ShutOK(u, g)
    BY <1>7 DEF TablesInv, SameShuts
  <2> QED
    BY <1>1, <1>4, <2>1 DEF ShutOK, SameShuts
<1> QED
  BY <1>5, <1>6, <1>7 DEF TablesInv

LEMMA TablesClose ==
  ASSUME TypeOK, TablesInv, NEW t \in Trans, NEW fd \in Fds, fd \in DOMAIN ctx, InUse(fd),
         CloseStep(t, fd), SameOthers(t), ~At(t, "shut"), At(t, "shut")', Fd(t)' = fd
  PROVE  TablesInv'
<1> DEFINE c == Cleared(fd)
<1>1. /\ c.type = ctx[fd].type /\ c.by = ctx[fd].by /\ c.seq = -1 /\ c.sk = 0
      /\ c.write_buf = <<>>
  BY ClearedFacts
<1>2. /\ interest' = [interest EXCEPT ![t][fd] = {}] /\ ctx' = [ctx EXCEPT ![fd] = c]
      /\ UNCHANGED <<sock, opened>>
  BY DEF CloseStep, Closed
<1> HIDE DEF c
<1>3. \A u \in Trans, g \in Fds : interest'[u][g] = IF u = t /\ g = fd THEN {} ELSE interest[u][g]
  BY <1>2 DEF TypeOK
<1>4. /\ DOMAIN ctx' = DOMAIN ctx /\ ctx'[fd] = c /\ ~InUse(fd)'
      /\ \A g \in DOMAIN ctx : g # fd => ctx'[g] = ctx[g] /\ (InUse(g)' <=> InUse(g))
  BY <1>1, <1>2 DEF InUse
<1>5. /\ \A u \in Trans \ {t} : \A g : ShutAt(u, g)' <=> ShutAt(u, g)
      /\ \A g : ShutAt(t, g)' <=> g = fd
      /\ \A g : ~ShutAt(t, g)
  BY OthersShut DEF ShutAt
<1>6. /\ sock[fd] # 0 /\ \A u \in Trans : ~ShutAt(u, fd)
  BY DEF TablesInv, ContextOK, ShutOK
<1>7. ASSUME NEW g \in Fds PROVE FdOK(g)'
  <2>1. FdOK(g)
    BY DEF TablesInv
  <2>2. \A u \in Trans : interest'[u][g] \subseteq interest[u][g]
    BY <1>3
  <2>3. sock'[g] <= opened' /\ (sock'[g] = 0 => \A u \in Trans : interest'[u][g] = {})
    BY <1>2, <2>1, <2>2 DEF FdOK
  <2>4. g \in DOMAIN ctx \/ sock[g] = 0
    BY <2>1 DEF FdOK
  <2>5. sock'[g] # 0 => g \in DOMAIN ctx' /\ (InUse(g)' \/ \E u \in Trans : ShutAt(u, g)')
    <3>1. CASE g = fd
      BY <1>4, <1>5, <3>1
    <3>2. CASE g # fd
      <4>1. \A u \in Trans : ShutAt(u, g) => ShutAt(u, g)'
        BY <1>5
      <4> QED
        BY <1>2, <1>4, <2>1, <3>2, <4>1 DEF FdOK
    <3> QED
      BY <3>1, <3>2
  <2>6. g \in DOMAIN ctx => ctx'[g].type = ctx[g].type /\ ctx'[g].by = ctx[g].by
    BY <1>1, <1>4
  <2>7. ASSUME NEW u \in Trans
        PROVE  /\ "w" \in interest'[u][g] => ctx'[g].type = TCP
               /\ interest'[u][g] # {} /\ ctx'[g].type = TCP => ctx'[g].by = u
    <3>1. CASE g \in DOMAIN ctx
      BY <2>1, <2>2, <2>6, <3>1 DEF FdOK
    <3>2. CASE sock[g] = 0
      BY <2>1, <2>2, <3>2 DEF FdOK
    <3> QED
      BY <2>4, <3>1, <3>2
  <2> QED
    BY <2>3, <2>5, <2>7 DEF FdOK
<1>8. ASSUME NEW g \in DOMAIN ctx' PROVE ContextOK(g)'
  <2>1. ContextOK(g) /\ g \in DOMAIN ctx
    BY <1>4 DEF TablesInv
  <2>2. CASE g = fd
    BY <1>1, <1>4, <2>2 DEF ContextOK
  <2>3. CASE g # fd
    <3>1. interest'[ctx[g].by][g] = interest[ctx[g].by][g]
      BY <1>2, <2>3 DEF TypeOK
    <3> QED
      BY <1>2, <1>4, <2>1, <2>3, <3>1 DEF ContextOK
  <2> QED
    BY <2>2, <2>3
<1>9. ASSUME NEW u \in Trans, NEW g \in Fds \cup {-1}, ShutAt(u, g)' PROVE ShutOK(u, g)'
  <2>1. CASE u = t
    <3>1. g = fd /\ \A v \in Trans : ShutAt(v, fd)' => v = t
      BY <1>5, <1>6, <1>9, <2>1
    <3> QED
      BY <1>2, <1>4, <1>6, <2>1, <3>1 DEF ShutOK
  <2>2. CASE u # t
    <3>1. ShutOK(u, g) /\ ShutAt(u, g)
      BY <1>5, <1>9, <2>2 DEF TablesInv
    <3>2. g # fd
      BY <1>6, <3>1
    <3>3. \A v \in Trans : ShutAt(v, g)' => v = u
      BY <1>5, <3>1, <3>2 DEF ShutOK
    <3> QED
      BY <1>2, <1>4, <3>1, <3>2, <3>3 DEF ShutOK
  <2> QED
    BY <2>1, <2>2
<1> QED
  BY <1>7, <1>8, <1>9 DEF TablesInv

LEMMA TablesShut ==
  ASSUME Base, TablesInv, NEW t \in Trans, CloseSocket(t), SameOthers(t), ~At(t, "shut")'
  PROVE  TablesInv'
<1> DEFINE fd == Fd(t)
<1> TypeOK /\ KnownInv
  BY DEF Base
<1>1. /\ At(t, "shut") /\ sock' = [sock EXCEPT ![fd] = 0]
      /\ interest' = [u \in Trans |-> [interest[u] EXCEPT ![fd] = {}]]
      /\ UNCHANGED <<opened, ctx>>
  BY DEF CloseSocket
<1>2. ShutAt(t, fd) /\ fd \in Fds \cup {-1}
  <2>1. stack[t] # <<>>
    BY <1>1 DEF At
  <2> QED
    BY <1>1, <2>1, HeadFacts DEF ShutAt
<1> HIDE DEF fd
<1>3. fd \in Fds /\ fd \in DOMAIN ctx /\ ~InUse(fd) /\ \A u \in Trans : ShutAt(u, fd) => u = t
  BY <1>2 DEF TablesInv, ShutOK
<1>4. /\ \A u \in Trans \ {t} : \A g : ShutAt(u, g)' <=> ShutAt(u, g)
      /\ \A g : ~ShutAt(t, g)'
      /\ \A g : ShutAt(t, g) => g = fd
  BY <1>2, OthersShut DEF ShutAt
<1>5. /\ sock'[fd] = 0
      /\ \A g \in Fds : g # fd => sock'[g] = sock[g]
      /\ \A u \in Trans, g \in Fds : interest'[u][g] = IF g = fd THEN {} ELSE interest[u][g]
      /\ opened \in Nat
  BY <1>1, <1>3, TypeFacts DEF TypeOK
<1>6. \A g : InUse(g)' <=> InUse(g)
  BY <1>1 DEF InUse
<1>7. ASSUME NEW g \in Fds PROVE FdOK(g)'
  <2>1. FdOK(g)
    BY DEF TablesInv
  <2>2. CASE g = fd
    BY <1>1, <1>5, <2>2 DEF FdOK
  <2>3. CASE g # fd
    <3>1. \A u \in Trans : ShutAt(u, g) => ShutAt(u, g)'
      BY <1>4, <2>3
    <3>2. sock'[g] = sock[g] /\ \A u \in Trans : interest'[u][g] = interest[u][g]
      BY <1>5, <2>3
    <3> QED
      BY <1>1, <1>6, <2>1, <3>1, <3>2 DEF FdOK
  <2> QED
    BY <2>2, <2>3
<1>8. ASSUME NEW g \in DOMAIN ctx' PROVE ContextOK(g)'
  <2>1. ContextOK(g)
    BY <1>1 DEF TablesInv
  <2>2. CASE ~InUse(g)
    BY <1>1, <1>6, <2>1, <2>2 DEF ContextOK
  <2>3. CASE InUse(g)
    <3>1. g # fd /\ g \in Fds
      BY <1>3, <2>1, <2>3 DEF ContextOK
    <3>2. sock'[g] = sock[g]
      BY <1>5, <3>1
    <3>3. \A u \in Trans : interest'[u][g] = interest[u][g]
      BY <1>5, <3>1
    <3>4. ctx[g].by \in Trans
      BY <1>1, <2>3 DEF KnownInv, Numbered
    <3> QED
      BY <1>1, <1>6, <2>1, <2>3, <3>2, <3>3, <3>4 DEF ContextOK
  <2> QED
    BY <2>2, <2>3
<1>9. ASSUME NEW u \in Trans, NEW g \in Fds \cup {-1}, ShutAt(u, g)' PROVE ShutOK(u, g)'
  <2>1. u # t /\ ShutAt(u, g) /\ ShutOK(u, g)
    BY <1>4, <1>9 DEF TablesInv
  <2>2. g # fd
    BY <1>3, <2>1
  <2>3. \A v \in Trans : ShutAt(v, g)' => v = u
    BY <1>4, <2>1 DEF ShutOK
  <2> QED
    BY <1>1, <1>5, <1>6, <2>1, <2>2, <2>3 DEF ShutOK
<1> QED
  BY <1>7, <1>8, <1>9 DEF TablesInv

(* A thread that is not about to name a context leaves the names.          *)
Ready(t) == ~At(t, "shut") /\ ~At(t, "name")

LEMMA NamesStay ==
  ASSUME NamesInv, NEW t \in Trans, SameOthers(t), ~At(t, "name"), Kept
  PROVE  NamesInv'
<1>1. ASSUME NEW fd \in DOMAIN ctx', InUse(fd)', ctx'[fd].trans # ctx'[fd].by
      PROVE  BeingNamed(fd)'
  <2>1. fd \in DOMAIN ctx /\ InUse(fd) /\ ctx[fd].trans # ctx[fd].by
    BY <1>1 DEF Kept, Moved, InUse
  <2>2. PICK u \in Trans : At(u, "name") /\ Fd(u) = fd
    BY <2>1 DEF NamesInv, BeingNamed
  <2>3. u # t /\ stack'[u] = stack[u]
    BY <2>2 DEF SameOthers
  <2> QED
    BY <2>2, <2>3 DEF BeingNamed, At, Fd
<1> QED
  BY <1>1 DEF NamesInv

(* A step from which t comes to the good frames s.                         *)
Good(t, s) == s \in Seq(Frame) /\ \A f \in Range(s) : GoodFrame(t, f)
GoodRound(t) == /\ \A u \in Trans \ {t} : round'[u] = round[u]
                /\ \A e \in Range(round'[t]) : GoodEvent(t, e)

LEMMA RoundKept ==
  ASSUME Matched, NEW t \in Trans, UNCHANGED round
  PROVE  GoodRound(t)
BY DEF GoodRound, Matched, RoundInv

LEMMA GoodStack ==
  ASSUME TypeOK, Matched, NEW t \in Trans
  PROVE  /\ ~At(t, "shut") => Good(t, stack[t])
         /\ At(t, "shut") => Good(t, Below(t))
<1>1. \A f \in Range(Rest(t)) : GoodFrame(t, f)
  BY DEF Matched, FramesInv
<1>2. stack[t] \in Seq(Frame) /\ (At(t, "shut") => Below(t) \in Seq(Frame))
  BY HeadFacts DEF TypeOK, At
<1> QED
  BY <1>1, <1>2 DEF Rest, Good

LEMMA GoodSub ==
  ASSUME NEW t, NEW s, Good(t, s), NEW r \in Seq(Frame), Range(r) \subseteq Range(s)
  PROVE  Good(t, r)
BY DEF Good

LEMMA Comes ==
  ASSUME TypeOK, Matched, NEW t \in Trans, ~At(t, "shut"), Fates, GoodRound(t),
         NEW s, Good(t, s)', Goto(t, s), s \in Seq(Frame)
  PROVE  FramesInv' /\ RoundInv' /\ SameShuts /\ SameOthers(t)
<1>1. \A f \in Range(s) : GoodFrame(t, f)'
  BY DEF Good
<1>2. \A f \in Range(s) : f.pc # "shut"
  BY <1>1 DEF GoodFrame
<1>3. /\ ~At(t, "shut")' /\ Rest(t)' = s /\ \A u \in Trans \ {t} : stack'[u] = stack[u]
  BY <1>2, Lands
<1>4. \A e \in Range(round'[t]) : GoodEvent(t, e)'
  BY EventStays DEF GoodRound
<1>5. FramesInv' /\ RoundInv'
  BY <1>1, <1>3, <1>4, ThreadsStay DEF Matched, GoodRound
<1>6. SameShuts /\ SameOthers(t)
  BY <1>3, NoneShut DEF SameOthers
<1> QED
  BY <1>5, <1>6

LEMMA GoodStays ==
  ASSUME Fates, NEW t, NEW s, Good(t, s)
  PROVE  Good(t, s)'
BY FrameStays DEF Good

LEMMA NothingMatched ==
  ASSUME Base, Matched, NEW t \in Trans, Ready(t), Nothing, GoodRound(t),
         NEW s, Good(t, s), Goto(t, s)
  PROVE  Matched'
<1>1. TypeOK
  BY DEF Base
<1>2. Fates /\ Kept
  BY <1>1, NothingKeeps, FatesKept DEF Nothing
<1>3. FramesInv' /\ RoundInv' /\ SameShuts /\ SameOthers(t)
  BY <1>1, <1>2, GoodStays, Comes DEF Good, Ready
<1>4. TablesInv'
  BY <1>3, TablesSame DEF Nothing, Matched, SameIds
<1>5. NamesInv'
  BY <1>2, <1>3, NamesStay DEF Matched, Ready
<1> QED
  BY <1>3, <1>4, <1>5 DEF Matched

LEMMA DataMatched ==
  ASSUME Base, Matched, NEW t \in Trans, Ready(t), GoodRound(t),
         NEW fd, DataStep(t, fd),
         \/ Still(fd)
         \/ fd \in Fds /\ fd \in DOMAIN ctx /\ InUse(fd) /\ ctx[fd].type = TCP /\ ctx[fd].by = t,
         NEW s, Good(t, s), Goto(t, s)
  PROVE  Matched'
<1>1. TypeOK
  BY DEF Base
<1>2. Fates /\ Kept
  BY <1>1, DataKeeps, FatesKept DEF DataStep
<1>3. FramesInv' /\ RoundInv' /\ SameShuts /\ SameOthers(t)
  BY <1>1, <1>2, GoodStays, Comes DEF Good, Ready
<1>4. /\ DOMAIN ctx' = DOMAIN ctx /\ UNCHANGED <<sock, opened>>
      /\ \A g \in DOMAIN ctx : g # fd => ctx'[g] = ctx[g]
      /\ fd \in DOMAIN ctx => SameIds(ctx[fd], ctx'[fd])
  BY DEF DataStep, Data, Moved, SameIds
<1>5. NamesInv'
  BY <1>2, <1>3, NamesStay DEF Matched, Ready
<1>6. CASE Still(fd)
  <2>1. \A g \in DOMAIN ctx : /\ SameIds(ctx[g], ctx'[g])
                              /\ ctx'[g].write_buf = <<>> <=> ctx[g].write_buf = <<>>
    BY <1>4, <1>6 DEF SameIds, Still
  <2>2. TablesInv'
    BY <1>3, <1>4, <1>6, <2>1, TablesSame DEF Matched, Still
  <2> QED
    BY <1>3, <1>5, <2>2 DEF Matched
<1>7. CASE /\ fd \in Fds /\ fd \in DOMAIN ctx /\ InUse(fd) /\ ctx[fd].type = TCP /\ ctx[fd].by = t
           /\ Toggled(t, fd)
  <2>1. PICK m \in {{}, {"r"}, {"r", "w"}} :
          /\ interest' = [interest EXCEPT ![t][fd] = m]
          /\ m = {} => interest[t][fd] = {}
          /\ m # {} /\ fd \in DOMAIN ctx => (ctx'[fd].write_buf = <<>> <=> "w" \notin m)
    BY <1>7 DEF Toggled
  <2>2. "r" \in interest[t][fd]
    BY <1>7 DEF Matched, TablesInv, ContextOK
  <2>3. m \in {{"r"}, {"r", "w"}} /\ (ctx'[fd].write_buf = <<>> <=> "w" \notin m)
    BY <1>7, <2>1, <2>2
  <2>4. TablesInv'
    BY <1>1, <1>3, <1>4, <1>7, <2>1, <2>3, TablesToggle DEF Matched
  <2> QED
    BY <1>3, <1>5, <2>4 DEF Matched
<1> QED
  BY <1>6, <1>7 DEF DataStep

(* A thread that opens a socket comes to a frame for its last store.       *)
LEMMA NewMatched ==
  ASSUME Base, Matched, NEW t \in Trans, Ready(t), NEW fd \in Fds, NEW type \in Types,
         NEW how, Cause(how), NewSocket(t, fd, type, how, stack[t])
  PROVE  Matched'
<1> DEFINE n == NewContext(t, fd, type)
<1>a. PICK k, f, c : k = opened + 1 /\ f = NameFrame(fd, how) /\ c = <<f>> \o stack[t]
  OBVIOUS
<1>1. TypeOK /\ UNCHANGED round /\ Goto(t, c)
  BY <1>a DEF Base, NewSocket, NameFrame
<1>2. fd \in DOMAIN ctx /\ opened \in Nat /\ Added(t, fd, type)
  BY NewEffect
<1>3. Good(t, stack[t]) /\ stack[t] \in Seq(Frame) /\ ~At(t, "shut")
  BY <1>1, GoodStack DEF Good, Ready
<1>4. Fates /\ GoodRound(t)
  BY <1>1, FatesNew, RoundKept
<1>5. /\ c \in Seq(Frame) /\ Range(c) = {f} \cup Range(stack[t]) /\ c # <<>> /\ Head(c) = f
      /\ f.pc = "name" /\ f.fd = fd /\ f.sk = k
  <2>1. /\ TypeOK /\ stack[t] \in Seq(Frame)
    BY <1>1, <1>3
  <2> QED
    BY <1>2, <1>a, <2>1, NameOn
<1>6. IsNew(t, fd, type, n)
  BY <1>1, <1>2, NewContextFacts
<1>7. ctx' = [ctx EXCEPT ![fd] = n] /\ opened' = k
  BY <1>2, <1>a DEF Added
<1> HIDE DEF n
<1>8. fd \in DOMAIN ctx' /\ ctx'[fd].by = t /\ \A g \in DOMAIN ctx : g # fd => ctx'[g] = ctx[g]
  BY <1>2, <1>6, <1>7 DEF IsNew
<1>9. GoodFrame(t, f)'
  <2>1. k \in 1 .. opened'
    BY <1>2, <1>7, <1>a
  <2>2. Mine(t, fd, k)'
    BY <1>8, <2>1 DEF Mine
  <2> QED
    BY <1>5, <1>8, <2>2 DEF GoodFrame
<1>10. Good(t, c)'
  <2>1. \A g \in Range(stack[t]) : GoodFrame(t, g)'
    BY <1>3, <1>4, FrameStays DEF Good
  <2> QED
    BY <1>5, <1>9, <2>1 DEF Good
<1>11. FramesInv' /\ RoundInv' /\ SameShuts /\ SameOthers(t)
  BY <1>1, <1>3, <1>4, <1>5, <1>10, Comes
<1>12. TablesInv'
  BY <1>11, TablesNew DEF Matched
<1>13. ASSUME NEW g \in DOMAIN ctx', InUse(g)', ctx'[g].trans # ctx'[g].by
       PROVE  BeingNamed(g)'
  <2>1. CASE g = fd
    <3>1. stack'[t] = c
      BY <1>1 DEF Goto, TypeOK
    <3> QED
      BY <1>5, <2>1, <3>1 DEF BeingNamed, At, Fd
  <2>2. CASE g # fd
    <3>1. g \in DOMAIN ctx /\ InUse(g) /\ ctx[g].trans # ctx[g].by
      BY <1>7, <1>8, <1>13, <2>2 DEF InUse
    <3>2. PICK u \in Trans : At(u, "name") /\ Fd(u) = g
      BY <3>1 DEF Matched, NamesInv, BeingNamed
    <3>3. u # t /\ stack'[u] = stack[u]
      BY <1>11, <3>2 DEF SameOthers, Ready
    <3> QED
      BY <3>2, <3>3 DEF BeingNamed, At, Fd
  <2> QED
    BY <2>1, <2>2
<1>14. NamesInv'
  BY <1>13 DEF NamesInv
<1> QED
  BY <1>11, <1>12, <1>14 DEF Matched

LEMMA CloseMatched ==
  ASSUME Base, Matched, NEW t \in Trans, Ready(t), GoodRound(t),
         NEW fd \in Fds, fd \in DOMAIN ctx, InUse(fd), CloseStep(t, fd),
         NEW sk \in Nat, NEW s, Good(t, s), Goto(t, <<F("shut", fd, sk, "")>> \o s)
  PROVE  Matched'
<1>1. TypeOK /\ s \in Seq(Frame)
  BY DEF Base, Good
<1>2. Fates /\ Kept
  BY <1>1, CloseKeeps, FatesKept DEF CloseStep
<1>3. /\ At(t, "shut")' /\ Fd(t)' = fd /\ Rest(t)' = s /\ SameOthers(t)
  BY <1>1, LandsShut DEF SameOthers
<1>4. \A e \in Range(round'[t]) : GoodEvent(t, e)'
  BY <1>2, EventStays DEF GoodRound
<1>5. \A f \in Range(s) : GoodFrame(t, f)'
  BY <1>2, FrameStays DEF Good
<1>6. FramesInv' /\ RoundInv'
  BY <1>2, <1>3, <1>4, <1>5, ThreadsStay DEF Matched, GoodRound, SameOthers
<1>7. TablesInv'
  BY <1>1, <1>3, TablesClose DEF Matched, Ready
<1>8. NamesInv'
  BY <1>2, <1>3, NamesStay DEF Matched, Ready
<1> QED
  BY <1>6, <1>7, <1>8 DEF Matched

LEMMA UsesOwn ==
  ASSUME Matched, NEW t, NEW fd, NEW sk, Mine(t, fd, sk), Uses(fd, sk), ~strayed'
  PROVE  /\ ctx[fd].sk = sk /\ fd \in Fds /\ fd \in DOMAIN ctx /\ InUse(fd) /\ sk \in Nat
         /\ ctx[fd].type = TCP => ctx[fd].by = t
<1>1. ctx[fd].sk = sk
  BY DEF Uses
<1>2. fd \in Fds /\ fd \in DOMAIN ctx /\ sk \in 1 .. opened /\ sk # 0 /\ sk \in Nat
  BY DEF Mine
<1>3. InUse(fd)
  BY <1>1, <1>2 DEF Matched, TablesInv, ContextOK
<1> QED
  BY <1>1, <1>2, <1>3 DEF Mine

LEMMA EventMatched ==
  ASSUME Base, Matched, NEW t \in Trans, EdaCallback(t), ~strayed'
  PROVE  Matched'
<1> DEFINE e == Head(round[t])
<1>1. TypeOK
  BY DEF Base
<1>2. /\ At(t, "event") /\ round[t] # <<>> /\ EventStep(t)
      /\ round' = [round EXCEPT ![t] = Tail(round[t])]
      /\ e.mask # {"r"} => Uses(e.fd, e.sk)
  BY <1>1, EventSteps
<1>3. Ready(t) /\ ~At(t, "shut")
  BY <1>2 DEF At, Ready
<1>4. /\ e \in Range(round[t]) /\ Range(Tail(round[t])) \subseteq Range(round[t])
      /\ e.fd \in Fds /\ e.sk \in Nat
  BY <1>1, <1>2, EventFacts
<1>5. GoodEvent(t, e) /\ Mine(t, e.fd, e.sk)
  BY <1>4 DEF Matched, RoundInv, GoodEvent
<1>6. GoodRound(t)
  BY <1>1, <1>2, <1>4 DEF GoodRound, Matched, RoundInv, TypeOK
<1>7. /\ e.mask # {"r"} => e.fd \in DOMAIN ctx /\ InUse(e.fd)
      /\ "w" \in e.mask => ctx[e.fd].type = TCP /\ ctx[e.fd].by = t
  <2> HIDE DEF e
  <2>1. e.mask # {"r"} =>
          /\ ctx[e.fd].sk = e.sk /\ e.fd \in DOMAIN ctx /\ InUse(e.fd)
          /\ ctx[e.fd].type = TCP => ctx[e.fd].by = t
    BY <1>2, <1>5, UsesOwn DEF e
  <2>2. "w" \in e.mask => e.mask # {"r"}
    OBVIOUS
  <2> QED
    BY <1>5, <2>1, <2>2 DEF GoodEvent
<1>8. ASSUME NEW s, EventOn(t, s) PROVE Good(t, s)
  <2>1. Good(t, stack[t])
    BY <1>1, <1>3, GoodStack
  <2> QED
    BY <1>5, <1>8, <2>1 DEF EventOn, Good, GoodFrame, Plain
<1>9. /\ Good(t, ReadPart(t))
      /\ Good(t, Callback(e.fd, e.sk, "sent") \o ReadPart(t))
      /\ Good(t, Callback(e.fd, e.sk, "closed") \o stack[t])
      /\ Good(t, Callback(e.fd, e.sk, "closed") \o ReadPart(t))
  BY <1>1, <1>2, <1>8, EventOnFacts
<1>10. CASE /\ CloseStep(t, e.fd) /\ e.mask # {"r"}
            /\ \E s \in {stack[t], ReadPart(t)} :
                 Goto(t, <<F("shut", e.fd, e.sk, "")>> \o (Callback(e.fd, e.sk, "closed") \o s))
  <2> DEFINE fd == e.fd  sk == e.sk
  <2>1. /\ fd \in Fds /\ sk \in Nat /\ fd \in DOMAIN ctx /\ InUse(fd) /\ CloseStep(t, fd)
        /\ \E c : Good(t, c) /\ Goto(t, <<F("shut", fd, sk, "")>> \o c)
    BY <1>4, <1>7, <1>9, <1>10
  <2> HIDE DEF fd, sk
  <2> QED
    BY <1>3, <1>6, <2>1, CloseMatched
<1>11. CASE /\ DataStep(t, e.fd) /\ "w" \in e.mask
            /\ Goto(t, Callback(e.fd, e.sk, "sent") \o ReadPart(t))
  <2> DEFINE fd == e.fd  c == Callback(e.fd, e.sk, "sent") \o ReadPart(t)
  <2>1. /\ fd \in Fds /\ fd \in DOMAIN ctx /\ InUse(fd) /\ ctx[fd].type = TCP /\ ctx[fd].by = t
        /\ DataStep(t, fd) /\ Good(t, c) /\ Goto(t, c)
    <3>1. e.mask # {"r"}
      BY <1>11
    <3> QED
      BY <1>4, <1>7, <1>9, <1>11, <3>1
  <2> HIDE DEF fd, c
  <2> QED
    BY <1>3, <1>6, <2>1, DataMatched
<1>12. CASE Nothing /\ e.mask = {"r"} /\ Goto(t, ReadPart(t))
  BY <1>3, <1>6, <1>9, <1>12, NothingMatched
<1> QED
  BY <1>2, <1>10, <1>11, <1>12 DEF EventStep

LEMMA GoodHead ==
  ASSUME TypeOK, Matched, NEW t \in Trans, stack[t] # <<>>, ~At(t, "shut"), ~At(t, "event")
  PROVE  /\ Mine(t, Fd(t), Head(stack[t]).sk) /\ Good(t, stack[t]) /\ Good(t, Below(t))
         /\ Fd(t) \in Fds /\ Head(stack[t]).sk \in Nat
<1>1. Good(t, stack[t])
  BY GoodStack
<1>2. /\ Head(stack[t]) \in Range(stack[t]) /\ Head(stack[t]).sk \in Nat
      /\ Below(t) \in Seq(Frame) /\ Range(Below(t)) \subseteq Range(stack[t])
  BY HeadFacts
<1>3. Good(t, Below(t))
  BY <1>1, <1>2, GoodSub
<1>4. Head(stack[t]).pc # "event"
  BY DEF At
<1>5. Mine(t, Fd(t), Head(stack[t]).sk)
  BY <1>1, <1>2, <1>4 DEF Good, GoodFrame, Fd
<1>6. Fd(t) \in Fds
  BY <1>5 DEF Mine
<1> QED
  BY <1>1, <1>2, <1>3, <1>5, <1>6

LEMMA GoodOn ==
  ASSUME NEW t, NEW fd, NEW sk, Mine(t, fd, sk), NEW s, Good(t, s),
         NEW c \in Seq(Frame), NEW f, Range(c) = {f} \cup Range(s),
         Plain(f), f.fd = fd, f.sk = sk
  PROVE  Good(t, c)
BY DEF Good, GoodFrame, Plain

LEMMA EndMatched ==
  ASSUME Base, Matched, NEW t \in Trans, EndConnection(t) \/ HandlerClose(t), ~strayed'
  PROVE  Matched'
<1> DEFINE fd == Fd(t)  sk == Head(stack[t]).sk
<1>1. TypeOK
  BY DEF Base
<1>2. At(t, "end") \/ At(t, "handler")
  BY DEF EndConnection, HandlerClose
<1>3. stack[t] # <<>> /\ Ready(t) /\ ~At(t, "shut") /\ ~At(t, "event")
  BY <1>2 DEF At, Ready
<1>4. Uses(fd, sk)
  BY DEF EndConnection, HandlerClose
<1>5. Mine(t, fd, sk) /\ Good(t, Below(t)) /\ Below(t) \in Seq(Frame)
  BY <1>1, <1>3, GoodHead, HeadFacts
<1>6. fd \in Fds /\ fd \in DOMAIN ctx /\ InUse(fd) /\ sk \in Nat
  <2> HIDE DEF fd, sk
  <2> QED
    BY <1>4, <1>5, UsesOwn
<1>7. \E c : /\ Good(t, c) /\ Goto(t, <<F("shut", fd, sk, "")>> \o c)
             /\ CloseStep(t, fd) /\ UNCHANGED round
  <2>1. CASE EndConnection(t)
    <3> DEFINE c == Callback(fd, sk, "closed") \o Below(t)  f == F("handler", fd, sk, "closed")
    <3>1. Goto(t, <<F("shut", fd, sk, "")>> \o c) /\ CloseStep(t, fd) /\ UNCHANGED round
      BY <2>1, EndSteps
    <3>2. c \in Seq(Frame) /\ Range(c) = {f} \cup Range(Below(t))
          /\ Plain(f) /\ f.fd = fd /\ f.sk = sk
      <4> HIDE DEF fd, sk
      <4>1. "closed" \in Callbacks /\ fd \in Fds \cup {-1}
        BY <1>6 DEF Callbacks
      <4>2. c \in Seq(Frame) /\ Range(c) = {f} \cup Range(Below(t))
            /\ f.pc = "handler" /\ f.fd = fd /\ f.sk = sk
        BY <1>5, <1>6, <4>1, CallbackOn
      <4> HIDE DEF c, f
      <4> QED
        BY <4>2 DEF Plain
    <3> HIDE DEF c, f, fd, sk
    <3>3. Good(t, c)
      BY <1>5, <3>2, GoodOn
    <3> QED
      BY <3>1, <3>3
  <2>2. CASE HandlerClose(t)
    <3> DEFINE f == [Head(stack[t]) EXCEPT !.pc = "done"]  c == <<f>> \o Below(t)
    <3>1. Goto(t, <<F("shut", fd, sk, "")>> \o c) /\ CloseStep(t, fd) /\ UNCHANGED round
      BY <2>2, HandlerCloseSteps
    <3>2. c \in Seq(Frame) /\ Range(c) = {f} \cup Range(Below(t))
          /\ Plain(f) /\ f.fd = fd /\ f.sk = sk
      <4>1. c \in Seq(Frame) /\ Range(c) = {f} \cup Range(Below(t))
            /\ f.pc = "done" /\ f.fd = fd /\ f.sk = sk
        BY <1>1, <1>3, DoneOn
      <4> HIDE DEF c, f, fd, sk
      <4> QED
        BY <4>1 DEF Plain
    <3> HIDE DEF c, f, fd, sk
    <3>3. Good(t, c)
      BY <1>5, <3>2, GoodOn
    <3> QED
      BY <3>1, <3>3
  <2> QED
    BY <2>1, <2>2
<1> HIDE DEF fd, sk
<1> QED
  BY <1>3, <1>6, <1>7, RoundKept, CloseMatched

LEMMA PollMatched ==
  ASSUME Base, Matched, NEW t \in Trans, poll(t)
  PROVE  Matched'
<1> DEFINE s == <<F("event", -1, 0, "")>>
<1>1. TypeOK
  BY DEF Base
<1>2. stack[t] = <<>> /\ Nothing /\ Goto(t, s) /\ s \in Seq(Frame)
  BY <1>1, PollFacts
<1>3. PICK r \in Seq(Event) :
        /\ round' = [round EXCEPT ![t] = r]
        /\ \A e \in Range(r) : /\ e.fd \in Fds /\ interest[t][e.fd] # {}
                               /\ e.sk = sock[e.fd] /\ e.mask \in Masks(t, e.fd)
  BY <1>1, PollFacts
<1>4. Good(t, s)
  <2> DEFINE f == F("event", -1, 0, "")
  <2>1. f.pc = "event"
    BY DEF F
  <2>2. GoodFrame(t, f)
    <3> HIDE DEF f
    <3> QED
      BY <2>1 DEF GoodFrame
  <2>3. s = <<f>>
    OBVIOUS
  <2> HIDE DEF f, s
  <2>4. Range(s) = {f}
    <3>1. DOMAIN <<f>> = {1} /\ <<f>>[1] = f
      OBVIOUS
    <3> QED
      BY <2>3, <3>1 DEF Range
  <2> QED
    BY <1>2, <2>2, <2>4 DEF Good
<1>5. ASSUME NEW e \in Range(r) PROVE GoodEvent(t, e)
  <2> DEFINE fd == e.fd
  <2>1. fd \in Fds /\ interest[t][fd] # {} /\ e.sk = sock[fd] /\ e.mask \in Masks(t, fd)
    BY <1>3
  <2>2. FdOK(fd) /\ sock[fd] \in Nat /\ opened \in Nat /\ interest[t][fd] \subseteq {"r", "w"}
    BY <1>1, <2>1, TypeFacts DEF Matched, TablesInv, TypeOK
  <2>3. fd \in DOMAIN ctx /\ sock[fd] \in 1 .. opened
    BY <2>1, <2>2 DEF FdOK
  <2>4. ctx[fd].type = TCP => ctx[fd].by = t
    BY <2>1, <2>2 DEF FdOK
  <2>5. "w" \in e.mask => ctx[fd].type = TCP
    <3>1. "w" \in interest[t][fd] => ctx[fd].type = TCP
      BY <2>2 DEF FdOK
    <3>2. "w" \in e.mask => "w" \in interest[t][fd]
      BY <2>1 DEF Masks
    <3> QED
      BY <3>1, <3>2
  <2> HIDE DEF fd
  <2>6. Mine(t, fd, e.sk)
    BY <2>1, <2>3, <2>4 DEF Mine
  <2> QED
    BY <2>5, <2>6 DEF GoodEvent, fd
<1>6. GoodRound(t)
  <2>1. round'[t] = r /\ \A u \in Trans \ {t} : round'[u] = round[u]
    BY <1>1, <1>3 DEF TypeOK
  <2> QED
    BY <1>5, <2>1 DEF GoodRound
<1>7. Ready(t)
  BY <1>2 DEF At, Ready
<1> HIDE DEF s
<1> QED
  BY <1>2, <1>4, <1>6, <1>7, NothingMatched

LEMMA ShutMatched ==
  ASSUME Base, Matched, NEW t \in Trans, CloseSocket(t)
  PROVE  Matched'
<1>1. TypeOK
  BY DEF Base
<1>2. Watches(t) /\ At(t, "shut") /\ UNCHANGED round /\ Goto(t, Below(t))
  BY <1>1, ShutSteps
<1>3. Good(t, Below(t))
  BY <1>1, <1>2, GoodStack
<1>4. Fates /\ Kept
  BY <1>1, <1>2, NothingKeeps, FatesKept DEF Watches
<1>5. PICK s : s = Below(t)
  OBVIOUS
<1>6. Good(t, s) /\ Goto(t, s) /\ s \in Seq(Frame)
  BY <1>2, <1>3, <1>5 DEF Good
<1>7. \A f \in Range(s) : f.pc # "shut"
  BY <1>6 DEF Good, GoodFrame
<1>8. /\ ~At(t, "shut")' /\ Rest(t)' = s /\ SameOthers(t)
  BY <1>1, <1>6, <1>7, Lands DEF SameOthers
<1>9. \A f \in Range(s) : GoodFrame(t, f)'
  BY <1>4, <1>6, FrameStays DEF Good
<1>10. \A e \in Range(round'[t]) : GoodEvent(t, e)'
  BY <1>2, <1>4, EventStays, RoundKept DEF GoodRound
<1>11. FramesInv' /\ RoundInv'
  BY <1>2, <1>4, <1>8, <1>9, <1>10, ThreadsStay DEF Matched, SameOthers
<1>12. TablesInv'
  BY <1>8, TablesShut DEF Matched
<1>13. NamesInv'
  <2>1. ~At(t, "name")
    BY <1>2 DEF At
  <2> QED
    BY <1>4, <1>8, <2>1, NamesStay DEF Matched
<1> QED
  BY <1>11, <1>12, <1>13 DEF Matched

(* The last store of add_fd.                                               *)
LEMMA NameOwn ==
  ASSUME Base, Matched, ~strayed', NEW t \in Trans, NameContext(t)
  PROVE  LET fd == Fd(t)
             sk == Head(stack[t]).sk
         IN /\ Mine(t, fd, sk) /\ fd \in DOMAIN ctx /\ fd \in Fds /\ sk \in 1 .. opened
            /\ ctx[fd].sk = sk /\ InUse(fd) /\ ctx[fd].by = t
            /\ Good(t, Below(t)) /\ Named(t, fd, sk)
<1> DEFINE fd == Fd(t)  sk == Head(stack[t]).sk
<1>1. TypeOK
  BY DEF Base
<1>2. /\ At(t, "name") /\ stack[t] # <<>> /\ Named(t, fd, sk) /\ Uses(fd, sk)
  BY <1>1, NameSteps
<1>3. ~At(t, "shut") /\ ~At(t, "event") /\ Head(stack[t]).pc = "name"
  BY <1>2 DEF At
<1>4. Mine(t, fd, sk) /\ Good(t, Below(t)) /\ Good(t, stack[t])
  BY <1>1, <1>2, <1>3, GoodHead
<1>5. GoodFrame(t, Head(stack[t]))
  BY <1>1, <1>2, <1>4, HeadFacts DEF Good
<1> HIDE DEF fd, sk
<1>6. ctx[fd].sk = sk /\ fd \in DOMAIN ctx /\ InUse(fd) /\ fd \in Fds /\ sk \in 1 .. opened
  BY <1>2, <1>4, UsesOwn DEF Mine
<1>7. ctx[fd].by = t
  BY <1>3, <1>5, <1>6 DEF GoodFrame, fd, sk, Fd
<1> QED
  BY <1>2, <1>4, <1>6, <1>7 DEF fd, sk

LEMMA NameMatched ==
  ASSUME Base, Matched, ~strayed', NEW t \in Trans, NameContext(t)
  PROVE  Matched'
<1> DEFINE fd == Fd(t)  sk == Head(stack[t]).sk
           a == F("handler", fd, sk, "accepted")  c == Callback(fd, sk, "accepted") \o Below(t)
<1>1. TypeOK
  BY DEF Base
<1>2. /\ At(t, "name") /\ UNCHANGED round
      /\ Goto(t, c) \/ Goto(t, Below(t))
  BY <1>1, NameSteps
<1>3. ~At(t, "shut") /\ GoodRound(t)
  BY <1>2, RoundKept DEF At
<1>4. /\ Mine(t, fd, sk) /\ fd \in DOMAIN ctx /\ fd \in Fds /\ sk \in 1 .. opened
      /\ ctx[fd].by = t /\ Good(t, Below(t)) /\ Named(t, fd, sk)
  BY NameOwn
<1>5. Good(t, c)
  <2> HIDE DEF fd, sk
  <2>1. fd \in Fds \cup {-1} /\ sk \in Nat /\ "accepted" \in Callbacks /\ Below(t) \in Seq(Frame)
    BY <1>1, <1>4, TypeFacts DEF Callbacks, Good
  <2>2. /\ c \in Seq(Frame) /\ Range(c) = {a} \cup Range(Below(t))
        /\ a.pc = "handler" /\ a.fd = fd /\ a.sk = sk
    <3>1. PICK b : b = Below(t) /\ b \in Seq(Frame)
      BY <2>1
    <3> HIDE DEF Below
    <3>2. /\ Callback(fd, sk, "accepted") \o b \in Seq(Frame)
          /\ Range(Callback(fd, sk, "accepted") \o b) = {a} \cup Range(b)
          /\ a.pc = "handler" /\ a.fd = fd /\ a.sk = sk
      BY <2>1, <3>1, CallbackOn
    <3> QED
      BY <3>1, <3>2
  <2> HIDE DEF c, a
  <2>3. Plain(a)
    BY <2>2 DEF Plain
  <2> QED
    BY <1>4, <2>2, <2>3, GoodOn
<1> HIDE DEF c, a, fd, sk
<1>6. /\ ctx' = [ctx EXCEPT ![fd].trans = t] /\ UNCHANGED <<sock, opened, interest>>
  BY <1>4 DEF Named
<1>7. /\ DOMAIN ctx' = DOMAIN ctx /\ ctx'[fd].trans = t
      /\ \A g \in DOMAIN ctx : g # fd => ctx'[g] = ctx[g]
      /\ \A g \in DOMAIN ctx : SameIds(ctx[g], ctx'[g]) /\ ctx'[g].write_buf = ctx[g].write_buf
  <2>1. \A g \in DOMAIN ctx : ctx[g] \in Context
    BY <1>1, TypeFacts
  <2> QED
    BY <1>4, <1>6, <2>1 DEF SameIds, Context
<1>8. Fates
  BY <1>1, <1>6, <1>7, TypeFacts DEF Fates, SameIds
<1>9. FramesInv' /\ RoundInv' /\ SameShuts /\ SameOthers(t)
  BY <1>1, <1>2, <1>3, <1>4, <1>5, <1>8, GoodStays, Comes DEF Good
<1>10. TablesInv'
  BY <1>6, <1>7, <1>9, TablesSame DEF Matched
<1>11. ASSUME NEW g \in DOMAIN ctx', InUse(g)', ctx'[g].trans # ctx'[g].by
       PROVE  BeingNamed(g)'
  <2>1. g # fd
    BY <1>4, <1>7, <1>11 DEF SameIds
  <2>2. g \in DOMAIN ctx /\ InUse(g) /\ ctx[g].trans # ctx[g].by
    BY <1>7, <1>11, <2>1 DEF InUse
  <2>3. PICK u \in Trans : At(u, "name") /\ Fd(u) = g
    BY <2>2 DEF Matched, NamesInv, BeingNamed
  <2>4. u # t
    BY <2>1, <2>3 DEF fd
  <2>5. stack'[u] = stack[u]
    BY <1>9, <2>4 DEF SameOthers
  <2> QED
    BY <2>3, <2>5 DEF BeingNamed, At, Fd
<1>12. NamesInv'
  BY <1>11 DEF NamesInv
<1> QED
  BY <1>9, <1>10, <1>12 DEF Matched

LEMMA CloneMatched ==
  ASSUME Base, Matched, NEW t \in Trans, NEW u \in Trans, NEW id \in known[u], Clone(t, id)
  PROVE  Matched'
<1>1. TypeOK /\ id.fd \in Fds
  BY DEF Base, KnownInv, NamedFor
<1>2. Watches(t) /\ Users(t) /\ UNCHANGED <<round, stack>>
  BY <1>1, CloneSteps
<1>3. ~At(t, "shut") /\ ~At(t, "name")
  BY <1>2 DEF Users, At
<1>4. Fates /\ Kept
  BY <1>1, <1>2, NothingKeeps, FatesKept DEF Watches
<1>5. PICK s : s = stack[t]
  OBVIOUS
<1>6. s \in Seq(Frame) /\ Good(t, s) /\ Goto(t, s)
  BY <1>1, <1>2, <1>3, <1>5, GoodStack, StaysPut DEF Good
<1>7. Good(t, s)'
  BY <1>4, <1>6, GoodStays
<1>8. FramesInv' /\ RoundInv' /\ SameShuts /\ SameOthers(t)
  BY <1>1, <1>2, <1>3, <1>4, <1>6, <1>7, RoundKept, Comes
<1>9. TablesInv'
  BY <1>1, <1>8, TablesClone DEF Matched
<1>10. NamesInv'
  BY <1>3, <1>4, <1>8, NamesStay DEF Matched
<1> QED
  BY <1>8, <1>9, <1>10 DEF Matched

LEMMA UserCloseMatched ==
  ASSUME Base, Matched, ~strayed', NEW t \in Trans, NEW id \in known[t], UserClose(t, id)
  PROVE  Matched'
<1> DEFINE fd == id.fd  sk == id.sk  s == <<>>
<1>1. /\ stack[t] = <<>> /\ UNCHANGED round /\ TypeOK
      /\ \/ /\ CloseStep(t, fd) /\ Goto(t, <<F("shut", fd, sk, "")>> \o s)
            /\ Same(Tid(id.fd), id) /\ Uses(id.fd, id.sk)
         \/ Nothing /\ Goto(t, s)
  BY UserCloseSteps DEF Base
<1>2. Ready(t) /\ ~At(t, "shut") /\ GoodRound(t)
  BY <1>1, RoundKept DEF At, Ready
<1>3. Good(t, s)
  BY <1>1, <1>2, GoodStack
<1>4. Same(Tid(id.fd), id) /\ Uses(id.fd, id.sk)
      => fd \in DOMAIN ctx /\ fd \in Fds /\ sk \in Nat /\ InUse(fd)
  BY UserCloseOwn
<1> HIDE DEF fd, sk, s
<1> QED
  BY <1>1, <1>2, <1>3, <1>4, CloseMatched, NothingMatched

(* What t does for the frame on top of its stack.                          *)
LEMMA ReadMatched ==
  ASSUME Base, Matched, NEW t \in Trans, Read(t)
  PROVE  Matched'
<1> DEFINE fd == Fd(t)
<1>1. TypeOK
  BY DEF Base
<1>2. /\ At(t, "read") /\ UNCHANGED round
      /\ Nothing \/ (DataStep(t, fd) /\ Still(fd))
      /\ \E s : ReadOn(t, s) /\ Goto(t, s)
  BY <1>1, ReadSteps
<1>3. stack[t] # <<>> /\ Ready(t) /\ ~At(t, "shut") /\ ~At(t, "event") /\ GoodRound(t)
  BY <1>2, RoundKept DEF At, Ready
<1>4. Mine(t, Fd(t), Head(stack[t]).sk) /\ Good(t, Below(t))
  BY <1>1, <1>3, GoodHead
<1>5. PICK s : ReadOn(t, s) /\ Goto(t, s)
  BY <1>2
<1>6. /\ s \in Seq(Frame)
      /\ \A f \in Range(s) : \/ f \in Range(Below(t))
                             \/ Plain(f) /\ f.fd = Fd(t) /\ f.sk = Head(stack[t]).sk
  BY <1>1, <1>3, <1>5, ReadOnFacts
<1>7. Good(t, s)
  BY <1>4, <1>6 DEF Good, GoodFrame, Plain
<1> HIDE DEF fd
<1> QED
  BY <1>2, <1>3, <1>5, <1>7, NothingMatched, DataMatched

LEMMA UdpMatched ==
  ASSUME Base, Matched, NEW t \in Trans, UdpRead(t)
  PROVE  Matched'
<1> DEFINE fd == Fd(t)  sk == Head(stack[t]).sk  c == Callback(fd, sk, "udp") \o stack[t]
           f == F("handler", fd, sk, "udp")
<1>1. TypeOK
  BY DEF Base
<1>2. /\ At(t, "udp") /\ UNCHANGED round /\ Nothing
      /\ Goto(t, c) \/ Goto(t, Below(t))
  BY DEF UdpRead, Nothing
<1>3. stack[t] # <<>> /\ Ready(t) /\ ~At(t, "shut") /\ ~At(t, "event") /\ GoodRound(t)
  BY <1>2, RoundKept DEF At, Ready
<1>4. /\ Mine(t, fd, sk) /\ Good(t, Below(t)) /\ Good(t, stack[t])
      /\ fd \in Fds /\ sk \in Nat /\ stack[t] \in Seq(Frame)
  BY <1>1, <1>3, GoodHead DEF TypeOK
<1>5. c \in Seq(Frame) /\ Range(c) = {f} \cup Range(stack[t])
      /\ f.pc = "handler" /\ f.fd = fd /\ f.sk = sk
  <2> HIDE DEF fd, sk
  <2>1. fd \in Fds \cup {-1} /\ "udp" \in Callbacks
    BY <1>4 DEF Callbacks
  <2> QED
    BY <1>4, <2>1, CallbackOn
<1> HIDE DEF c, f, fd, sk
<1>6. Good(t, c)
  <2>1. Plain(f)
    BY <1>5 DEF Plain
  <2> QED
    BY <1>4, <1>5, <2>1, GoodOn
<1> QED
  BY <1>2, <1>3, <1>4, <1>6, NothingMatched

LEMMA StayMatched ==
  ASSUME Base, Matched, NEW t \in Trans,
         \/ ~strayed' /\ \E id \in known[t] : \E n \in 1 .. MaxBytes : Send(t, id, n)
         \/ HandlerReads(t)
  PROVE  Matched'
<1>1. TypeOK
  BY DEF Base
<1>2. PICK fd : /\ DataStep(t, fd) /\ UNCHANGED <<round, stack>> /\ Ready(t)
                /\ \/ Still(fd)
                   \/ /\ fd \in Fds /\ fd \in DOMAIN ctx /\ InUse(fd)
                      /\ ctx[fd].type = TCP /\ ctx[fd].by = t
  <2>1. ASSUME ~strayed', NEW id \in known[t], NEW n \in 1 .. MaxBytes, Send(t, id, n)
        PROVE  /\ DataStep(t, id.fd) /\ UNCHANGED <<round, stack>> /\ Ready(t)
               /\ id.fd \in Fds /\ id.fd \in DOMAIN ctx /\ InUse(id.fd)
               /\ ctx[id.fd].type = TCP /\ ctx[id.fd].by = t
    <3>1. DataStep(t, id.fd) /\ UNCHANGED <<round, stack>> /\ Users(t)
      BY <1>1, <2>1, SendTypes
    <3>2. Ready(t)
      BY <3>1 DEF Users, At, Ready
    <3> QED
      BY <2>1, <3>1, <3>2, SendOwn
  <2>2. CASE HandlerReads(t)
    BY <1>1, <2>2, HandlerReadsSteps DEF At, Ready
  <2> QED
    BY <2>1, <2>2
<1>3. GoodRound(t) /\ Good(t, stack[t]) /\ Goto(t, stack[t])
  BY <1>1, <1>2, RoundKept, GoodStack, StaysPut DEF Ready
<1> QED
  BY <1>2, <1>3, DataMatched

LEMMA TouchingMatched ==
  ASSUME Base, Matched, ~strayed', NEW t \in Trans, Touching(t)
  PROVE  Matched'
<1>1. CASE EdaCallback(t)
  BY <1>1, EventMatched
<1>2. CASE EndConnection(t) \/ HandlerClose(t)
  BY <1>2, EndMatched
<1>3. CASE NameContext(t)
  BY <1>3, NameMatched
<1>4. CASE \E id \in known[t] : UserClose(t, id)
  BY <1>4, UserCloseMatched
<1>5. CASE \E id \in known[t] : \E n \in 1 .. MaxBytes : Send(t, id, n)
  BY <1>5, StayMatched
<1> QED
  BY <1>1, <1>2, <1>3, <1>4, <1>5 DEF Touching

LEMMA QuietMatched ==
  ASSUME Base, Matched, NEW t \in Trans, Quiet(t)
  PROVE  Matched'
<1>1. ASSUME Nothing, UNCHANGED round, Goto(t, Below(t)), stack[t] # <<>>, Ready(t)
      PROVE  Matched'
  <2>1. TypeOK
    BY DEF Base
  <2>2. Good(t, stack[t]) /\ Below(t) \in Seq(Frame) /\ Range(Below(t)) \subseteq Range(stack[t])
    BY <1>1, <2>1, GoodStack, HeadFacts DEF Ready
  <2>3. Good(t, Below(t))
    BY <2>2, GoodSub
  <2> QED
    BY <1>1, <2>3, RoundKept, NothingMatched
<1>2. CASE PollReturns(t) \/ HandlerReturns(t)
  <2>1. Nothing /\ UNCHANGED round /\ Goto(t, Below(t)) /\ stack[t] # <<>> /\ Ready(t)
    BY <1>2 DEF PollReturns, HandlerReturns, Nothing, At, Ready
  <2> QED
    BY <1>1, <2>1
<1>3. CASE Accept(t)
  <2>1. At(t, "accept") /\ stack[t] # <<>> /\ Ready(t)
    BY <1>3 DEF Accept, At, Ready
  <2>2. \/ \E fd \in Fds : NewSocket(t, fd, "TCP_CONNECTION", "accepted", stack[t])
        \/ Goto(t, Below(t)) /\ Nothing /\ UNCHANGED round
    BY <1>3 DEF Accept, Nothing
  <2>3. "TCP_CONNECTION" \in Types /\ Cause("accepted")
    BY DEF Types, Callbacks, Cause
  <2> QED
    BY <1>1, <2>1, <2>2, <2>3, NewMatched
<1>4. ASSUME NEW fd \in Fds, NEW type \in Opens, Open(t, fd, type) PROVE Matched'
  <2>1. NewSocket(t, fd, type, "", stack[t]) /\ Users(t) /\ type \in Types
    BY <1>4, TransportAssumption DEF Open
  <2>2. Ready(t)
    BY <2>1 DEF Users, At, Ready
  <2>3. Cause("")
    BY DEF Cause
  <2> QED
    BY <2>1, <2>2, <2>3, NewMatched
<1>5. CASE \E u \in Trans : \E id \in known[u] : Clone(t, id)
  BY <1>5, CloneMatched
<1>6. CASE HandlerReads(t)
  BY <1>6, StayMatched
<1>7. CASE CloseSocket(t) \/ poll(t) \/ Read(t) \/ UdpRead(t)
  BY <1>7, ShutMatched, PollMatched, ReadMatched, UdpMatched
<1> QED
  BY <1>2, <1>3, <1>4, <1>5, <1>6, <1>7 DEF Quiet

(* The ids and the streams, while nobody has strayed.                      *)
LEMMA NameKeeps ==
  ASSUME Base, StreamInv, Matched, ~strayed', NEW t \in Trans, NameContext(t)
  PROVE  KnownInv' /\ StreamInv'
<1> DEFINE fd == Fd(t)  sk == Head(stack[t]).sk
           id == [fd |-> fd, seq |-> ctx[fd].seq, trans |-> t, sk |-> sk, type |-> ctx[fd].type]
<1>1. /\ fd \in DOMAIN ctx /\ fd \in Fds /\ sk \in 1 .. opened
      /\ ctx[fd].sk = sk /\ InUse(fd) /\ ctx[fd].by = t
      /\ ctx' = [ctx EXCEPT ![fd].trans = t] /\ known' = [known EXCEPT ![t] = known[t] \cup {id}]
      /\ UNCHANGED <<opened, seq>>
  BY NameOwn DEF Named
<1>2. /\ id.fd = fd /\ id.seq = ctx[fd].seq /\ id.trans = t /\ id.sk = sk
  OBVIOUS
<1> HIDE DEF id, fd, sk
<1>3. TypeOK /\ KnownInv /\ \A g \in DOMAIN ctx : ctx[g] \in Context
  BY TypeFacts DEF Base
<1>4. /\ DOMAIN ctx' = DOMAIN ctx
      /\ \A g \in DOMAIN ctx :
           /\ ctx'[g].seq = ctx[g].seq /\ ctx'[g].by = ctx[g].by /\ ctx'[g].sk = ctx[g].sk
           /\ ctx'[g].took = ctx[g].took /\ ctx'[g].write_buf = ctx[g].write_buf
           /\ ctx'[g].said = ctx[g].said /\ ctx'[g].ranout = ctx[g].ranout
  BY <1>1, <1>3 DEF Context
<1>5. NamedFor(t, id)
  <2>1. Numbered(fd) /\ sk # 0
    BY <1>1, <1>3, TypeFacts DEF KnownInv
  <2>2. \A g \in DOMAIN ctx : /\ ctx[g].seq = id.seq /\ ctx[g].by = t => g = fd
                              /\ ctx[g].sk = id.sk => g = fd
    BY <1>1, <1>2, <2>1 DEF Numbered
  <2> QED
    BY <1>1, <1>2, <2>1, <2>2 DEF NamedFor, Numbered
<1>6. ASSUME NEW u \in Trans, NEW i \in known'[u] PROVE NamedFor(u, i)'
  <2>1. i \in known[u] \/ (u = t /\ i = id)
    BY <1>1, <1>3, <1>6 DEF TypeOK
  <2>2. NamedFor(u, i)
    BY <1>3, <1>5, <2>1 DEF KnownInv
  <2> QED
    BY <1>1, <1>4, <2>2 DEF NamedFor
<1>7. ASSUME NEW g \in DOMAIN ctx PROVE Numbered(g)'
  <2>1. Numbered(g)
    BY <1>3 DEF KnownInv
  <2> QED
    BY <1>1, <1>4, <2>1 DEF Numbered, InUse
<1>8. KnownInv'
  BY <1>1, <1>3, <1>4, <1>6, <1>7 DEF KnownInv
<1>9. StreamInv'
  BY <1>4 DEF StreamInv, StreamOK
<1> QED
  BY <1>8, <1>9

LEMMA TableStepKeeps ==
  ASSUME Base, StreamInv, Matched, ~strayed', NEW t \in Trans, TableStep(t)
  PROVE  KnownInv' /\ StreamInv'
<1>1. TypeOK
  BY DEF Base
<1>2. ASSUME Kept, UNCHANGED <<opened, seq, known>> PROVE KnownInv' /\ StreamInv'
  BY <1>2, KnownKept, StreamKept
<1>3. CASE Nothing \/ Watches(t)
  BY <1>1, <1>2, <1>3, NothingKeeps DEF Nothing, Watches
<1>4. ASSUME NEW fd, DataStep(t, fd) PROVE KnownInv' /\ StreamInv'
  BY <1>1, <1>2, <1>4, DataKeeps DEF DataStep
<1>5. ASSUME NEW fd, CloseStep(t, fd) PROVE KnownInv' /\ StreamInv'
  BY <1>1, <1>2, <1>5, CloseKeeps DEF CloseStep
<1>6. ASSUME NEW fd \in Fds, NEW type \in Types, NEW how, NEW s, NewSocket(t, fd, type, how, s)
      PROVE  KnownInv' /\ StreamInv'
  <2>1. fd \in DOMAIN ctx /\ sock[fd] = 0
    BY <1>6, NewEffect
  <2>2. ctx[fd].write_buf = <<>>
    BY <1>1, <2>1, FreeIsEmpty DEF Matched
  <2> QED
    BY <1>6, <2>2, KnownNew, StreamNew
<1>7. CASE NameContext(t)
  BY <1>7, NameKeeps
<1> QED
  BY <1>3, <1>4, <1>5, <1>6, <1>7 DEF TableStep

-----------------------------------------------------------------------------
(* The inductive invariant                                                 *)

IInv == TypeOK /\ (~strayed => KnownInv /\ StreamInv /\ Matched)

LEMMA InitMatched == Init => IInv
<1> SUFFICES ASSUME Init PROVE Base /\ StreamInv /\ Matched
  BY DEF IInv, Base
<1>1. Base /\ StreamInv
  BY InitBase
<1>2. /\ \A fd \in DOMAIN ctx : ctx[fd].seq = -1 /\ ctx[fd].sk = 0 /\ ctx[fd].write_buf = <<>>
      /\ \A fd \in Fds : sock[fd] = 0 /\ opened = 0
      /\ \A t \in Trans : stack[t] = <<>> /\ round[t] = <<>> /\ \A fd \in Fds : interest[t][fd] = {}
  BY DEF Init, NoContext
<1>3. \A t \in Trans : ~At(t, "shut")
  BY <1>2 DEF At
<1>4. TablesInv
  BY <1>2, <1>3 DEF TablesInv, FdOK, ContextOK, ShutAt, InUse
<1>5. Range(<<>>) = {}
  BY DEF Range
<1>6. FramesInv
  BY <1>2, <1>3, <1>5 DEF FramesInv, Rest
<1>7. RoundInv
  BY <1>2, <1>5 DEF RoundInv
<1>8. NamesInv
  BY <1>2 DEF NamesInv, InUse
<1> QED
  BY <1>1, <1>4, <1>6, <1>7, <1>8 DEF Matched

LEMMA IInvNext ==
  ASSUME IInv, [Next]_vars
  PROVE  IInv'
<1>1. TypeOK' /\ (strayed => strayed')
  BY TypeNext DEF IInv
<1>2. ~strayed => Base /\ StreamInv /\ Matched
  BY DEF IInv, Base
<1>3. ASSUME ~strayed', UNCHANGED vars PROVE KnownInv' /\ StreamInv' /\ Matched'
  <2>1. KnownInv /\ StreamInv /\ Matched /\ TypeOK
    BY <1>3 DEF IInv, vars
  <2>2. KnownInv' /\ StreamInv'
    BY <1>3, <2>1 DEF vars, KnownInv, NamedFor, Numbered, InUse, StreamInv
  <2>3. TablesInv'
    BY <1>3, <2>1 DEF vars, Matched, TablesInv, FdOK, ContextOK, ShutOK, ShutAt, InUse, At, Fd
  <2>4. FramesInv'
    BY <1>3, <2>1 DEF vars, Matched, FramesInv, Rest, GoodFrame, Mine, At, Below
  <2>5. RoundInv'
    BY <1>3, <2>1 DEF vars, Matched, RoundInv, GoodEvent, Mine
  <2>6. NamesInv'
    BY <1>3, <2>1 DEF vars, Matched, NamesInv, InUse, BeingNamed, At, Fd
  <2> QED
    BY <2>2, <2>3, <2>4, <2>5, <2>6 DEF Matched
<1>4. ASSUME ~strayed', NEW t \in Trans, Touching(t) \/ Quiet(t)
      PROVE  KnownInv' /\ StreamInv' /\ Matched'
  <2>1. Base /\ StreamInv /\ Matched /\ TypeOK
    BY <1>1, <1>2, <1>4 DEF IInv
  <2>2. TableStep(t)
    BY <1>4, <2>1, TouchingStep, QuietStep DEF ThreadStep
  <2>3. KnownInv' /\ StreamInv'
    BY <1>4, <2>1, <2>2, TableStepKeeps
  <2>4. Matched'
    BY <1>4, <2>1, TouchingMatched, QuietMatched
  <2> QED
    BY <2>3, <2>4
<1> QED
  BY <1>1, <1>3, <1>4, NextIs DEF IInv

LEMMA IInvAlways == Spec => []IInv
<1>1. Init => IInv
  BY InitMatched
<1>2. IInv /\ [Next]_vars => IInv'
  BY IInvNext
<1> QED
  BY <1>1, <1>2, PTL DEF Spec

(* What has been sent over a connection arrives in order and none twice,   *)
(* as long as no thread has used the context of another socket: send,      *)
(* handle_tcp_write, close, and add_fd, which leaves write_buf alone.      *)
THEOREM StreamsIntact == Spec => []StreamIntact
<1>1. IInv => StreamIntact
  BY StreamIs DEF IInv
<1> QED
  BY <1>1, IInvAlways, PTL

(* Until then every context in use is that of the socket its descriptor    *)
(* names, is watched by the transport that opened it and has its name      *)
(* unless it is being named, and a socket without a context is about to be *)
(* closed.  The order of the steps of close.                               *)
THEOREM ContextsMatch == Spec => []ContextsMatchSockets
<1>1. IInv => ContextsMatchSockets
  <2> SUFFICES ASSUME IInv PROVE ContextsMatchSockets
    OBVIOUS
  <2>1. TypeOK
    BY DEF IInv
  <2>2. ASSUME ~strayed, NEW fd \in DOMAIN ctx, InUse(fd)
        PROVE  /\ sock[fd] = ctx[fd].sk /\ "r" \in interest[ctx[fd].by][fd]
               /\ ctx[fd].trans = ctx[fd].by \/ BeingNamed(fd)
    BY <2>2 DEF IInv, Matched, TablesInv, ContextOK, NamesInv
  <2>3. ASSUME ~strayed, NEW fd \in Fds, sock[fd] # 0
        PROVE  \/ fd \in DOMAIN ctx /\ InUse(fd) /\ ctx[fd].sk = sock[fd]
               \/ \E t \in Trans : \E i \in DOMAIN stack[t] :
                    stack[t][i].pc = "shut" /\ stack[t][i].fd = fd
    <3>1. fd \in DOMAIN ctx /\ (InUse(fd) \/ \E t \in Trans : ShutAt(t, fd))
      BY <2>3 DEF IInv, Matched, TablesInv, FdOK
    <3>2. ASSUME NEW t \in Trans, ShutAt(t, fd)
          PROVE  \E i \in DOMAIN stack[t] : stack[t][i].pc = "shut" /\ stack[t][i].fd = fd
      <4>1. stack[t] # <<>> /\ stack[t] \in Seq(Frame)
        BY <2>1, <3>2 DEF ShutAt, At, TypeOK
      <4>2. 1 \in DOMAIN stack[t] /\ stack[t][1] = Head(stack[t])
        BY <4>1, EmptySeq
      <4> QED
        BY <3>2, <4>2 DEF ShutAt, At, Fd
    <3>3. CASE InUse(fd)
      BY <2>2, <2>3, <3>1, <3>3
    <3> QED
      BY <3>1, <3>2, <3>3
  <2> QED
    BY <2>1, <2>2, <2>3 DEF ContextsMatchSockets
<1> QED
  BY <1>1, IInvAlways, PTL

(* Until then, bytes wait in a write buffer exactly as long as the poller  *)
(* watches for room to send them: toggle_write after every send and every  *)
(* handle_tcp_write.                                                       *)
THEOREM WaitingWatched == Spec => []WaitingIsWatched
<1>1. IInv => WaitingIsWatched
  BY DEF IInv, Matched, TablesInv, ContextOK, WaitingIsWatched, TCP
<1> QED
  BY <1>1, IInvAlways, PTL

(* A thread that was idle is on its way to g_close_socket only after       *)
(* UserClose.                                                              *)
LEMMA IdleCloses ==
  ASSUME TypeOK, NEW t \in Trans, NEW u \in Trans, Touching(u) \/ Quiet(u),
         stack[t] = <<>>, stack'[t] # <<>>, Head(stack'[t]).pc = "shut"
  PROVE  u = t /\ \E id \in known[t] : UserClose(t, id)
<1>1. stack \in [Trans -> Seq(Frame)]
  BY DEF TypeOK
<1>2. u = t
  <2>1. \E s \in Seq(Frame) : Goto(u, s)
    BY TouchingStep, QuietStep DEF ThreadStep
  <2> QED
    BY <1>1, <2>1 DEF Goto
<1>3. \A pc : ~At(t, pc)
  BY DEF At
<1>4. ~EdaCallback(t) /\ ~EndConnection(t) /\ ~HandlerClose(t) /\ ~NameContext(t)
  BY <1>3 DEF EdaCallback, EndConnection, HandlerClose, NameContext
<1>5. /\ ~CloseSocket(t) /\ ~PollReturns(t) /\ ~Read(t) /\ ~Accept(t) /\ ~UdpRead(t)
      /\ ~HandlerReads(t) /\ ~HandlerReturns(t)
  BY <1>3 DEF CloseSocket, PollReturns, Read, Accept, UdpRead, HandlerReads, HandlerReturns
<1>6. ASSUME NEW f, f.pc # "shut", Goto(t, <<f>>) PROVE FALSE
  BY <1>1, <1>6 DEF Goto
<1>7. ASSUME NEW fd \in Fds, NEW type \in Opens, Open(t, fd, type) PROVE FALSE
  <2> DEFINE f == F("name", fd, opened + 1, "")
  <2>1. Goto(t, <<f>> \o <<>>)
    BY <1>7 DEF Open, NewSocket
  <2>2. f.pc = "name"
    BY DEF F
  <2> HIDE DEF f
  <2>3. <<f>> \o <<>> = <<f>>
    OBVIOUS
  <2> QED
    BY <1>6, <2>1, <2>2, <2>3
<1>8. /\ \A v \in Trans : \A id \in known[v] : ~Clone(t, id)
      /\ \A id \in known[t] : \A n \in 1 .. MaxBytes : ~Send(t, id, n)
  BY DEF Clone, Send
<1>9. ~poll(t)
  <2> SUFFICES ASSUME poll(t) PROVE FALSE
    OBVIOUS
  <2> DEFINE f == F("event", -1, 0, "")
  <2>1. Goto(t, <<f>>)
    BY DEF poll
  <2>2. f.pc = "event"
    BY DEF F
  <2> HIDE DEF f
  <2> QED
    BY <1>6, <2>1, <2>2
<1> QED
  BY <1>2, <1>4, <1>5, <1>7, <1>8, <1>9 DEF Touching, Quiet

(* transport::close by an id that the user has kept from before the poll   *)
(* finds the connection of that id in its context or closes nothing,       *)
(* whoever has opened and closed the descriptor in the meantime, unless    *)
(* add_fd is between its two stores for it in another thread.              *)
THEOREM UserClosesItsOwn == Spec => ClosesItsOwn
<1> DEFINE Own(t) ==
      ~strayed /\ stack[t] = <<>> /\ stack'[t] # <<>> /\ Head(stack'[t]).pc = "shut"
      => LET f == Head(stack'[t]) IN
         BeingNamed(f.fd) \/ (InUse(f.fd) /\ ctx[f.fd].sk = f.sk /\ sock[f.fd] = f.sk)
<1>1. ASSUME IInv, Next, NEW t \in Trans PROVE Own(t)
  <2> SUFFICES ASSUME ~strayed, stack[t] = <<>>, stack'[t] # <<>>, Head(stack'[t]).pc = "shut"
               PROVE  LET f == Head(stack'[t]) IN
                      BeingNamed(f.fd) \/ (InUse(f.fd) /\ ctx[f.fd].sk = f.sk /\ sock[f.fd] = f.sk)
    OBVIOUS
  <2>1. Base /\ TypeOK /\ Matched
    BY <1>1 DEF IInv, Base
  <2>2. PICK id \in known[t] : UserClose(t, id)
    BY <1>1, <2>1, NextIs, IdleCloses
  <2> DEFINE fd == id.fd  sk == id.sk  s == <<>>
  <2>3. \/ /\ Goto(t, <<F("shut", fd, sk, "")>> \o s) /\ Same(Tid(id.fd), id)
           /\ fd \in Fds \cup {-1} /\ sk \in Nat
        \/ Goto(t, s)
    BY <2>1, <2>2, UserCloseSteps
  <2>4. s \in Seq(Frame)
    OBVIOUS
  <2>5. ~Goto(t, s)
    BY <2>1 DEF Goto, TypeOK
  <2>6. /\ fd \in DOMAIN ctx /\ InUse(fd) /\ ctx[fd].trans = t
        /\ ctx[fd].by = t => ctx[fd].sk = sk
    BY <2>1, <2>3, <2>5, KnownIsOwn
  <2> HIDE DEF fd, sk, s
  <2>7. Head(stack'[t]).fd = fd /\ Head(stack'[t]).sk = sk
    BY <2>1, <2>3, <2>4, <2>5, LandsShut
  <2>8. sock[fd] = ctx[fd].sk /\ (ctx[fd].by # t => BeingNamed(fd))
    BY <2>1, <2>6 DEF Matched, TablesInv, ContextOK, NamesInv
  <2> QED
    BY <2>6, <2>7, <2>8
<1>2. IInv /\ [Next]_vars => [\A t \in Trans : Own(t)]_vars
  <2> SUFFICES ASSUME IInv, Next PROVE \A t \in Trans : Own(t)
    OBVIOUS
  <2> HIDE DEF Own
  <2> QED
    BY <1>1
<1> QED
  BY <1>2, IInvAlways, PTL DEF Spec, ClosesItsOwn
=============================================================================
