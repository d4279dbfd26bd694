------------------------------ MODULE Transport ------------------------------
(***************************************************************************)
(* sax::transport (sax/net/netutil.cpp): several transports, a thread      *)
(* each, that share one array of contexts (clone) and turn the readiness   *)
(* of sockets into callbacks of a handler, which calls back into them.     *)
(*                                                                         *)
(* A thread is a stack of frames, its innermost first: what eda_callback   *)
(* and the functions under it still have to do, and the handler callbacks  *)
(* they are waiting for.  Threads meet in the table of descriptors: one    *)
(* reuses the number that another has just closed.                         *)
(*                                                                         *)
(* A context belongs to the thread that has opened it, and nothing locks   *)
(* it.  A step ends where another thread can take the context for its own: *)
(* between the two stores of an id (NewSocket, NameContext) and before     *)
(* g_close_socket (Close, CloseSocket).  An id is compared in one step, as *)
(* only the thread that compares ever stores its own transport's name: if  *)
(* it finds the name, the name was there when it read the number.  Where a *)
(* thread does take another's context the model says so (strayed), and     *)
(* from then on follows one order of the stores; the properties claim      *)
(* nothing of what comes after.                                            *)
(*                                                                         *)
(* External, and as lenient as the calls allow: the kernel's descriptors   *)
(* and sockets (sock), what a read or write returns, the epoll sets        *)
(* (interest), and a poll, which reports any of the registered descriptors *)
(* in any order.                                                           *)
(***************************************************************************)
EXTENDS Integers, Sequences, SequencesExt, FiniteSets

CONSTANTS Trans,      \* the transports, and their threads
          MaxFds,     \* _maxfds: the length of _ctx
          Fds,        \* the descriptors the kernel hands out
          SeqLimit,   \* _seq counts modulo SeqLimit: 2^31
          Opens,      \* the kinds of socket the program opens
          CloseFrom,  \* the callbacks in which handlers close their connection
          UserCloses, \* the kinds of socket that are closed between two polls
          MayRunOut,  \* whether a write buffer may fail to grow
          MaxOpens,   \* bound: sockets opened in all
          MaxBytes    \* bound: bytes sent over the connections that are open

Types == {"TCP_LISTEN", "UDP_BIND", "TCP_CONNECTION"}
Callbacks == {"accepted", "sent", "received", "last", "udp", "closed"}

ASSUME TransportAssumption ==
  /\ MaxFds \in Nat /\ Fds \subseteq Nat /\ IsFiniteSet(Fds)
  /\ MaxOpens \in Nat /\ MaxBytes \in Nat /\ SeqLimit \in Nat
  /\ SeqLimit > MaxOpens  \* an id is not kept for 2^31 openings
  /\ Opens \subseteq Types /\ UserCloses \subseteq Types /\ CloseFrom \subseteq Callbacks

VARIABLES
  sock,      \* the socket each descriptor names, 0 if it is free
  opened,    \* the sockets opened so far; they are numbered from 1
  interest,  \* what each transport's _eda watches each descriptor for
  ctx,       \* _ctx
  seq,       \* _seq of each transport
  known,     \* the ids each transport's user has been given
  round,     \* the events of the poll that are still to be handled
  stack,     \* the frames of each thread
  strayed    \* for the properties: a thread has written or closed with the
             \* context of another socket than its event, callback or id is about

vars == <<sock, opened, interest, ctx, seq, known, round, stack, strayed>>

(* _ctx[fd]: write_buf holds the bytes to be sent, NULL and empty alike;   *)
(* unread says whether read_buf holds data.  For the properties: sk and    *)
(* by, the socket it was set up for and the transport that did it, took,   *)
(* the bytes the socket has taken, said, how many bytes send has accepted, *)
(* and ranout, whether a put has failed.                                   *)
Context == [type : Types \cup {"none"}, seq : -1 .. SeqLimit - 1, trans : Trans \cup {"none"},
            unread : BOOLEAN, write_buf : Seq(Nat), sk : Nat, by : Trans \cup {"none"},
            took : Seq(Nat), said : Nat, ranout : BOOLEAN]
Id == [fd : Fds \cup {-1}, seq : -1 .. SeqLimit - 1, trans : Trans, sk : Nat,
       type : Types \cup {"none"}]
Event == [fd : Fds, sk : Nat, mask : SUBSET {"r", "w", "e"}]
Frame == {f \in [pc : {"event", "read", "accept", "udp", "end", "handler", "done", "name", "shut"},
                 fd : Fds \cup {-1}, sk : Nat, how : Callbacks \cup {""}] :
            f.pc = "name" => f.fd \in 0 .. MaxFds - 1}

TypeOK ==
  /\ sock \in [Fds -> Nat] /\ opened \in 0 .. MaxOpens
  /\ interest \in [Trans -> [Fds -> SUBSET {"r", "w"}]]
  /\ ctx \in [0 .. MaxFds - 1 -> Context]
  /\ seq \in [Trans -> 0 .. SeqLimit - 1]
  /\ known \in [Trans -> SUBSET Id]
  /\ round \in [Trans -> Seq(Event)]
  /\ stack \in [Trans -> Seq(Frame)]
  /\ strayed \in BOOLEAN

NoContext == [type |-> "none", seq |-> -1, trans |-> "none", unread |-> FALSE,
              write_buf |-> <<>>, sk |-> 0, by |-> "none", took |-> <<>>, said |-> 0, ranout |-> FALSE]

Init ==
  /\ sock = [fd \in Fds |-> 0] /\ opened = 0
  /\ interest = [t \in Trans |-> [fd \in Fds |-> {}]]
  /\ ctx = [fd \in 0 .. MaxFds - 1 |-> NoContext]
  /\ seq = [t \in Trans |-> 0]
  /\ known = [t \in Trans |-> {}]
  /\ round = [t \in Trans |-> <<>>]
  /\ stack = [t \in Trans |-> <<>>]
  /\ strayed = FALSE

-----------------------------------------------------------------------------
(* Frames *)

F(pc, fd, sk, how) == [pc |-> pc, fd |-> fd, sk |-> sk, how |-> how]
At(t, pc) == stack[t] # <<>> /\ Head(stack[t]).pc = pc
Fd(t) == Head(stack[t]).fd
How(t) == Head(stack[t]).how
Below(t) == Tail(stack[t])
Goto(t, frames) == stack' = [stack EXCEPT ![t] = frames]

(* The user's code runs: outside poll, or in a callback.                   *)
Users(t) == stack[t] = <<>> \/ At(t, "handler") \/ At(t, "done")

InUse(fd) == ctx[fd].seq # -1

(* The context of fd is used for what has happened to socket sk.           *)
Uses(fd, sk) == strayed' = (strayed \/ ctx[fd].sk # sk)

Tid(fd) == [fd |-> fd, seq |-> ctx[fd].seq, trans |-> ctx[fd].trans, sk |-> ctx[fd].sk]

(* A slip: ids of different transports are not told apart. *)
SameSeq(a, b) == a.seq = b.seq

(* transport::id::operator== *)
Same(a, b) == a.seq = b.seq /\ a.trans = b.trans

-----------------------------------------------------------------------------
(* Opening and closing *)

(* g_tcp_connect, g_tcp_listen, g_udp_open or g_tcp_accept, and add_fd up  *)
(* to its store of the number (line 136): a new socket, and its context,   *)
(* which keeps the transport of the socket before.  Until the number is    *)
(* stored it is -1 and the context is in no use.  Where add_fd refuses the *)
(* descriptor, beyond _maxfds or because epoll does, the socket is closed  *)
(* again and nothing is left.                                              *)
NewSocket(t, fd, type, how, frames) ==
  /\ opened < MaxOpens
  /\ sock[fd] = 0
  /\ fd < MaxFds
  /\ opened' = opened + 1
  /\ sock' = [sock EXCEPT ![fd] = opened + 1]
  /\ ctx' = [ctx EXCEPT ![fd] = [NoContext EXCEPT
       !.type = type, !.seq = seq[t], !.trans = ctx[fd].trans, !.write_buf = ctx[fd].write_buf,
       !.sk = opened + 1, !.by = t]]
  /\ interest' = [interest EXCEPT ![t][fd] = {"r"}]
  /\ seq' = [seq EXCEPT ![t] = (@ + 1) % SeqLimit]
  /\ Goto(t, <<F("name", fd, opened + 1, how)>> \o frames)
  /\ UNCHANGED <<known, round>>

(* listen, bind, connect *)
Open(t, fd, type) ==
  /\ Users(t)
  /\ NewSocket(t, fd, type, "", stack[t])

Callback(fd, sk, how) == <<F("handler", fd, sk, how)>>

(* The last store of add_fd (line 137): until then the id of the context   *)
(* has the new number and the old transport, and an id which that one has  *)
(* given out before may be equal to it.  Then the id goes to the user.     *)
NameContext(t) ==
  LET fd == Fd(t)
      sk == Head(stack[t]).sk IN
  /\ At(t, "name")
  /\ ctx' = [ctx EXCEPT ![fd].trans = t]
  /\ known' = [known EXCEPT ![t] = @ \cup
       {[fd |-> fd, seq |-> ctx[fd].seq, trans |-> t, sk |-> sk, type |-> ctx[fd].type]}]
  /\ Goto(t, IF How(t) = "accepted" THEN Callback(fd, sk, "accepted") \o Below(t) ELSE Below(t))
  /\ Uses(fd, sk)
  /\ UNCHANGED <<sock, opened, interest, seq, round>>

(* listen_clone, bind_clone: another transport watches the socket as well, *)
(* by the id of a socket that is open.                                     *)
Clone(t, source) ==
  LET fd == source.fd IN
  /\ Users(t)
  /\ ctx[fd].type \in {"TCP_LISTEN", "UDP_BIND"} /\ ctx[fd].sk = source.sk
  /\ interest[t][fd] = {} /\ sock[fd] # 0
  /\ interest' = [interest EXCEPT ![t][fd] = {"r"}]
  /\ UNCHANGED <<sock, opened, ctx, seq, known, round, stack>>

(* A slip: the context still looks open when the socket is closed. *)
CloseKeepsContext(t, id, frames) ==
  IF Same(Tid(id.fd), id)
  THEN /\ interest' = [interest EXCEPT ![t][id.fd] = {}]
       /\ Goto(t, <<F("shut", id.fd, id.sk, "")>> \o frames) /\ UNCHANGED ctx
  ELSE UNCHANGED <<interest, ctx>> /\ Goto(t, frames)

(* transport::close up to its last call, g_close_socket, which the frame   *)
(* "shut" has still to make; an id that has lost its context is refused.   *)
Close(t, id, frames) ==
  IF Same(Tid(id.fd), id)
  THEN /\ interest' = [interest EXCEPT ![t][id.fd] = {}]
       /\ ctx' = [ctx EXCEPT ![id.fd] = [NoContext EXCEPT
            !.type = ctx[id.fd].type, !.trans = ctx[id.fd].trans, !.by = ctx[id.fd].by]]
       /\ Goto(t, <<F("shut", id.fd, id.sk, "")>> \o frames)
  ELSE UNCHANGED <<interest, ctx>> /\ Goto(t, frames)

(* g_close_socket; epoll forgets the descriptor. *)
CloseSocket(t) ==
  /\ At(t, "shut")
  /\ sock' = [sock EXCEPT ![Fd(t)] = 0]
  /\ interest' = [u \in Trans |-> [interest[u] EXCEPT ![Fd(t)] = {}]]
  /\ Goto(t, Below(t))
  /\ UNCHANGED <<opened, ctx, seq, known, round>>

(* The user closes a connection by an id it has kept, between two polls.   *)
UserClose(t, id) ==
  /\ stack[t] = <<>>
  /\ id.type \in UserCloses
  /\ Close(t, id, <<>>)
  /\ IF Same(Tid(id.fd), id) THEN Uses(id.fd, id.sk) ELSE UNCHANGED strayed
  /\ UNCHANGED <<sock, opened, seq, known, round>>

(* A handler closes the connection its callback is about, once.            *)
HandlerClose(t) ==
  /\ At(t, "handler")
  /\ How(t) \in CloseFrom
  /\ LET id == [Tid(Fd(t)) EXCEPT !.sk = Head(stack[t]).sk] IN
       Close(t, id, <<[Head(stack[t]) EXCEPT !.pc = "done"]>> \o Below(t))
  /\ Uses(Fd(t), Head(stack[t]).sk)
  /\ UNCHANGED <<sock, opened, seq, known, round>>

-----------------------------------------------------------------------------
(* Sending *)

(* The kernel takes the first k bytes of bs. *)
Takes(fd, bs, k) == [ctx EXCEPT ![fd].took = @ \o SubSeq(bs, 1, k),
                                ![fd].write_buf = SubSeq(bs, k + 1, Len(bs))]

(* A slip: the poller is not told of the bytes that were left over. *)
no_toggle(t, fd, on) == interest' = [interest EXCEPT ![t][fd] = @ \ (IF on THEN {} ELSE {"w"})]

(* epoll refuses to change what it does not watch.                         *)
toggle_write(t, fd, on) ==
  interest' = [interest EXCEPT ![t][fd] =
    IF @ = {} THEN {} ELSE IF on THEN {"r", "w"} ELSE {"r"}]

New(fd, n) == [i \in 1 .. n |-> ctx[fd].said + i]

(* send with nothing waiting: the socket is tried at once (k = 0: EAGAIN)  *)
(* and the rest is put into the write buffer.                              *)
SendDirect(t, fd, n, k) ==
  /\ ctx[fd].write_buf = <<>>
  /\ ctx' = [Takes(fd, New(fd, n), k) EXCEPT ![fd].said = @ + n]
  /\ IF k < n THEN toggle_write(t, fd, TRUE) ELSE UNCHANGED interest

(* ... or the rest cannot be put and goes out by blocking_send, which      *)
(* always reports a failure.  After EAGAIN its arguments are buf + ret and *)
(* length - ret with ret = -1: the byte before buf goes out first.         *)
SendBlocking(t, fd, n, k) ==
  /\ MayRunOut
  /\ ctx[fd].write_buf = <<>>
  /\ ctx' = [ctx EXCEPT ![fd].took = @ \o (IF k = 0 THEN <<0>> ELSE <<>>) \o New(fd, n),
                        ![fd].ranout = TRUE]
  /\ UNCHANGED interest

(* A slip: bytes are tried at once even though others are waiting. *)
SendAhead(t, fd, n) ==
  /\ ctx[fd].write_buf # <<>>
  /\ ctx' = [ctx EXCEPT ![fd].took = @ \o New(fd, n), ![fd].said = @ + n]
  /\ UNCHANGED interest

(* send behind bytes that are waiting: the poller has been told of those.  *)
(* The result of put is not looked at.                                     *)
SendBehind(t, fd, n) ==
  /\ ctx[fd].write_buf # <<>>
  /\ \E fits \in IF MayRunOut THEN BOOLEAN ELSE {TRUE} :
       ctx' = [ctx EXCEPT ![fd].write_buf = @ \o (IF fits THEN New(fd, n) ELSE <<>>),
                          ![fd].said = @ + n,
                          ![fd].ranout = @ \/ ~fits]
  /\ UNCHANGED interest

(* transport::send with an id the user has kept, which is refused when its *)
(* connection is gone; on_tcp_send, which send calls last, changes nothing *)
(* here that the caller could not do next.                                 *)
Send(t, id, n) ==
  LET fd == id.fd IN
  /\ Users(t)
  /\ ctx[fd].type = "TCP_CONNECTION" /\ Same(Tid(fd), id)
  /\ MapThenSumSet(LAMBDA c : ctx[c].said, DOMAIN ctx) + n <= MaxBytes /\ ~ctx[fd].ranout
  /\ \/ \E k \in 0 .. n : SendDirect(t, fd, n, k)
     \/ \E k \in 0 .. n - 1 : SendBlocking(t, fd, n, k)
     \/ SendBehind(t, fd, n)
  /\ Uses(fd, id.sk)
  /\ UNCHANGED <<sock, opened, seq, known, round, stack>>

-----------------------------------------------------------------------------
(* Polling *)

(* What the poller may report of a descriptor: an error, asked or not.     *)
Masks(t, fd) == ((SUBSET interest[t][fd]) \ {{}}) \cup {{"e"}}

(* g_eda_poll: the events of one epoll_wait, to be handled one by one; or  *)
(* it times out and there are none.                                        *)
poll(t) ==
  /\ stack[t] = <<>>
  /\ \E ready \in SUBSET {fd \in Fds : interest[t][fd] # {}} :
       \E mask \in [ready -> SUBSET {"r", "w", "e"}], order \in SetToSeqs(ready) :
         /\ \A fd \in ready : mask[fd] \in Masks(t, fd)
         /\ round' = [round EXCEPT ![t] =
              [i \in DOMAIN order |-> [fd |-> order[i], sk |-> sock[order[i]],
                                       mask |-> mask[order[i]]]]]
  /\ Goto(t, <<F("event", -1, 0, "")>>)
  /\ UNCHANGED <<sock, opened, interest, ctx, seq, known>>

PollReturns(t) ==
  /\ At(t, "event") /\ round[t] = <<>>
  /\ Goto(t, Below(t))
  /\ UNCHANGED <<sock, opened, interest, ctx, seq, known, round>>

HandlerReturns(t) ==
  /\ At(t, "handler") \/ At(t, "done")
  /\ Goto(t, Below(t))
  /\ UNCHANGED <<sock, opened, interest, ctx, seq, known, round>>

(* handle_tcp_write: the socket takes the first k of the bytes waiting,    *)
(* and the rest stays; or it is found broken and the connection ends.      *)
handle_tcp_write(t, e, frames) ==
  LET bs == ctx[e.fd].write_buf IN
  \E k \in 0 .. Len(bs) :
    \/ /\ ctx' = Takes(e.fd, bs, k)
       /\ IF k = Len(bs) THEN toggle_write(t, e.fd, FALSE) ELSE UNCHANGED interest
       /\ Goto(t, Callback(e.fd, e.sk, "sent") \o frames)
    \/ /\ k < Len(bs)
       /\ Close(t, [Tid(e.fd) EXCEPT !.sk = e.sk], Callback(e.fd, e.sk, "closed") \o frames)

(* eda_callback: the next event of the round. *)
EdaCallback(t) ==
  LET e == Head(round[t])
      rest == IF "r" \in e.mask THEN <<F("read", e.fd, e.sk, "")>> \o stack[t] ELSE stack[t] IN
  /\ At(t, "event") /\ round[t] # <<>>
  /\ round' = [round EXCEPT ![t] = Tail(@)]
  /\ \/ /\ "e" \in e.mask
        /\ Close(t, [Tid(e.fd) EXCEPT !.sk = e.sk], Callback(e.fd, e.sk, "closed") \o stack[t])
     \/ "e" \notin e.mask /\ "w" \in e.mask /\ handle_tcp_write(t, e, rest)
     \/ e.mask = {"r"} /\ Goto(t, rest) /\ UNCHANGED <<ctx, interest>>
  /\ IF e.mask = {"r"} THEN UNCHANGED strayed ELSE Uses(e.fd, e.sk)
  /\ UNCHANGED <<sock, opened, seq, known>>

(* handle_tcp_read: data or nothing has come; or the stream has ended, or  *)
(* failed, or does not fit in the read buffer, and what is unread is       *)
(* handed over a last time before the connection is closed.                *)
handle_tcp_read(t, fd, sk) ==
  \/ \E more \in BOOLEAN :
       /\ ctx' = [ctx EXCEPT ![fd].unread = @ \/ more]
       /\ Goto(t, Callback(fd, sk, "received") \o Below(t))
  \/ /\ Goto(t, (IF ctx[fd].unread THEN Callback(fd, sk, "last") ELSE <<>>)
                \o (<<F("end", fd, sk, "")>> \o Below(t)))
     /\ UNCHANGED ctx

(* The rest of eda_callback: what the descriptor became readable for.      *)
Read(t) ==
  LET fd == Fd(t)
      sk == Head(stack[t]).sk IN
  /\ At(t, "read")
  /\ \/ /\ ctx[fd].type = "TCP_LISTEN"
        /\ Goto(t, <<F("accept", fd, sk, "")>> \o Below(t)) /\ UNCHANGED ctx
     \/ /\ ctx[fd].type = "UDP_BIND"
        /\ Goto(t, <<F("udp", fd, sk, "")>> \o Below(t)) /\ UNCHANGED ctx
     \/ /\ ctx[fd].type = "TCP_CONNECTION"
        /\ IF InUse(fd) THEN handle_tcp_read(t, fd, sk)
                        ELSE Goto(t, Below(t)) /\ UNCHANGED ctx
  /\ UNCHANGED <<sock, opened, interest, seq, known, round>>

(* The end of handle_tcp_read: id tid = ctx.tid; close(tid); on_closed.    *)
EndConnection(t) ==
  LET sk == Head(stack[t]).sk IN
  /\ At(t, "end")
  /\ Close(t, [Tid(Fd(t)) EXCEPT !.sk = sk], Callback(Fd(t), sk, "closed") \o Below(t))
  /\ Uses(Fd(t), sk)
  /\ UNCHANGED <<sock, opened, seq, known, round>>

(* handle_tcp_accept: one more connection (its frame stays), or no more.   *)
Accept(t) ==
  /\ At(t, "accept")
  /\ \/ /\ sock[Fd(t)] # 0
        /\ \E fd \in Fds : NewSocket(t, fd, "TCP_CONNECTION", "accepted", stack[t])
     \/ Goto(t, Below(t)) /\ UNCHANGED <<sock, opened, interest, ctx, seq, known, round>>

(* handle_udp_read: one more packet, or no more. *)
UdpRead(t) ==
  /\ At(t, "udp")
  /\ \/ Goto(t, Callback(Fd(t), Head(stack[t]).sk, "udp") \o stack[t])
     \/ Goto(t, Below(t))
  /\ UNCHANGED <<sock, opened, interest, ctx, seq, known, round>>

(* A handler reads all that on_tcp_received gave it. *)
HandlerReads(t) ==
  /\ At(t, "handler") /\ How(t) \in {"received", "last"}
  /\ ctx[Fd(t)].unread
  /\ ctx' = [ctx EXCEPT ![Fd(t)].unread = FALSE]
  /\ UNCHANGED <<sock, opened, interest, seq, known, round, stack>>

Next ==
  \E t \in Trans :
    \/ EdaCallback(t) \/ EndConnection(t) \/ HandlerClose(t) \/ NameContext(t)
    \/ \E id \in known[t] : UserClose(t, id) \/ \E n \in 1 .. MaxBytes : Send(t, id, n)
    \/ /\ \/ \E fd \in Fds, type \in Opens : Open(t, fd, type)
          \/ \E u \in Trans : \E id \in known[u] : Clone(t, id)
          \/ CloseSocket(t)
          \/ poll(t) \/ PollReturns(t) \/ Read(t) \/ Accept(t) \/ UdpRead(t)
          \/ HandlerReads(t) \/ HandlerReturns(t)
       /\ UNCHANGED strayed

Spec == Init /\ [][Next]_vars

-----------------------------------------------------------------------------
(* Properties *)

(* Some thread is between the two stores of the id of fd. *)
BeingNamed(fd) == \E t \in Trans : At(t, "name") /\ Fd(t) = fd

(* A context in use is that of the socket its descriptor names, watched by *)
(* the transport that opened it, and has that one's name except while it   *)
(* is being named; and no socket is open without a context, except while   *)
(* close is on its way to g_close_socket: the order of its steps keeps     *)
(* another thread from reusing a descriptor whose context is not cleared.  *)
(* This ends when a thread has used the context of another socket, for a   *)
(* late event or by an id kept from before while the context is being      *)
(* named: then two of them may close one descriptor.  All the while        *)
(* everything has its type.                                                *)
ContextsMatchSockets ==
  /\ TypeOK
  /\ ~strayed =>
       /\ \A fd \in DOMAIN ctx : InUse(fd) =>
            /\ sock[fd] = ctx[fd].sk /\ "r" \in interest[ctx[fd].by][fd]
            /\ ctx[fd].trans = ctx[fd].by \/ BeingNamed(fd)
       /\ \A fd \in Fds : sock[fd] # 0 =>
            \/ fd \in DOMAIN ctx /\ InUse(fd) /\ ctx[fd].sk = sock[fd]
            \/ \E t \in Trans : \E i \in DOMAIN stack[t] :
                 stack[t][i].pc = "shut" /\ stack[t][i].fd = fd

(* The stream of a connection: what its socket has taken and what waits in *)
(* the write buffer are the bytes send accepted, in order, none twice,     *)
(* across send, handle_tcp_write and the callbacks in between; until a     *)
(* thread has used the context of another socket.                          *)
StreamIntact ==
  ~strayed =>
    \A fd \in DOMAIN ctx : InUse(fd) /\ ~ctx[fd].ranout =>
      ctx[fd].took \o ctx[fd].write_buf = [i \in 1 .. ctx[fd].said |-> i]

(* Until then, bytes wait in the write buffer exactly as long as the       *)
(* poller of the transport that opened the connection watches for room to  *)
(* send them: toggle_write keeps step with send and handle_tcp_write, so   *)
(* no bytes are stuck and no poll spins.  A send by an id kept from before *)
(* that reaches the connection while it is being named has strayed.        *)
WaitingIsWatched ==
  ~strayed =>
    \A fd \in DOMAIN ctx : InUse(fd) /\ ctx[fd].type = "TCP_CONNECTION" =>
      (ctx[fd].write_buf # <<>> <=> "w" \in interest[ctx[fd].by][fd])

(* Until then, an id the user has kept closes no other connection that has *)
(* got the descriptor since, unless add_fd is between its two stores in    *)
(* another thread: the check at the head of transport::close, for ids of   *)
(* all transports, which number theirs independently.                      *)
ClosesItsOwn ==
  [][\A t \in Trans :
       ~strayed /\ stack[t] = <<>> /\ stack'[t] # <<>> /\ Head(stack'[t]).pc = "shut"
       => LET f == Head(stack'[t]) IN
          BeingNamed(f.fd) \/ (InUse(f.fd) /\ ctx[f.fd].sk = f.sk /\ sock[f.fd] = f.sk)]_vars

(* A callback about a connection finds that connection in its context:     *)
(* what eda_callback tests the sequence number for between its write part  *)
(* and its read part.                                                      *)
CallbacksFindTheirs ==
  \A t \in Trans : \A i \in DOMAIN stack[t] :
    LET f == stack[t][i] IN
    f.pc = "handler" /\ f.how \in {"sent", "received", "last"}
    => ctx[f.fd].sk = f.sk /\ InUse(f.fd)
=============================================================================
