--------------------------------- MODULE PthIO ---------------------------------
(***************************************************************************)
(* The I/O calls of Pth with extra events (pth/pth_high.c) and the message *)
(* ports whose arrivals such an event can be (pth/pth_msg.c).              *)
(*                                                                         *)
(* A call tries, waits for the descriptor (and the extra events) and tries *)
(* again. Threads share descriptors: what one has seen before its wait the *)
(* other changes, data, the mode and the descriptor itself.                *)
(* A call runs from one wait to the next in one step, a round of the       *)
(* scheduler is one step. A descriptor has `in` units to read (or          *)
(* connections to accept) and `out` units written which the peer has not   *)
(* taken yet.                                                              *)
(***************************************************************************)
EXTENDS PthEvent, Sequences, FiniteSets, SequencesExt

CONSTANTS
    Threads, Fds, Messages,
    NULL,
    Opened,         \* sets of descriptors that may be open at first
    Room,           \* units a descriptor takes before the peer does
    Backlog,        \* units or connections that come in before they are read
    Vectors,        \* what is written at once: sequences of lengths
    Does,           \* the calls <<op, fd>> each thread makes
    Sender,         \* whose port a message names as its reply port
    Extra,          \* threads that give extra events to their calls
    Pair,           \* those that have two of them, not one
    Victims,        \* threads that may be cancelled
    Leavers         \* threads that may destroy their ports

(* A call: what it is (or that it blocks the process), its descriptor,     *)
(* whether it has extra events and a timeout, the mode it found, and what  *)
(* it has to write still and has written.                                  *)
Calls == [op    : {"read", "write", "accept", "connect", "select", "blocked"},
          fd    : Fds,
          extra : BOOLEAN, timed : BOOLEAN,
          old   : {"BLOCK", "NONBLOCK"},
          iov   : Seq(Nat), left : Nat, wrote : Nat]

\* A socket that connections are accepted from has nothing to read.
ASSUME IOAssumption ==
    /\ NULL \notin Threads \cup Fds \cup Event /\ NULL \notin Calls
    /\ Opened \subseteq SUBSET Fds
    /\ Room \in Nat \ {0} /\ Backlog \in Nat \ {0}
    /\ Vectors \subseteq Seq(Nat)
    /\ Does \in [Threads -> SUBSET ({"read", "write", "accept", "connect", "select", "close"} \X Fds)]
    /\ \A t, u \in Threads, f \in Fds : <<"accept", f>> \in Does[t] => <<"read", f>> \notin Does[u]
    /\ Sender \in [Messages -> Threads]
    /\ Pair \subseteq Extra /\ Extra \subseteq Threads
    /\ Victims \cup Leavers \subseteq Threads
    /\ Event = Threads \X {"io", "time", "msg", "other"}

VARIABLES
    pth_current,    \* the thread that runs; NULL: the scheduler
    state,          \* ready, waiting or dead
    events,         \* head of the event ring a thread waits with, or NULL
    cancelreq,      \* a cancellation request is pending
    cancelstate,    \* deferred, async (both enabled) or disabled
    links,          \* of all events
    status,         \* PENDING, OCCURRED or FAILED, per event
    call,           \* the I/O call a thread is in, or NULL
    open, mode,     \* of a descriptor: valid; BLOCK or NONBLOCK
    in, out,
    conn,           \* none, progress or done
    mp_queue,       \* the messages at each thread's port, NULL: destroyed
    held,           \* the messages a thread has
    ret,            \* what the last step's writing call returned, or NULL
    taker           \* who read last, since something came in

cancel == <<cancelreq, cancelstate>>
sched == <<pth_current, state, events, cancel>>
files == <<open, mode, in, out, conn, taker>>
ports == <<mp_queue, held>>
vars  == <<sched, links, status, call, files, ports, ret>>

Io(t)    == <<t, "io">>         \* the static event of the call
Time(t)  == <<t, "time">>
Msg(t)   == <<t, "msg">>        \* arrivals at the thread's port
Other(t) == <<t, "other">>

Waiting == {t \in Threads : state[t] = "waiting"}
Ready   == {t \in Threads : state[t] = "ready"}

RingOf(t) == pth_event_walk(links, events[t])

Running(c)   == pth_current = c /\ call[c] = NULL

\* A request is heeded by a thread that has cancellation enabled.
Cancelled(c) == cancelreq[c] /\ cancelstate[c] # "disabled"

Back(c, op)  == /\ pth_current = c /\ call[c] # NULL /\ call[c].op = op
                /\ events[c] # NULL /\ ~Cancelled(c)

Mine(c, op, fd) == Running(c) /\ <<op, fd>> \in Does[c]

\* The extra events a thread has made: a ring of two, or one.
Given(t) == IF t \in Pair THEN Chain(Unlinked, Other(t), Msg(t)) ELSE Unlinked

Init ==
    /\ pth_current = NULL
    /\ state = [t \in Threads |-> "ready"]
    /\ events = [t \in Threads |-> NULL]
    /\ cancelreq = [t \in Threads |-> FALSE]
    /\ cancelstate = [t \in Threads |-> "deferred"]
    /\ links = [next |-> [e \in Event |-> Given(e[1]).next[e]],
                prev |-> [e \in Event |-> Given(e[1]).prev[e]]]
    /\ status = [e \in Event |-> "PENDING"]
    /\ call = [t \in Threads |-> NULL]
    /\ \E fds \in Opened : open = [f \in Fds |-> f \in fds]
    /\ mode = [f \in Fds |-> "BLOCK"]
    /\ in = [f \in Fds |-> 0]
    /\ out = [f \in Fds |-> 0]
    /\ conn = [f \in Fds |-> "none"]
    /\ mp_queue = [t \in Threads |-> <<>>]
    /\ held = [t \in Threads |-> {m \in Messages : Sender[m] = t}]
    /\ ret = NULL
    /\ taker = [f \in Fds |-> NULL]

-----------------------------------------------------------------------------
(*                             Waiting and returning                       *)

(* pth_wait in a call: the ring l is walked, its events are pending, then  *)
(* to the scheduler.                                                       *)
pth_wait(c, e, l) ==
    /\ links' = l
    /\ status' = [x \in Event |-> IF x \in pth_event_walk(l, e) THEN "PENDING" ELSE status[x]]
    /\ events' = [events EXCEPT ![c] = e]
    /\ state' = [state EXCEPT ![c] = "waiting"]
    /\ pth_current' = NULL
    /\ ret' = NULL
    /\ UNCHANGED cancel

\* The call's own event, with the extra events attached.
WithExtra(c, l, extra) == IF extra THEN pth_event_concat(l, Io(c), Msg(c)) ELSE l

Enter(c, op, fd, extra, old) ==
    [op |-> op, fd |-> fd, extra |-> extra, timed |-> FALSE, old |-> old,
     iov |-> <<>>, left |-> 0, wrote |-> 0]

\* What the status of events was matters no more: the next wait sets it.
Unwatched(t) == [e \in Event |-> IF e[1] = t THEN "PENDING" ELSE status[e]]

(* A call that has not waited yet, or goes on after a wait: cl is it, l    *)
(* are the links it leaves behind.                                         *)
Return(c, cl, l, rv, err) ==
    /\ ret' = IF cl.op = "write" THEN [rv |-> rv, err |-> err, wrote |-> cl.wrote] ELSE NULL
    /\ call' = [call EXCEPT ![c] = NULL]
    /\ links' = l
    /\ events' = [events EXCEPT ![c] = NULL]
    /\ status' = Unwatched(c)
    /\ UNCHANGED <<pth_current, state, cancel>>

\* After a wait with extra events: they ended it, the descriptor did not.
Interrupted(c) == call[c].extra /\ status[Io(c)] # "OCCURRED"

\* The links once the call's event is off the ring of the extra events.
Isolated(c) == IF call[c].extra THEN pth_event_isolate(links, Io(c)) ELSE links

(* pth_fdmode does nothing to a descriptor that is not valid. It returns   *)
(* the mode it found, which a call keeps in `old`.                         *)
pth_fdmode(md, fd, new) == IF open[fd] THEN [md EXCEPT ![fd] = new] ELSE md

-----------------------------------------------------------------------------
(*                                Reading                                  *)

(* read(2), readv(2), recvfrom(2): takes what there is, fails at once on a *)
(* nonblocking or closed descriptor, else blocks the process: the call     *)
(* stays, and no thread runs, until there is something.                    *)
DoRead(c, cl, l) ==
    \/ /\ ~open[cl.fd]
       /\ Return(c, cl, l, -1, "EBADF")
       /\ UNCHANGED <<in, taker>>
    \/ /\ open[cl.fd] /\ in[cl.fd] > 0
       /\ \E n \in 1 .. in[cl.fd] :
             /\ in' = [in EXCEPT ![cl.fd] = @ - n]
             /\ taker' = [taker EXCEPT ![cl.fd] = c]
             /\ Return(c, cl, l, n, "none")
    \/ /\ open[cl.fd] /\ in[cl.fd] = 0 /\ mode[cl.fd] = "NONBLOCK"
       /\ Return(c, cl, l, -1, "EAGAIN")
       /\ UNCHANGED <<in, taker>>
    \/ /\ open[cl.fd] /\ in[cl.fd] = 0 /\ mode[cl.fd] = "BLOCK"
       /\ call' = [call EXCEPT ![c] = [cl EXCEPT !.op = "blocked"]]
       /\ links' = l
       /\ events' = [events EXCEPT ![c] = NULL]
       /\ ret' = NULL
       /\ UNCHANGED <<pth_current, state, cancel, status, in, taker>>

\* Mutant: no poll, the wait is left to read(2).
Reading_NoPoll(c, fd, extra) ==
    /\ Mine(c, "read", fd)
    /\ DoRead(c, Enter(c, "read", fd, extra, mode[fd]), links)
    /\ UNCHANGED <<open, mode, out, conn, ports>>

\* A blocking descriptor that has nothing yet is waited for.
Reading(c, fd, extra) ==
    /\ Mine(c, "read", fd)
    /\ LET cl == Enter(c, "read", fd, extra, mode[fd])
       IN  IF open[fd] /\ mode[fd] = "BLOCK" /\ in[fd] = 0
             THEN /\ call' = [call EXCEPT ![c] = cl]
                  /\ pth_wait(c, Io(c), WithExtra(c, NewRing(links, Io(c)), extra))
                  /\ UNCHANGED <<in, taker>>
             ELSE DoRead(c, cl, links)
    /\ UNCHANGED <<open, mode, out, conn, ports>>

\* The three calls that differ in the system call they make.
pth_read_ev(c, fd, extra)     == Reading(c, fd, extra)
pth_readv_ev(c, fd, extra)    == Reading(c, fd, extra)
pth_recvfrom_ev(c, fd, extra) == Reading(c, fd, extra)

ReadReturns(c) ==
    /\ Back(c, "read")
    /\ IF Interrupted(c)
         THEN Return(c, call[c], Isolated(c), -1, "EINTR") /\ UNCHANGED <<in, taker>>
         ELSE DoRead(c, call[c], Isolated(c))
    /\ UNCHANGED <<open, mode, out, conn, ports>>

ReadUnblocks(c) ==
    /\ pth_current = c /\ call[c] # NULL /\ call[c].op = "blocked"
    /\ in[call[c].fd] > 0
    /\ DoRead(c, [call[c] EXCEPT !.op = "read"], links)
    /\ UNCHANGED <<open, mode, out, conn, ports>>

-----------------------------------------------------------------------------
(*                                Writing                                  *)

(* The units in the first k segments of a vector, and in all of it.        *)
Bytes(iov) == LET sum[k \in 0 .. Len(iov)] == IF k = 0 THEN 0 ELSE sum[k - 1] + iov[k]
              IN  sum

pth_writev_iov_bytes(iov) == Bytes(iov)[Len(iov)]

(* The segments that leave the vector are those that are reached before    *)
(* all is counted off, and written to their end.                           *)
Leaving(iov, advance) ==
    LET Leaves(i) == Bytes(iov)[i - 1] < advance /\ Bytes(iov)[i] <= advance
    IN  CHOOSE k \in 0 .. Len(iov) :
           (\A i \in 1 .. k : Leaves(i)) /\ (k = Len(iov) \/ ~Leaves(k + 1))

\* Mutant: a segment written in part keeps its length.
pth_writev_iov_advance_Keeps(iov, advance) == SubSeq(iov, Leaving(iov, advance) + 1, Len(iov))

\* A segment written in part loses that part.
pth_writev_iov_advance(iov, advance) ==
    LET k == Leaving(iov, advance)
    IN  IF k = Len(iov) THEN <<>>
        ELSE <<iov[k + 1] - (advance - Bytes(iov)[k])>> \o SubSeq(iov, k + 2, Len(iov))

Space(fd) == Room - out[fd]

(* write(2), writev(2), sendto(2), on a descriptor in nonblocking mode:    *)
(* s units of those left, or an error.                                     *)
Written(fd, left) ==
    IF ~open[fd] THEN {-1}
    ELSE IF Space(fd) = 0 THEN {-1}
    ELSE 1 .. (IF left < Space(fd) THEN left ELSE Space(fd))

WriteError(fd) == IF open[fd] THEN "EAGAIN" ELSE "EBADF"

(* One turn of the loop: all is written, or part of it and the rest waits  *)
(* for the descriptor; an error counts if nothing at all was written. In   *)
(* the end the mode is what it was; md are the modes before.               *)
WriteTurn(c, cl, l, md) ==
    \E s \in Written(cl.fd, cl.left) :
       LET cl2 == [cl EXCEPT !.wrote = @ + s, !.left = @ - s,
                             !.iov = pth_writev_iov_advance(@, s)]
       IN  \/ /\ s = -1
              /\ IF cl.wrote = 0 THEN Return(c, cl, l, -1, WriteError(cl.fd))
                                 ELSE Return(c, cl, l, cl.wrote, "none")
              /\ mode' = pth_fdmode(md, cl.fd, cl.old)
              /\ UNCHANGED out
           \/ /\ s = cl.left
              /\ Return(c, cl2, l, cl2.wrote, "none")
              /\ mode' = pth_fdmode(md, cl.fd, cl.old)
              /\ out' = [out EXCEPT ![cl.fd] = @ + s]
           \/ /\ s \in 1 .. cl.left - 1
              /\ call' = [call EXCEPT ![c] = cl2]
              /\ pth_wait(c, Io(c), WithExtra(c, NewRing(l, Io(c)), cl.extra))
              /\ mode' = md
              /\ out' = [out EXCEPT ![cl.fd] = @ + s]

\* Written to once, as the descriptor is nonblocking by itself.
WriteOnce(c, cl) ==
    \E s \in Written(cl.fd, cl.left) :
       /\ IF s > 0 THEN /\ Return(c, [cl EXCEPT !.wrote = s], links, s, "none")
                        /\ out' = [out EXCEPT ![cl.fd] = @ + s]
                   ELSE /\ Return(c, cl, links, -1, WriteError(cl.fd))
                        /\ UNCHANGED out
       /\ UNCHANGED mode

(* The descriptor is made nonblocking for the time of the call, and waited *)
(* for if it has no room.                                                  *)
Writing(c, fd, iov, extra) ==
    /\ Mine(c, "write", fd)
    /\ LET md == pth_fdmode(mode, fd, "NONBLOCK")
           cl == [Enter(c, "write", fd, extra, mode[fd]) EXCEPT
                    !.iov = iov, !.left = pth_writev_iov_bytes(iov)]
       IN  \/ /\ ~open[fd]
              /\ Return(c, cl, links, -1, "EBADF")
              /\ UNCHANGED <<mode, out>>
           \/ /\ open[fd] /\ mode[fd] = "NONBLOCK"
              /\ WriteOnce(c, cl)
           \/ /\ open[fd] /\ mode[fd] = "BLOCK" /\ Space(fd) > 0
              /\ WriteTurn(c, cl, links, md)
           \/ /\ open[fd] /\ mode[fd] = "BLOCK" /\ Space(fd) = 0
              /\ call' = [call EXCEPT ![c] = cl]
              /\ pth_wait(c, Io(c), WithExtra(c, NewRing(links, Io(c)), extra))
              /\ mode' = md
              /\ UNCHANGED out
    /\ UNCHANGED <<open, in, taker, conn, ports>>

\* A single segment, as for pth_sendto_ev, or a vector.
pth_write_ev(c, fd, extra)       == \E v \in Vectors : Len(v) = 1 /\ Writing(c, fd, v, extra)
pth_sendto_ev(c, fd, extra)      == \E v \in Vectors : Len(v) = 1 /\ Writing(c, fd, v, extra)
pth_writev_ev(c, fd, extra)      == \E v \in Vectors : Len(v) > 1 /\ Writing(c, fd, v, extra)

\* Mutant: an interrupted call leaves the mode.
WriteReturns_KeepsMode(c) ==
    /\ Back(c, "write")
    /\ IF Interrupted(c)
         THEN /\ Return(c, call[c], Isolated(c), -1, "EINTR")
              /\ UNCHANGED <<mode, out>>
         ELSE WriteTurn(c, call[c], Isolated(c), mode)
    /\ UNCHANGED <<open, in, taker, conn, ports>>

WriteReturns(c) ==
    /\ Back(c, "write")
    /\ IF Interrupted(c)
         THEN /\ Return(c, call[c], Isolated(c), -1, "EINTR")
              /\ mode' = pth_fdmode(mode, call[c].fd, call[c].old)
              /\ UNCHANGED out
         ELSE WriteTurn(c, call[c], Isolated(c), mode)
    /\ UNCHANGED <<open, in, taker, conn, ports>>

-----------------------------------------------------------------------------
(*                      Accepting, connecting, selecting                   *)

(* accept(2) in nonblocking mode, and the wait for a connection. The ring  *)
(* is made before the first wait only: what it was isolated from after     *)
(* that wait is not attached again.                                        *)
AcceptTurn(c, cl, l, md, ring) ==
    LET fd == cl.fd
    IN  \/ /\ ~open[fd]
           /\ Return(c, cl, l, -1, "EBADF")
           /\ mode' = md
           /\ UNCHANGED in
        \/ /\ open[fd] /\ in[fd] > 0
           /\ in' = [in EXCEPT ![fd] = @ - 1]
           /\ Return(c, cl, l, 0, "none")
           /\ mode' = pth_fdmode(md, fd, cl.old)
        \/ /\ open[fd] /\ in[fd] = 0 /\ cl.old = "NONBLOCK"
           /\ Return(c, cl, l, -1, "EAGAIN")
           /\ mode' = pth_fdmode(md, fd, cl.old)
           /\ UNCHANGED in
        \/ /\ open[fd] /\ in[fd] = 0 /\ cl.old = "BLOCK"
           /\ call' = [call EXCEPT ![c] = cl]
           /\ pth_wait(c, Io(c), ring)
           /\ mode' = md
           /\ UNCHANGED in

pth_accept_ev(c, fd, extra) ==
    /\ Mine(c, "accept", fd)
    /\ AcceptTurn(c, Enter(c, "accept", fd, extra, mode[fd]), links,
                  pth_fdmode(mode, fd, "NONBLOCK"),
                  WithExtra(c, NewRing(links, Io(c)), extra))
    /\ UNCHANGED <<open, out, conn, taker, ports>>

AcceptReturns(c) ==
    /\ Back(c, "accept")
    /\ IF Interrupted(c)
         THEN /\ Return(c, call[c], Isolated(c), -1, "EINTR")
              /\ mode' = pth_fdmode(mode, call[c].fd, call[c].old)
              /\ UNCHANGED in
         ELSE AcceptTurn(c, call[c], Isolated(c), mode, Isolated(c))
    /\ UNCHANGED <<open, out, conn, taker, ports>>

(* connect(2) in nonblocking mode, which is given back before the wait for *)
(* the connection.                                                         *)
pth_connect_ev(c, fd, extra) ==
    /\ Mine(c, "connect", fd) /\ conn[fd] = "none"
    /\ LET cl == Enter(c, "connect", fd, extra, mode[fd])
       IN  \/ /\ ~open[fd]
              /\ Return(c, cl, links, -1, "EBADF")
              /\ UNCHANGED conn
           \/ /\ open[fd]
              /\ Return(c, cl, links, 0, "none")
              /\ conn' = [conn EXCEPT ![fd] = "done"]
           \/ /\ open[fd]
              /\ conn' = [conn EXCEPT ![fd] = "progress"]
              /\ IF mode[fd] = "NONBLOCK"
                   THEN Return(c, cl, links, -1, "EINPROGRESS")
                   ELSE /\ call' = [call EXCEPT ![c] = cl]
                        /\ pth_wait(c, Io(c), WithExtra(c, NewRing(links, Io(c)), extra))
    /\ UNCHANGED <<open, mode, in, out, taker, ports>>

ConnectReturns(c) ==
    /\ Back(c, "connect")
    /\ IF Interrupted(c) THEN Return(c, call[c], Isolated(c), -1, "EINTR")
       ELSE IF ~open[call[c].fd] THEN Return(c, call[c], Isolated(c), -1, "EBADF")
       ELSE Return(c, call[c], Isolated(c), 0, "none")
    /\ UNCHANGED <<files, ports>>

(* pth_select_ev for one descriptor to read from, with a timeout or none.  *)
(* After the wait the first extra event is isolated, then the timeout, and *)
(* what is left of the ring stays with the event of the call: an           *)
(* application that gives it two extra events has them linked to that.     *)
pth_select_ev(c, fd, extra, timed) ==
    /\ Mine(c, "select", fd) /\ ~(extra /\ c \in Pair)
    /\ LET cl   == [Enter(c, "select", fd, extra, mode[fd]) EXCEPT !.timed = timed]
           ring == IF timed THEN pth_event_concat(NewRing(NewRing(links, Io(c)), Time(c)),
                                                  Io(c), Time(c))
                            ELSE NewRing(links, Io(c))
       IN  \/ /\ ~open[fd]
              /\ Return(c, cl, links, -1, "EBADF")
           \/ /\ open[fd] /\ in[fd] > 0
              /\ Return(c, cl, links, 1, "none")
           \/ /\ open[fd] /\ in[fd] = 0
              /\ call' = [call EXCEPT ![c] = cl]
              /\ pth_wait(c, Io(c), WithExtra(c, ring, extra))
    /\ UNCHANGED <<files, ports>>

SelectLinks(c) ==
    LET l == IF call[c].extra THEN pth_event_isolate(links, Msg(c)) ELSE links
    IN  IF call[c].timed THEN pth_event_isolate(l, Time(c)) ELSE l

(* A descriptor that is ready when the time is over as well is reported as *)
(* a timeout.                                                              *)
SelectReturns(c) ==
    /\ Back(c, "select")
    /\ LET timeout == call[c].timed /\ status[Time(c)] = "OCCURRED"
           Give(rv, err) == Return(c, call[c], SelectLinks(c), rv, err)
       IN  IF status[Io(c)] = "FAILED" THEN Give(-1, "EBADF")
           ELSE IF timeout THEN Give(0, "none")
           ELSE IF status[Io(c)] = "OCCURRED" THEN Give(1, "none")
           ELSE Give(-1, "EINTR")
    /\ UNCHANGED <<files, ports>>

-----------------------------------------------------------------------------
(*                             Message ports                               *)

\* A message of the caller's, or one he answers.
Put(c, m, p) ==
    /\ m \in held[c] /\ mp_queue[p] # NULL
    /\ mp_queue' = [mp_queue EXCEPT ![p] = Append(@, m)]
    /\ held' = [held EXCEPT ![c] = @ \ {m}]
    /\ ret' = NULL
    /\ UNCHANGED <<sched, links, status, call, files>>

pth_msgport_put(c, m, p) == Running(c) /\ Sender[m] = c /\ p # c /\ Put(c, m, p)

pth_msgport_reply(c, m) == Running(c) /\ Sender[m] # c /\ Put(c, m, Sender[m])

pth_msgport_get(c) ==
    /\ Running(c)
    /\ mp_queue[c] \notin {NULL, <<>>}
    /\ mp_queue' = [mp_queue EXCEPT ![c] = Tail(@)]
    /\ held' = [held EXCEPT ![c] = @ \cup {Head(mp_queue[c])}]
    /\ ret' = NULL
    /\ UNCHANGED <<sched, links, status, call, files>>

(* Pending messages are replied to, in order. A message that names this    *)
(* very port, an answer nobody has fetched, would come back for ever; the  *)
(* application fetches its answers first.                                  *)
pth_msgport_destroy(c) ==
    /\ Running(c) /\ c \in Leavers /\ mp_queue[c] # NULL
    /\ \A i \in DOMAIN mp_queue[c] :
          Sender[mp_queue[c][i]] # c /\ mp_queue[Sender[mp_queue[c][i]]] # NULL
    /\ mp_queue' = [t \in Threads |->
          IF t = c THEN NULL
          ELSE IF mp_queue[t] = NULL THEN NULL
          ELSE mp_queue[t] \o SelectSeq(mp_queue[c], LAMBDA m : Sender[m] = t)]
    /\ ret' = NULL
    /\ UNCHANGED <<sched, links, status, call, files, held>>

-----------------------------------------------------------------------------
(*                 The scheduler, cancellation, the outside                *)

\* What the call of a thread waits for is there.
IoReady(t) ==
    LET fd == call[t].fd
    IN  CASE call[t].op \in {"read", "accept", "select"} -> in[fd] > 0
          [] call[t].op = "write"   -> out[fd] < Room
          [] call[t].op = "connect" -> conn[fd] = "done"

(* select(2) fails as a whole when a thread waits for a descriptor that    *)
(* was closed. Each one is then polled by itself, to find those that fail; *)
(* those that are ready are not marked and have to wait for another round. *)
SelectFails == \E t \in Waiting : ~open[call[t].fd]

\* Mutant: when select fails every event that was not ready fails.
IoStatus_AllFail(t) ==
    IF SelectFails THEN "FAILED" ELSE IF IoReady(t) THEN "OCCURRED" ELSE "PENDING"

IoStatus(t) ==
    IF SelectFails THEN (IF open[call[t].fd] THEN "PENDING" ELSE "FAILED")
    ELSE IF IoReady(t) THEN "OCCURRED" ELSE "PENDING"

\* An event that is looked at; chance: the timeouts and the events outside of
\* the model that occur.
StatusOf(e, chance) ==
    CASE e[2] = "io"  -> IoStatus(e[1])
      [] e[2] = "msg" -> IF mp_queue[e[1]] # <<>> THEN "OCCURRED" ELSE "PENDING"
      [] OTHER        -> IF e \in chance THEN "OCCURRED" ELSE "PENDING"

\* The events of the waiting threads after a look at them.
Looked(chance) ==
    [e \in Event |-> IF e[1] \in Waiting /\ e \in RingOf(e[1]) THEN StatusOf(e, chance)
                     ELSE status[e]]

WokenBy(st) == {t \in Waiting : cancelreq[t] \/ \E e \in RingOf(t) : st[e] # "PENDING"}

(* A round: the events of the waiting threads are looked at, threads with  *)
(* an event or a request of cancellation become ready, one is dispatched.  *)
Schedule(next) ==
    /\ pth_current = NULL
    /\ \E chance \in SUBSET {e \in UNION {RingOf(t) : t \in Waiting} : e[2] \in {"time", "other"}} :
          status' = Looked(chance)
    /\ next \in Ready \cup WokenBy(status')
    /\ state' = [t \in Threads |-> IF t \in WokenBy(status') THEN "ready" ELSE state[t]]
    /\ pth_current' = next
    /\ ret' = NULL
    /\ UNCHANGED <<events, cancel, links, call, files, ports>>

Yield(c) ==
    /\ Running(c)
    /\ pth_current' = NULL
    /\ ret' = NULL
    /\ UNCHANGED <<state, events, cancel, links, status, call, files, ports>>

pth_cancel_state(c, new) ==
    /\ Running(c) /\ c \in Victims
    /\ cancelstate' = [cancelstate EXCEPT ![c] = new]
    /\ ret' = NULL
    /\ UNCHANGED <<pth_current, state, events, cancelreq, links, status, call, files, ports>>

(* A thread ends where it is. What it has changed stays, but for its       *)
(* static events, which their destructor frees.                            *)
Die(t) ==
    /\ state' = [state EXCEPT ![t] = "dead"]
    /\ events' = [events EXCEPT ![t] = NULL]
    /\ links' = NewRing(NewRing(pth_event_free(pth_event_free(links, Io(t)), Time(t)),
                                Io(t)), Time(t))
    /\ status' = Unwatched(t)

(* The request is recorded whatever the thread does and has enabled; an    *)
(* asynchronous one ends it at once.                                       *)
pth_cancel(c, t) ==
    /\ Running(c) /\ t \in Victims \ {c} /\ state[t] # "dead"
    /\ cancelreq' = [cancelreq EXCEPT ![t] = TRUE]
    /\ IF cancelstate[t] = "async" THEN Die(t) ELSE UNCHANGED <<state, events, links, status>>
    /\ ret' = NULL
    /\ UNCHANGED <<pth_current, cancelstate, call, files, ports>>

\* pth_cancel_point in pth_wait.
CancelPoint(c) ==
    /\ pth_current = c /\ events[c] # NULL /\ Cancelled(c)
    /\ Die(c)
    /\ cancelreq' = [cancelreq EXCEPT ![c] = FALSE]
    /\ pth_current' = NULL
    /\ ret' = NULL
    /\ UNCHANGED <<cancelstate, call, files, ports>>

Close(c, fd) ==
    /\ Mine(c, "close", fd) /\ open[fd]
    /\ open' = [open EXCEPT ![fd] = FALSE]
    /\ ret' = NULL
    /\ UNCHANGED <<sched, links, status, call, mode, in, out, conn, taker, ports>>

Takes(fd) == {"read", "accept", "select"} \X {fd}

\* The peer: data or a connection comes in, what was written goes out, a
\* connection is made. It acts at any time.
Peer(fd) ==
    /\ \/ /\ in[fd] < Backlog /\ \E t \in Threads : Does[t] \cap Takes(fd) # {}
          /\ in' = [in EXCEPT ![fd] = @ + 1]
          /\ taker' = [taker EXCEPT ![fd] = NULL]
          /\ UNCHANGED <<out, conn>>
       \/ /\ out[fd] > 0 /\ out' = [out EXCEPT ![fd] = @ - 1]
          /\ UNCHANGED <<in, conn, taker>>
       \/ /\ conn[fd] = "progress" /\ conn' = [conn EXCEPT ![fd] = "done"]
          /\ UNCHANGED <<in, out, taker>>
    /\ open[fd]
    /\ ret' = NULL
    /\ UNCHANGED <<sched, links, status, call, open, mode, ports>>

Extras(c) == IF c \in Extra THEN BOOLEAN ELSE {FALSE}

Step(c) ==
    \/ \E fd \in Fds, extra \in Extras(c) :
          \/ pth_read_ev(c, fd, extra) \/ pth_readv_ev(c, fd, extra)
          \/ pth_recvfrom_ev(c, fd, extra)
          \/ pth_write_ev(c, fd, extra) \/ pth_writev_ev(c, fd, extra)
          \/ pth_sendto_ev(c, fd, extra)
          \/ pth_accept_ev(c, fd, extra) \/ pth_connect_ev(c, fd, extra)
          \/ \E timed \in BOOLEAN : pth_select_ev(c, fd, extra, timed)
    \/ \E m \in Messages :
          pth_msgport_reply(c, m) \/ \E p \in Threads : pth_msgport_put(c, m, p)
    \/ pth_msgport_get(c) \/ pth_msgport_destroy(c)
    \/ \E t \in Threads : pth_cancel(c, t)
    \/ \E new \in {"deferred", "async", "disabled"} : pth_cancel_state(c, new)
    \/ \E fd \in Fds : Close(c, fd)

Returns(c) ==
    \/ ReadReturns(c) \/ WriteReturns(c) \/ AcceptReturns(c) \/ ConnectReturns(c)
    \/ SelectReturns(c) \/ CancelPoint(c)

Next ==
    \/ \E c \in Threads :
          Schedule(c) \/ Step(c) \/ Returns(c) \/ ReadUnblocks(c) \/ Yield(c)
    \/ \E fd \in Fds : Peer(fd)

Spec == Init /\ [][Next]_vars

-----------------------------------------------------------------------------
Inside(t, fd, ops) == call[t] # NULL /\ call[t].fd = fd /\ call[t].op \in ops

(* Event rings are closed both ways at all times, so that the walks of     *)
(* pth_wait and of the event manager end; a thread in no call has its      *)
(* static events to itself and its extra events linked as it gave them,    *)
(* whichever event ended its calls.                                        *)
RingsWhole ==
    /\ Closed(links)
    /\ \A t \in Threads : call[t] = NULL =>
          /\ Alone(links, Io(t)) /\ Alone(links, Time(t))
          /\ pth_event_walk(links, Msg(t)) = IF t \in Pair THEN {Msg(t), Other(t)} ELSE {Msg(t)}

(* The nonblocking mode is an implementation detail of a call: a descriptor *)
(* is in it exactly while a thread is inside pth_write_ev or pth_accept_ev  *)
(* for it that found it blocking, and there is one such thread. A thread    *)
(* cancelled in the call leaves it behind.                                  *)
ModeOwners(fd) ==
    {t \in Threads : Inside(t, fd, {"write", "accept"}) /\ call[t].old = "BLOCK"}

ModeRestored ==
    \A fd \in Fds : open[fd] =>
        /\ (mode[fd] = "NONBLOCK") = (ModeOwners(fd) # {})
        /\ Cardinality(ModeOwners(fd)) <= 1

(* Whatever ends a call, it leaves the descriptors and the event rings to  *)
(* the other threads as it found them.                                     *)
CallsLeaveNoTrace == ModeRestored /\ RingsWhole

(* "Now perform the actual read. We're now guarrantied to not block"       *)
(* (pth_high.c:766): the process blocks in a system call of a thread only  *)
(* if another one has taken what there was to read since, or if the thread *)
(* has been woken by a cancellation request that it does not heed, and had *)
(* no extra events by which to tell that from its descriptor.              *)
BlocksOnlyWhenRobbed ==
    \A t \in Threads, fd \in Fds :
        Inside(t, fd, {"blocked"}) /\ in[fd] = 0 =>
            \/ taker[fd] \notin {NULL, t}
            \/ cancelreq[t] /\ cancelstate[t] = "disabled" /\ ~call[t].extra

(* "pass error to caller, but not for partial writes" (pth_high.c:857): an *)
(* error means that nothing was written - but for one, the interruption by *)
(* an extra event -, and a vector is never advanced past or short of what  *)
(* was written.                                                            *)
PartialWritesCounted ==
    /\ ret # NULL =>
          IF ret.rv = -1 THEN ret.wrote = 0 \/ ret.err = "EINTR" ELSE ret.rv = ret.wrote
    /\ \A t \in Threads : call[t] # NULL /\ call[t].op = "write" =>
          call[t].left = pth_writev_iov_bytes(call[t].iov)

(* When select fails, because a thread has closed a descriptor for which    *)
(* another one waits, the failure is put on the threads that wait for that  *)
(* descriptor and on no other.                                              *)
OnlyClosedFail ==
    \A t \in Threads, fd \in Fds :
        status[Io(t)] = "FAILED" /\ Inside(t, fd, {"read", "write", "accept", "connect", "select"})
            => ~open[fd]

=============================================================================
