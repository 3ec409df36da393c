----------------------------- MODULE ListenQueue -----------------------------
(***************************************************************************)
(* A listening TCP socket: its queues so_q0 (connections being made) and   *)
(* so_q (connections to accept), filled and emptied by tcp_input() and the *)
(* TCP timers at interrupt level, by processes in accept(), and by the     *)
(* close of the listener.  sys/kern/uipc_socket2.c, uipc_socket.c and      *)
(* accept1() of uipc_syscalls.c, over tcp_input.c, tcp_subr.c,             *)
(* tcp_usrreq.c, tcp_timer.c and in_pcb.c of sys/netinet.                  *)
(*                                                                         *)
(* All of this runs at splnet(), so it is cut only where it sleeps: in     *)
(* accept1() for a connection, in malloc() for the file structure, and in  *)
(* malloc() for the mbuf of the peer's name.  The two loops of soclose()   *)
(* are a step per turn, in which nothing else happens.  The memory of a    *)
(* socket that was freed is used again for another.                        *)
(*                                                                         *)
(* Left out: SO_LINGER, non-blocking accept() (it returns at once and      *)
(* changes nothing), passing of descriptors, segments and arrivals that    *)
(* leave no trace (a queue that is full, no memory, no SYN: the socket     *)
(* made for them is dropped before tcp_input() returns).                   *)
(***************************************************************************)
EXTENDS Integers, SequencesExt

CONSTANTS
  Sock,     \* the memory sonewconn() takes sockets from
  Proc,     \* processes that have the listener open
  Qlimit,   \* so_qlimit, from listen()
  NONE      \* no socket

ASSUME QlimitType == Qlimit \in Nat
ASSUME SomebodyListens == Proc # {}   \* it was opened
ASSUME NoneIsNew == NONE \notin Sock

VARIABLES
  so,        \* the sockets and the listener's queues, see Sockets
  listener,  \* the rest of the listening socket, see Listener
  proc,      \* proc[p]: where p is in accept1(), and its local aso
  files,     \* files[p]: accepted sockets p has open
  broken     \* accept1() used a socket that is not there

vars == <<so, listener, proc, files, broken>>

(* t_state of a connection's control block, "none" without one; the user   *)
(* has closed a connection in a state above TCPS_CLOSE_WAIT ("closing").   *)
State == {"none", "SYN_RECEIVED", "ESTABLISHED", "CLOSE_WAIT", "closing"}

(* queue[0] is so_q0 and queue[1] is so_q; len are so_q0len and so_qlen.   *)
Sockets == [alloc : SUBSET Sock,            \* allocated
            pcb : [Sock -> State],          \* so_pcb
            nofdref : SUBSET Sock,          \* SS_NOFDREF
            head : SUBSET Sock,             \* those with so_head set
            queue : [{0, 1} -> Seq(Sock)],
            len : [{0, 1} -> Nat]]

Listener == [open : SUBSET Proc,            \* whose descriptor tables hold it
             pcb : {"none", "LISTEN"},
             cantrcvmore : BOOLEAN,         \* SS_CANTRCVMORE
             closing : BOOLEAN]             \* in the loops of soclose()

(* In user code; in the sleep for a connection, and woken from it; in      *)
(* falloc(); in m_get(), with a socket taken.                              *)
Place == {"user", "asleep", "woken", "falloc", "m_get"}
Process == [at : Place, aso : Sock \cup {NONE}]

Idle == [at |-> "user", aso |-> NONE]

Init ==
  /\ so = [alloc |-> {}, pcb |-> [s \in Sock |-> "none"], nofdref |-> {}, head |-> {},
           queue |-> [i \in {0, 1} |-> <<>>], len |-> [i \in {0, 1} |-> 0]]
  /\ listener = [open |-> Proc, pcb |-> "LISTEN", cantrcvmore |-> FALSE, closing |-> FALSE]
  /\ proc = [p \in Proc |-> Idle]
  /\ files = [p \in Proc |-> {}]
  /\ broken = FALSE

-----------------------------------------------------------------------------
(* The queues.  An operator takes the sockets k and gives what it makes of *)
(* them.                                                                   *)

soqinsque(k, s, i) ==
  [k EXCEPT !.head = @ \cup {s}, !.queue[i] = Append(@, s), !.len[i] = @ + 1]

On(k, s, i) == s \in Range(k.queue[i])

(* Faulty variant: the count of connections to accept, from either queue.  *)
SoqremqueOneCount(k, s, i) ==
  [k EXCEPT !.head = @ \ {s}, !.queue[i] = RemoveFirst(@, s), !.len[1] = @ - 1]

(* s is on queue i.                                                        *)
soqremque(k, s, i) ==
  [k EXCEPT !.head = @ \ {s}, !.queue[i] = RemoveFirst(@, s), !.len[i] = @ - 1]

(* Faulty variant: only connections to accept are looked for.              *)
DequeuedIfDone(k, s) == IF On(k, s, 1) THEN soqremque(k, s, 1) ELSE k

Dequeued(k, s) ==
  IF On(k, s, 0) THEN soqremque(k, s, 0)
  ELSE IF On(k, s, 1) THEN soqremque(k, s, 1) ELSE k

(* Faulty variant: a socket is freed although a descriptor refers to it.   *)
UnusedByTcp(k, s) == k.pcb[s] = "none"

Unused(k, s) == k.pcb[s] = "none" /\ s \in k.nofdref

sofree(k, s) ==
  IF Unused(k, s)
  THEN [Dequeued(k, s) EXCEPT !.alloc = @ \ {s}, !.nofdref = @ \ {s}]
  ELSE k

(* tcp_close() with in_pcbdetach(); tcp_drop() and PRU_ABORT come to this. *)
tcp_close(k, s) == sofree([k EXCEPT !.pcb[s] = "none"], s)

soabort(k, s) == IF k.pcb[s] = "none" THEN k ELSE tcp_close(k, s)

-----------------------------------------------------------------------------
(* Sleeping processes.                                                     *)

(* wakeup(&head->so_timeo)                                                 *)
Wakeup(procs) ==
  [p \in Proc |-> IF procs[p].at = "asleep" THEN [procs[p] EXCEPT !.at = "woken"] ELSE procs[p]]

(* A process that took s in accept1() keeps a pointer to it whatever       *)
(* becomes of s.                                                           *)
Dangling(k) ==
  [p \in Proc |-> IF proc[p].aso \in k.alloc THEN proc[p] ELSE [proc[p] EXCEPT !.aso = NONE]]

-----------------------------------------------------------------------------
(* The network and the timers.                                             *)

RoomFor(k) == k.len[1] + k.len[0] <= (3 * Qlimit) \div 2

sonewconn(k, s) ==
  soqinsque([k EXCEPT !.alloc = @ \cup {s}, !.nofdref = @ \cup {s}], s, 0)

(* A SYN for the listener, with a FIN or without.                          *)
SynArrives(s) ==
  /\ listener.pcb = "LISTEN" /\ RoomFor(so) /\ s \notin so.alloc
  /\ \E state \in {"SYN_RECEIVED", "CLOSE_WAIT"} :
       so' = [sonewconn(so, s) EXCEPT !.pcb[s] = state]
  /\ UNCHANGED <<listener, proc, files>>

(* Faulty variant: the one woken is who waits for this connection.         *)
ConnectedQuietly(k, procs, s) ==
  IF s \in k.head /\ On(k, s, 0)
  THEN [so |-> soqinsque(soqremque(k, s, 0), s, 1), proc |-> procs]
  ELSE [so |-> k, proc |-> procs]

soisconnected(k, procs, s) ==
  IF s \in k.head /\ On(k, s, 0)
  THEN [so |-> soqinsque(soqremque(k, s, 0), s, 1), proc |-> Wakeup(procs)]
  ELSE [so |-> k, proc |-> procs]

(* The ACK of our SYN, in SYN_RECEIVED.                                    *)
AckArrives(s) ==
  /\ so.pcb[s] = "SYN_RECEIVED"
  /\ LET r == soisconnected([so EXCEPT !.pcb[s] = "ESTABLISHED"], proc, s)
     IN so' = r.so /\ proc' = r.proc
  /\ UNCHANGED <<listener, files>>

FinArrives(s) ==
  /\ so.pcb[s] = "ESTABLISHED"
  /\ so' = [so EXCEPT !.pcb[s] = "CLOSE_WAIT"]
  /\ UNCHANGED <<listener, proc, files>>

(* A connection ends: by a RST, by an unexpected SYN, by the last ACK, or  *)
(* by a timer.                                                             *)
Ends(s) ==
  /\ so' = tcp_close(so, s)
  /\ proc' = Dangling(so')
  /\ UNCHANGED <<listener, files>>

ConnectionEnds(s) == so.pcb[s] # "none" /\ Ends(s)

(* Faulty variant: t_state < TCPS_SYN_RECEIVED.                            *)
NeverSynchronized(s) == FALSE

(* t_state < TCPS_ESTABLISHED, for which KEEP drops the connection and     *)
(* REXMT sends the SYN|ACK until it gives up.                              *)
Embryonic(s) == so.pcb[s] = "SYN_RECEIVED"

TimerDrops(s) == Embryonic(s) /\ Ends(s)

-----------------------------------------------------------------------------
(* accept1().  The loop: whoever finds nothing to accept sleeps.           *)

Looks(p) == proc[p].at \in {"user", "woken"} /\ p \in listener.open

AcceptSleeps(p) ==
  /\ Looks(p) /\ so.len[1] = 0 /\ ~listener.cantrcvmore
  /\ proc' = [proc EXCEPT ![p].at = "asleep"]
  /\ UNCHANGED <<so, listener, files, broken>>

(* ECONNABORTED, or a signal: the wakeup may have come before it.          *)
AcceptFails(p) ==
  /\ \/ Looks(p) /\ so.len[1] = 0 /\ listener.cantrcvmore
     \/ proc[p].at \in {"asleep", "woken"}
  /\ proc' = [proc EXCEPT ![p] = Idle]
  /\ UNCHANGED <<so, listener, files, broken>>

(* falloc() fails, or allocates and perhaps sleeps.                        *)
AcceptAllocates(p) ==
  /\ Looks(p) /\ so.len[1] # 0
  /\ \E at \in {"user", "falloc"} : proc' = [proc EXCEPT ![p].at = at]
  /\ UNCHANGED <<so, listener, files, broken>>

(* The first of so_q is taken, if it is still there; m_get() may sleep.    *)
AcceptTakes(p) ==
  /\ proc[p].at = "falloc"
  /\ \/ /\ so.queue[1] = <<>>
        /\ broken' = TRUE
        /\ UNCHANGED <<so, proc>>
     \/ /\ so.queue[1] # <<>>
        /\ so' = soqremque(so, Head(so.queue[1]), 1)
        /\ proc' = [proc EXCEPT ![p] = [at |-> "m_get", aso |-> Head(so.queue[1])]]
        /\ UNCHANGED broken
  /\ UNCHANGED <<listener, files>>

(* soaccept(), and the return to the user.                                 *)
soaccept(p) ==
  /\ proc[p].at = "m_get"
  /\ \/ /\ proc[p].aso = NONE
        /\ broken' = TRUE
        /\ UNCHANGED <<so, proc, files>>
     \/ /\ proc[p].aso # NONE
        /\ so' = [so EXCEPT !.nofdref = @ \ {proc[p].aso}]
        /\ files' = [files EXCEPT ![p] = @ \cup {proc[p].aso}]
        /\ proc' = [proc EXCEPT ![p] = Idle]
        /\ UNCHANGED broken
  /\ UNCHANGED listener

-----------------------------------------------------------------------------
(* Closing.                                                                *)

(* soclose() of an accepted socket: sends a FIN, or with a linger time of  *)
(* zero a RST.                                                             *)
CloseAccepted(p, s) ==
  /\ proc[p].at = "user" /\ s \in files[p]
  /\ files' = [files EXCEPT ![p] = @ \ {s}]
  /\ \E state \in {"closing", "none"} :
       /\ so.pcb[s] = "none" => state = "none"
       /\ so' = sofree([so EXCEPT !.pcb[s] = state, !.nofdref = @ \cup {s}], s)
  /\ UNCHANGED <<listener, proc>>

(* soclose() of the listener, when the last process closes it.             *)
CloseListener(p) ==
  /\ proc[p].at = "user" /\ p \in listener.open
  /\ listener' = [listener EXCEPT !.open = @ \ {p}, !.closing = (listener.open = {p})]
  /\ UNCHANGED <<so, proc, files>>

(* A turn of its loops, so_q0 before so_q.                                 *)
SocloseAborts ==
  /\ listener.closing
  /\ \E i \in {0, 1} :
       /\ so.queue[i] # <<>> /\ (i = 1 => so.queue[0] = <<>>)
       /\ so' = soabort(so, Head(so.queue[i]))
  /\ UNCHANGED <<listener, proc, files, broken>>

(* Faulty variant: connections to accept are left alone.                   *)
NoEmbryos == so.queue[0] = <<>>

AllAborted == so.queue[0] = <<>> /\ so.queue[1] = <<>>

(* PRU_DETACH, and the listener is freed.                                  *)
SocloseEnds ==
  /\ listener.closing /\ AllAborted
  /\ listener' = [listener EXCEPT !.pcb = "none", !.closing = FALSE]
  /\ UNCHANGED <<so, proc, files, broken>>

(* shutdown() of the listener: sorflush() wakes nobody who accepts.        *)
ShutRead(p) ==
  /\ proc[p].at = "user" /\ p \in listener.open
  /\ listener' = [listener EXCEPT !.cantrcvmore = TRUE]
  /\ UNCHANGED <<so, proc, files>>

(* PRU_SHUTDOWN: tcp_usrclosed(), tcp_close(), soisdisconnected().         *)
ShutWrite(p) ==
  /\ proc[p].at = "user" /\ p \in listener.open /\ listener.pcb = "LISTEN"
  /\ listener' = [listener EXCEPT !.pcb = "none", !.cantrcvmore = TRUE]
  /\ proc' = Wakeup(proc)
  /\ UNCHANGED <<so, files>>

-----------------------------------------------------------------------------
(* Not at splnet(); after a use of memory that is not a socket nothing     *)
(* more is said.                                                           *)
Runs == ~broken /\ ~listener.closing

Accepts(p) ==
  /\ Runs
  /\ AcceptSleeps(p) \/ AcceptFails(p) \/ AcceptAllocates(p) \/ AcceptTakes(p) \/ soaccept(p)

Closes(p) ==
  /\ Runs
  /\ (\E s \in Sock : CloseAccepted(p, s)) \/ CloseListener(p) \/ ShutRead(p) \/ ShutWrite(p)
  /\ UNCHANGED broken

Network(s) ==
  /\ Runs
  /\ SynArrives(s) \/ AckArrives(s) \/ FinArrives(s) \/ ConnectionEnds(s)
  /\ UNCHANGED broken

Timer(s) == Runs /\ TimerDrops(s) /\ UNCHANGED broken

Next ==
  \/ \E p \in Proc : Accepts(p) \/ Closes(p)
  \/ \E s \in Sock : Network(s) \/ Timer(s)
  \/ SocloseAborts \/ SocloseEnds

Spec == Init /\ [][Next]_vars

(* A call of accept() goes on unless it sleeps for a connection (nobody    *)
(* owes it one, nor a signal), and the timers of a connection not yet made *)
(* run out.                                                                *)
Fairness ==
  /\ \A p \in Proc : WF_vars(proc[p].at \notin {"user", "asleep"} /\ Accepts(p))
  /\ \A s \in Sock : WF_vars(Timer(s))
  /\ WF_vars(SocloseAborts) /\ WF_vars(SocloseEnds)

FairSpec == Spec /\ Fairness

-----------------------------------------------------------------------------
TypeOK ==
  /\ so \in Sockets
  /\ listener \in Listener
  /\ proc \in [Proc -> Process]
  /\ files \in [Proc -> SUBSET Sock]
  /\ broken \in BOOLEAN

Queued == Range(so.queue[0]) \cup Range(so.queue[1])

(* The counts sonewconn() and accept() go by are those of the queues; a    *)
(* socket is on one queue at most, once, and exactly then has so_head set  *)
(* (sofree() panics otherwise); what is offered to accept() is connected;  *)
(* and the backlog stays within its limit.                                 *)
QueuesAgree ==
  /\ \A i \in {0, 1} : so.len[i] = Len(so.queue[i]) /\ IsInjective(so.queue[i])
  /\ Range(so.queue[0]) \cap Range(so.queue[1]) = {}
  /\ so.head = Queued
  /\ \A s \in Range(so.queue[0]) : so.pcb[s] \in {"SYN_RECEIVED", "CLOSE_WAIT"}
  /\ \A s \in Range(so.queue[1]) : so.pcb[s] \in {"ESTABLISHED", "CLOSE_WAIT"}
  /\ Len(so.queue[0]) + Len(so.queue[1]) <= (3 * Qlimit) \div 2 + 1

(* Who refers to a socket is certain, and it is freed when nobody does: a  *)
(* queued socket has a control block (or the loops of soclose() would not  *)
(* end) and no descriptor (or soaccept() would panic), an accepted one has *)
(* one, any other lives as long as its connection; and no socket is left   *)
(* waiting for a listener that is gone.                                    *)
NothingLeaks ==
  /\ \A s \in Sock :
       LET open  == {p \in Proc : s \in files[p]}
           taken == {p \in Proc : proc[p].aso = s}
       IN /\ s \in Queued => so.pcb[s] # "none" /\ s \in so.nofdref
          /\ s \in so.nofdref <=> s \in so.alloc /\ open = {}
          /\ s \in so.alloc <=> so.pcb[s] # "none" \/ open # {}
          /\ \A p, q \in open \cup taken : p = q
          /\ taken # {} => s \in so.nofdref \ Queued
  /\ listener.open = {} /\ ~listener.closing => Queued = {}

(* Nobody sleeps in accept() while there is a connection to accept, nor    *)
(* when there can be none any more.                                        *)
NoAcceptorForgotten ==
  \A p \in Proc :
    proc[p].at = "asleep" => so.len[1] = 0 /\ listener.pcb = "LISTEN" /\ p \in listener.open

(* A connection not yet made is made or given up, and one that is made is  *)
(* accepted or ends, unless everybody who accepts has returned; and the    *)
(* loops of soclose() end.                                                 *)
ConnectionsProceed ==
  /\ \A s \in Sock :
       /\ On(so, s, 0) /\ so.pcb[s] = "SYN_RECEIVED" ~> ~On(so, s, 0) \/ broken
       /\ On(so, s, 1) /\ (\E p \in Proc : proc[p].at # "user")
            ~> ~On(so, s, 1) \/ (\A p \in Proc : proc[p].at = "user") \/ broken
  /\ listener.closing ~> ~listener.closing
=============================================================================
