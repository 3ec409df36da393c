----------------------------- MODULE TcpReceive -----------------------------
(***************************************************************************)
(* The receiving half of a synchronized TCP connection: tcp_input() and    *)
(* tcp_reass() of sys/netinet/tcp_input.c from the receive window to the   *)
(* FIN, the window side of tcp_output() (tcp_output.c), the delayed ack of *)
(* tcp_fasttimo() (tcp_timer.c), and what PRU_RCVD and PRU_SHUTDOWN do     *)
(* (tcp_usrreq.c).  The peer sends a stream of N bytes and then a FIN; the *)
(* network may lose, repeat, delay and reorder its segments, so that at    *)
(* any time any segment the peer may ever have sent can arrive.  The whole *)
(* of a handler runs at splnet() and is one step.  A byte of the stream is *)
(* its number, 1..N, and an mbuf chain a sequence of bytes, kept apart     *)
(* from ti_seq and ti_len, which say what the chain ought to hold.         *)
(* Sequence numbers and the C int and u_int arithmetic on them are modulo  *)
(* SeqSpace in place of 2^32.                                              *)
(***************************************************************************)
EXTENDS Integers, Sequences, SequencesExt

CONSTANTS
  SeqSpace,         \* number of sequence numbers, a power of two
  irs,            \* initial receive sequence number, that of the peer's SYN
  N,              \* bytes the peer sends before its FIN
  sb_hiwat,       \* size of the receive buffer
  t_maxseg,       \* largest segment
  Overrun,        \* the peer may send past the window it was given
  OutputMayFail,  \* tcp_output() may find no mbuf for the acknowledgment
  MaxQueued       \* bound on the reassembly queue: it keeps every copy of a FIN

ASSUME SizesFit ==
  /\ SeqSpace \in Nat /\ SeqSpace % 2 = 0 /\ irs \in 0..(SeqSpace - 1)
  /\ N \in Nat /\ sb_hiwat \in Nat \ {0} /\ t_maxseg \in Nat \ {0}
  /\ Overrun \in BOOLEAN /\ OutputMayFail \in BOOLEAN
  /\ MaxQueued \in Nat
  /\ N + sb_hiwat + 2 < SeqSpace \div 2

VARIABLES
  t_state,      \* TCP state
  rcv_nxt,      \* next sequence number expected
  rcv_adv,      \* highest sequence number advertised
  segq,         \* reassembly queue: [seq, len, fin, m]
  got,          \* every byte ever appended to so_rcv, in order
  sb_cc,        \* how many of them the process has not read yet
  cantrcvmore,  \* SS_CANTRCVMORE: the process will see the end of the file
  acknow,       \* TF_ACKNOW
  delack,       \* TF_DELACK
  overran       \* the peer has sent past its window

vars == <<t_state, rcv_nxt, rcv_adv, segq, got, sb_cc, cantrcvmore, acknow, delack, overran>>

-----------------------------------------------------------------------------
(* Unsigned and signed readings of an integer of the width of tcp_seq.     *)
Unsigned(n) == n % SeqSpace
Signed(n) == LET u == Unsigned(n) IN IF 2 * u >= SeqSpace THEN u - SeqSpace ELSE u

SEQ_GT(a, b) == Signed(a - b) > 0

Larger(a, b) == IF a > b THEN a ELSE b
Lesser(a, b) == IF a < b THEN a ELSE b

(* Sequence number of byte i; N + 1 is the FIN.                            *)
SeqAt(i) == Unsigned(irs + i)

(* First byte of the stream outside the window the peer was given.         *)
Edge == Unsigned(rcv_adv - irs)

sbspace == sb_hiwat - sb_cc

(* TCPS_HAVERCVDFIN: the states numbered from TCPS_TIME_WAIT on.           *)
TCPS_HAVERCVDFIN(s) == s = "TIME_WAIT"

-----------------------------------------------------------------------------
(* What a peer that respects the window sends: data up to the edge, a FIN  *)
(* right after it, and one byte to probe a closed window.                  *)
InWindow(first, len, fin) ==
  \/ first + len <= Edge
  \/ fin /\ first + len = Edge
  \/ len = 1 /\ ~fin /\ first = Edge /\ first <= Len(got) + 1
  \/ len = 0 /\ first = N + 2 /\ N + 1 <= Edge

(* The segment that holds the bytes first .. first + len - 1.  fin is the  *)
(* flag in the header, tifin the copy of it in tiflags; acks tells whether *)
(* it acknowledges our FIN, over whether it breaks the peer's window.      *)
Segment(first, len, fin, acks) ==
  [seq |-> SeqAt(first), len |-> len, m |-> [i \in 1..len |-> first + i - 1],
   fin |-> fin, tifin |-> fin, acks |-> acks, over |-> ~InWindow(first, len, fin)]

OurFinSent == t_state \in {"FIN_WAIT_1", "CLOSING", "LAST_ACK", "FIN_WAIT_2", "TIME_WAIT"}

Arrivals ==
  {Segment(x[1], x[2], x[3], x[4]) : x \in
     {y \in (1..(N + 2)) \X (0..t_maxseg) \X BOOLEAN \X BOOLEAN :
        /\ y[2] > 0 => y[1] + y[2] <= N + 1
        /\ y[3] => y[1] + y[2] = N + 1
        /\ Overrun \/ InWindow(y[1], y[2], y[3])
        /\ y[4] => OurFinSent}}

(* What the peer sends again until it is acknowledged: a segment that      *)
(* starts with the byte, or is the FIN, the receiver waits for.            *)
Retransmitted == {s \in Arrivals : s.seq = rcv_nxt /\ (s.len > 0 \/ s.fin) /\ ~s.over}

Init ==
  /\ t_state = "ESTABLISHED"
  /\ rcv_nxt = SeqAt(1)
  /\ rcv_adv = Unsigned(rcv_nxt + sb_hiwat)
  /\ segq = <<>> /\ got = <<>> /\ sb_cc = 0
  /\ cantrcvmore = FALSE /\ acknow = FALSE /\ delack = FALSE /\ overran = FALSE

-----------------------------------------------------------------------------
(* tcp_output(): nxt, cc, owed, delayed are rcv_nxt, sb_cc, TF_ACKNOW and  *)
(* TF_DELACK when it is called; forced when it sends whatever these say.   *)
WindowUpdateDue(nxt, cc) ==
  LET win == sb_hiwat - cc
      adv == win - Signed(rcv_adv - nxt)
  IN win > 0 /\ (adv >= 2 * t_maxseg \/ 2 * adv >= sb_hiwat)

Advertised(nxt, cc) ==
  LET win == sb_hiwat - cc
      avoided == IF win < sb_hiwat \div 4 /\ win < t_maxseg THEN 0 ELSE win
  IN Larger(avoided, Signed(rcv_adv - nxt))

NewEdge(nxt, win) ==
  IF win > 0 /\ SEQ_GT(nxt + win, rcv_adv) THEN Unsigned(nxt + win) ELSE rcv_adv

tcp_output(nxt, cc, owed, delayed, forced) ==
  LET sends == owed \/ forced \/ WindowUpdateDue(nxt, cc)
  IN \/ /\ sends
        /\ rcv_adv' = NewEdge(nxt, Advertised(nxt, cc))
        /\ acknow' = FALSE /\ delack' = FALSE
     \/ /\ sends => OutputMayFail
        /\ rcv_adv' = rcv_adv /\ acknow' = owed /\ delack' = delayed

-----------------------------------------------------------------------------
(* tcp_reass(): the queue with s in it, no two segments of it overlapping, *)
(* or the same queue when the segment before it holds all of s.            *)
EndOf(s) == s.seq + s.len

(* How far a loop over a queue of n segments gets that stops at the first  *)
(* one not in S.                                                           *)
Leading(S, n) == CHOOSE i \in 0..n : 1..i \subseteq S /\ (i < n => i + 1 \notin S)

DropFront(s, n) == [s EXCEPT !.seq = Unsigned(@ + n), !.len = @ - n, !.m = SubSeq(@, n + 1, Len(@))]

Queued(s) == [seq |-> s.seq, len |-> s.len, fin |-> s.fin, m |-> s.m]

(* Segments p and before it in the queue do not start after s; Overlap is  *)
(* what p has of the beginning of s.                                       *)
Predecessor(s) == Leading({j \in DOMAIN segq : ~SEQ_GT(segq[j].seq, s.seq)}, Len(segq))

Overlap(s) ==
  LET p == Predecessor(s)
  IN IF p = 0 THEN 0 ELSE Larger(0, Signed(EndOf(segq[p]) - s.seq))

(* Of the segments in q, the ones that new reaches the end of are dropped, *)
(* and the next loses what new has of it.                                  *)
Reach(new, x) == Signed(EndOf(new) - x.seq)

CoveredAtFront(new, q) ==
  Leading({j \in DOMAIN q : Reach(new, q[j]) > 0 /\ Reach(new, q[j]) >= q[j].len}, Len(q))

Successors(new, q) ==
  LET n == CoveredAtFront(new, q)
  IN [j \in 1..(Len(q) - n) |->
        IF j = 1 /\ Reach(new, q[n + 1]) > 0 THEN DropFront(q[n + 1], Reach(new, q[n + 1]))
        ELSE q[n + j]]

InsertSegment(s) ==
  LET p == Predecessor(s)
      new == DropFront(s, Overlap(s))
  IN SubSeq(segq, 1, p) \o <<new>> \o Successors(new, SubSeq(segq, p + 1, Len(segq)))

(* Faulty variant: a segment the queue already holds is not recognised.    *)
NeverCovered(s) == FALSE

CoveredByPredecessor(s) == Overlap(s) > 0 /\ Overlap(s) >= s.len

(* Faulty variant: only the first segment is compared with rcv_nxt.        *)
PresentableWithGaps(q) == IF q[1].seq = rcv_nxt THEN Len(q) ELSE 0

(* How many segments of queue q are now in sequence.                       *)
Presentable(q) ==
  Leading({j \in DOMAIN q :
             q[j].seq = IF j = 1 THEN rcv_nxt ELSE Unsigned(EndOf(q[j - 1]))}, Len(q))

(* Faulty variants: the FIN of any queued segment counts; the data goes to *)
(* a socket that can receive no more.                                      *)
FinAnywhere(q, k) == k > 0 /\ \E j \in DOMAIN q : q[j].fin
AppendedAlways(data) == data

FinReached(q, k) == k > 0 /\ q[k].fin
Appended(data) == IF cantrcvmore THEN <<>> ELSE data

Present(q) ==
  LET k == Presentable(q)
  IN [nxt |-> IF k = 0 THEN rcv_nxt ELSE Unsigned(EndOf(q[k])),
      q |-> SubSeq(q, k + 1, Len(q)),
      data |-> Appended(FlattenSeq([j \in 1..k |-> q[j].m])),
      fin |-> FinReached(q, k)]

(* Faulty variant: what becomes in sequence stays queued.                  *)
tcp_reassQueuesOnly(s) ==
  [nxt |-> rcv_nxt, q |-> InsertSegment(Queued(s)), data |-> <<>>, fin |-> FALSE]

tcp_reass(s) ==
  IF CoveredByPredecessor(s)
  THEN [nxt |-> rcv_nxt, q |-> segq, data |-> <<>>, fin |-> FALSE]
  ELSE Present(InsertSegment(Queued(s)))

-----------------------------------------------------------------------------
(* The receive window; max() takes and returns u_int.                      *)
RcvWnd == Larger(Unsigned(Larger(sbspace, 0)), Unsigned(rcv_adv - rcv_nxt))

(* Data from before rcv_nxt goes, and the FIN when nothing is left.        *)
TrimFront(s) ==
  LET todrop == Signed(rcv_nxt - s.seq)
  IN IF todrop <= 0 THEN s
     ELSE [DropFront(s, Lesser(todrop, s.len)) EXCEPT !.tifin = @ /\ todrop < s.len]

AllOld(s) == LET todrop == Signed(rcv_nxt - s.seq) IN todrop > 0 /\ todrop >= s.len

(* Data from past the window goes, and the FIN with it.                    *)
Beyond(s) == Signed(EndOf(s) - (rcv_nxt + RcvWnd))

ProbesClosedWindow(s) == RcvWnd = 0 /\ s.seq = rcv_nxt

(* Faulty variant: the chain is cut and ti_len is not.                     *)
TrimBackKeepsLength(s) ==
  IF Beyond(s) <= 0 THEN s
  ELSE [s EXCEPT !.m = SubSeq(@, 1, s.len - Beyond(s)), !.tifin = FALSE]

TrimBack(s) ==
  IF Beyond(s) <= 0 THEN s
  ELSE [s EXCEPT !.len = @ - Beyond(s), !.m = SubSeq(@, 1, s.len - Beyond(s)), !.tifin = FALSE]

NothingInWindow(s) == Beyond(s) > 0 /\ Beyond(s) >= s.len

(* State after the acknowledgment that the segment carries.                *)
AfterAck(s) ==
  CASE s.acks /\ t_state = "FIN_WAIT_1" -> "FIN_WAIT_2"
    [] s.acks /\ t_state = "CLOSING" -> "TIME_WAIT"
    [] s.acks /\ t_state = "LAST_ACK" -> "CLOSED"
    [] OTHER -> t_state

AfterFin(state) ==
  CASE state = "ESTABLISHED" -> "CLOSE_WAIT"
    [] state = "FIN_WAIT_1" -> "CLOSING"
    [] state = "FIN_WAIT_2" -> "TIME_WAIT"
    [] OTHER -> state

(* Faulty variant: the reassembly queue is not looked at.                  *)
InSequenceAnyQueue(s) == s.seq = rcv_nxt /\ t_state = "ESTABLISHED"

(* TCP_REASS: a segment in sequence, nothing queued, on an established     *)
(* connection is appended at once.                                         *)
InSequence(s) == s.seq = rcv_nxt /\ segq = <<>> /\ t_state = "ESTABLISHED"

TCP_REASS(s) ==
  IF InSequence(s)
  THEN [nxt |-> Unsigned(rcv_nxt + s.len), q |-> segq, data |-> s.m, fin |-> s.fin]
  ELSE tcp_reass(s)

(* From step6 on: text, FIN, and the answer.                               *)
HasText(s) == (s.len > 0 \/ s.tifin) /\ ~TCPS_HAVERCVDFIN(AfterAck(s))

Received(s) ==
  IF HasText(s) THEN TCP_REASS(s)
  ELSE [nxt |-> rcv_nxt, q |-> segq, data |-> <<>>, fin |-> FALSE]

Text(s, owed) ==
  \E r \in {Received(s)} :
    /\ t_state' = IF r.fin THEN AfterFin(AfterAck(s)) ELSE AfterAck(s)
    /\ rcv_nxt' = IF r.fin THEN Unsigned(r.nxt + 1) ELSE r.nxt
    /\ segq' = r.q /\ Len(r.q) <= MaxQueued
    /\ got' = got \o r.data
    /\ sb_cc' = sb_cc + Len(r.data)
    /\ cantrcvmore' = (cantrcvmore \/ r.fin)
    /\ \E push, needoutput \in BOOLEAN :
         LET now == owed \/ r.fin \/ (HasText(s) /\ (push \/ ~InSequence(s)))
             later == delack \/ (HasText(s) /\ ~push /\ InSequence(s))
         IN IF needoutput \/ now THEN tcp_output(rcv_nxt', sb_cc', now, later, FALSE)
            ELSE rcv_adv' = rcv_adv /\ acknow' = now /\ delack' = later

(* Faulty variant: header prediction does not look for space.              *)
PredictedNoSpace(s) ==
  t_state = "ESTABLISHED" /\ ~s.fin /\ s.seq = rcv_nxt /\ s.len > 0 /\ segq = <<>>

(* Header prediction: the segment a fast sender sends next.                *)
Predicted(s) ==
  /\ t_state = "ESTABLISHED" /\ ~s.fin /\ s.seq = rcv_nxt
  /\ s.len > 0 /\ segq = <<>> /\ s.len <= sbspace

AppendPredicted(s) ==
  /\ Predicted(s)
  /\ rcv_nxt' = Unsigned(rcv_nxt + s.len)
  /\ got' = got \o s.m /\ sb_cc' = sb_cc + s.len
  /\ \/ acknow' = TRUE /\ UNCHANGED delack
     \/ delack' = TRUE /\ UNCHANGED acknow
  /\ UNCHANGED <<t_state, rcv_adv, segq, cantrcvmore>>

(* dropafterack: the segment is not acceptable, and is answered.           *)
DropAfterAck(s) ==
  /\ NothingInWindow(s) /\ ~ProbesClosedWindow(s)
  /\ tcp_output(rcv_nxt, sb_cc, TRUE, delack, FALSE)
  /\ UNCHANGED <<t_state, rcv_nxt, segq, got, sb_cc, cantrcvmore>>

(* One duplicate ack too many while our FIN is unacknowledged: tcp_input() *)
(* retransmits and drops the segment.                                      *)
DropDuplicateAck(s, owed) ==
  /\ s.len = 0 /\ ~s.acks
  /\ t_state \in {"FIN_WAIT_1", "CLOSING", "LAST_ACK"}
  /\ \E forced \in BOOLEAN : tcp_output(rcv_nxt, sb_cc, owed, delack, forced)
  /\ UNCHANGED <<t_state, rcv_nxt, segq, got, sb_cc, cantrcvmore>>

(* The ack of our FIN in LAST_ACK: tcp_close().                            *)
CloseConnection ==
  /\ t_state' = "CLOSED" /\ segq' = <<>>
  /\ acknow' = FALSE /\ delack' = FALSE
  /\ UNCHANGED <<rcv_nxt, rcv_adv, got, sb_cc, cantrcvmore>>

(* What tcp_input() makes of s up to the ACK processing: it is in the      *)
(* window or probes a closed one, is trimmed to it, and may be owed an     *)
(* ack.                                                                    *)
Acceptable(s) == NothingInWindow(TrimFront(s)) => ProbesClosedWindow(TrimFront(s))
Trimmed(s) == TrimBack(TrimFront(s))
Owed(s) == acknow \/ AllOld(s) \/ NothingInWindow(TrimFront(s))

Accept(s) ==
  /\ Acceptable(s)
  /\ IF t_state = "LAST_ACK" /\ s.acks THEN CloseConnection
     ELSE \E t \in {Trimmed(s)}, owed \in {Owed(s)} : Text(t, owed)

tcp_input(s) ==
  /\ t_state # "CLOSED"
  /\ \/ AppendPredicted(s)
     \/ DropAfterAck(TrimFront(s))
     \/ Acceptable(s) /\ DropDuplicateAck(Trimmed(s), Owed(s))
     \/ Accept(s)
  /\ overran' = (overran \/ s.over)

-----------------------------------------------------------------------------
(* The process reads n bytes: the end of soreceive(), with PRU_RCVD.       *)
PRU_RCVD(n) ==
  /\ n <= sb_cc
  /\ sb_cc' = sb_cc - n
  /\ IF t_state = "CLOSED" THEN UNCHANGED <<rcv_adv, acknow, delack>>
     ELSE tcp_output(rcv_nxt, sb_cc - n, acknow, delack, FALSE)
  /\ UNCHANGED <<t_state, rcv_nxt, segq, got, cantrcvmore, overran>>

tcp_fasttimo ==
  /\ delack
  /\ tcp_output(rcv_nxt, sb_cc, TRUE, FALSE, FALSE)
  /\ UNCHANGED <<t_state, rcv_nxt, segq, got, sb_cc, cantrcvmore, overran>>

(* The process will send no more: tcp_usrclosed(), and our FIN goes out.   *)
PRU_SHUTDOWN ==
  /\ \/ t_state = "ESTABLISHED" /\ t_state' = "FIN_WAIT_1"
     \/ t_state = "CLOSE_WAIT" /\ t_state' = "LAST_ACK"
  /\ tcp_output(rcv_nxt, sb_cc, acknow, delack, TRUE)
  /\ UNCHANGED <<rcv_nxt, segq, got, sb_cc, cantrcvmore, overran>>

Next ==
  \/ \E s \in Arrivals : tcp_input(s)
  \/ \E n \in 1..sb_hiwat : PRU_RCVD(n)
  \/ tcp_fasttimo
  \/ PRU_SHUTDOWN

Spec == Init /\ [][Next]_vars

(* The peer retransmits until it is acknowledged and not every copy is     *)
(* lost; the process reads; the fast timer runs.                           *)
Fairness ==
  /\ SF_vars(t_state # "CLOSED" /\ UNCHANGED overran /\ \E s \in Retransmitted : Accept(s))
  /\ WF_vars(\E n \in 1..sb_hiwat : PRU_RCVD(n))
  /\ WF_vars(tcp_fasttimo)

FairSpec == Spec /\ Fairness

-----------------------------------------------------------------------------
Byte == 1..N
SeqNo == 0..(SeqSpace - 1)

TypeOK ==
  /\ t_state \in {"ESTABLISHED", "CLOSE_WAIT", "FIN_WAIT_1", "CLOSING", "LAST_ACK",
                  "FIN_WAIT_2", "TIME_WAIT", "CLOSED"}
  /\ rcv_nxt \in SeqNo /\ rcv_adv \in SeqNo
  /\ segq \in Seq([seq : SeqNo, len : Nat, fin : BOOLEAN, m : Seq(Byte)])
  /\ got \in Seq(Byte) /\ sb_cc \in 0..Len(got)
  /\ cantrcvmore \in BOOLEAN /\ acknow \in BOOLEAN /\ delack \in BOOLEAN /\ overran \in BOOLEAN

(* The process reads the bytes of the stream in order, each once, however  *)
(* the network repeats, overlaps and reorders them.  What waits in the     *)
(* reassembly queue is in order, too: its segments do not overlap, each    *)
(* holds the bytes its header says, and the first is not yet due.          *)
StreamInOrder ==
  /\ \A i \in DOMAIN got : got[i] = i
  /\ \A i \in DOMAIN segq :
       /\ segq[i].len = Len(segq[i].m)
       /\ \A j \in 1..segq[i].len : Unsigned(segq[i].seq + j - 1) = SeqAt(segq[i].m[j])
       /\ i > 1 => Signed(segq[i].seq - EndOf(segq[i - 1])) >= 0
  /\ segq # <<>> /\ ~cantrcvmore => SEQ_GT(segq[1].seq, rcv_nxt)

(* rcv_nxt, which is what we acknowledge, is what the process was given;   *)
(* and while the peer keeps to its window, the end of the file is the end  *)
(* of the stream: the FIN is taken in its place, as one more byte.         *)
AcksWhatArrived ==
  /\ ~cantrcvmore => rcv_nxt = SeqAt(Len(got) + 1)
  /\ cantrcvmore /\ ~overran => Len(got) = N /\ rcv_nxt = SeqAt(N + 2)

(* What was promised can be held: the unread bytes and the window the peer *)
(* still has together fit the receive buffer, which nothing checks when    *)
(* segments are appended.                                                  *)
PromiseFits == sb_cc + Larger(Signed(rcv_adv - rcv_nxt), 0) <= sb_hiwat

(* "drop trailing data (and PUSH and FIN)": a FIN past the window is not   *)
(* taken with the data before it.                                          *)
FinPastWindowIsDropped == cantrcvmore => Len(got) = N

(* "If a FIN has already been received on this connection then we just     *)
(* ignore the text."                                                       *)
NoTextAfterFin == [][cantrcvmore => got' = got]_vars

(* The whole stream and its end reach the process.                         *)
StreamArrives == <>(cantrcvmore /\ Len(got) = N /\ sb_cc = 0)
=============================================================================
