------------------------------ MODULE BufCache ------------------------------
(***************************************************************************)
(* The buffer cache: sys/kern/vfs_bio.c with bgetvp() and brelvp() of      *)
(* sys/kern/vfs_subr.c, used by processes that read and write blocks, over *)
(* a disk that completes transfers by calling biodone().                   *)
(*                                                                         *)
(* The kernel is not preempted: what a process does from one tsleep() to   *)
(* the next is one step, and biodone() comes between two steps.            *)
(* VOP_STRATEGY() is taken not to sleep, nor to complete before it returns *)
(* (so that bwrite() may set B_AGE after it).  A process holds one buffer  *)
(* at a time, so that there must be more headers than processes.           *)
(*                                                                         *)
(* Left out: geteblk(), B_LOCKED, B_NOCACHE, B_CALL, B_TAPE, interrupted   *)
(* sleeps (slpflag is 0), v_numoutput, the flags a buffer without contents *)
(* keeps until it is taken again, and the order within a free list and a   *)
(* hash chain: which buffer is found first is left open.                   *)
(***************************************************************************)
EXTENDS Integers, FiniteSets

CONSTANTS
  Proc,        \* processes
  Buf,         \* buffer headers (nbuf)
  Pages,       \* Pages[b]: the pages bufinit() gives header b
  Block,       \* blocks of the disk
  SizeOf,      \* SizeOf[k]: the pages block k needs, 1 or 2
  MaxVersion,  \* bound: MaxVersion[k] writes of block k
  NONE         \* no block, no buffer, no channel

ASSUME HeadersAreFinite == IsFiniteSet(Buf)
ASSUME SizeOfType == SizeOf \in [Block -> {1, 2}]
ASSUME PagesType == Pages \in [Buf -> Nat \ {0}]
ASSUME MaxVersionType == MaxVersion \in [Block -> Nat]
ASSUME NoneIsNew ==
  /\ NONE \notin Buf \cup Block \cup {"AGE", "LRU", "EMPTY", "needbuffer"}
  /\ "needbuffer" \notin Buf

VARIABLES
  buf,         \* buf[b]: the header, see Header
  needbuffer,  \* somebody sleeps for a buffer of any kind
  io,          \* buffers the driver has
  disk,        \* disk[k]: the version of block k on the disk
  proc,        \* proc[p]: where p is, and its locals, see Process
  latest,      \* latest[k]: the version written last, wherever it is
  failed,      \* blocks with a write that failed
  late         \* blocks that got a second buffer after a sleep in allocbuf()

vars == <<buf, needbuffer, io, disk, proc, latest, failed, late>>

Flag == {"B_BUSY", "B_WANTED", "B_DONE", "B_DELWRI", "B_READ", "B_ASYNC", "B_AGE",
         "B_INVAL", "B_ERROR"}
List == {"AGE", "LRU", "EMPTY"}
Header == [blk : Block \cup {NONE},     \* b_vp and b_lblkno
           flags : SUBSET Flag,         \* b_flags
           pages : Nat,                 \* b_bufsize
           list : List \cup {NONE},     \* the free list it is on
           data : Nat]

(* In user code; in getblk(), and in its allocbuf(); a caller that got a   *)
(* buffer; in biowait() for a read, and for a synchronous write; in        *)
(* vinvalbuf().                                                            *)
Place == {"user", "getblk", "allocbuf", "got", "bread", "bwrite", "vinvalbuf"}
Process == [at : Place, want : Block \cup {NONE}, bp : Buf \cup {NONE},
            wchan : Buf \cup {NONE, "needbuffer"}]

Idle == [at |-> "user", want |-> NONE, bp |-> NONE, wchan |-> NONE]

Init ==
  /\ buf = [b \in Buf |-> [blk |-> NONE, flags |-> {"B_INVAL"}, pages |-> Pages[b],
                           list |-> "AGE", data |-> 0]]
  /\ needbuffer = FALSE
  /\ io = {}
  /\ disk = [k \in Block |-> 0]
  /\ proc = [p \in Proc |-> Idle]
  /\ latest = [k \in Block |-> 0]
  /\ failed = {}
  /\ late = {}

-----------------------------------------------------------------------------
(* brelse(): the header it leaves, and whom it wakes.                      *)

(* Faulty variant: a buffer whose transfer failed stays valid.             *)
IgnoresErrors(r) == r.pages = 0 \/ "B_INVAL" \in r.flags

Invalid(r) == r.pages = 0 \/ {"B_INVAL", "B_ERROR"} \cap r.flags # {}

Released(r) ==
  LET kept == r.flags \ {"B_WANTED", "B_AGE", "B_ASYNC", "B_BUSY"}
  IN IF Invalid(r)
     THEN [r EXCEPT !.blk = NONE, !.data = 0,
                    !.flags = {"B_INVAL"},
                    !.list = IF r.pages = 0 THEN "EMPTY" ELSE "AGE"]
     ELSE [r EXCEPT !.flags = kept, !.list = IF "B_AGE" \in r.flags THEN "AGE" ELSE "LRU"]

(* Faulty variant: who waits for any buffer is not woken.                  *)
WakesForThis(b) == {p \in Proc : proc[p].wchan = b /\ "B_WANTED" \in buf[b].flags}

WokenBy(b) ==
  {p \in Proc : \/ proc[p].wchan = "needbuffer" /\ needbuffer
                \/ proc[p].wchan = b /\ "B_WANTED" \in buf[b].flags}

Awake(procs, W) == [p \in Proc |-> IF p \in W THEN [procs[p] EXCEPT !.wchan = NONE] ELSE procs[p]]

-----------------------------------------------------------------------------
(* bwrite() up to VOP_STRATEGY(), and what getnewbuf() makes of a buffer.  *)

Writing(r, async) ==
  LET aged == IF async # {} /\ "B_DELWRI" \in r.flags THEN {"B_AGE"} ELSE {}
  IN [r EXCEPT !.list = NONE,
               !.flags = (@ \ {"B_READ", "B_DONE", "B_ERROR", "B_DELWRI"})
                           \cup {"B_BUSY"} \cup async \cup aged]

Fresh(r) == [r EXCEPT !.blk = NONE, !.flags = {"B_BUSY"}, !.list = NONE, !.data = 0]

On(list) == {b \in Buf : buf[b].list = list}
Delayed == {b \in On("AGE") \cup On("LRU") : "B_DELWRI" \in buf[b].flags}

(* getnewbuf() started writing the buffers W and came to the buffers N: it *)
(* empties AGE before it turns to LRU, and skips no buffer it may take.    *)
Takes(W, N) ==
  /\ N \cap Delayed = {} /\ N \subseteq On("AGE") \cup On("LRU")
  /\ (W \cup N) \cap On("LRU") # {} => On("AGE") \subseteq W \cup N

(* Nothing is left on AGE and LRU after that.                              *)
AllTaken(W, N) == W \cup N = On("AGE") \cup On("LRU")

WithWrites(W) == [b \in Buf |-> IF b \in W THEN Writing(buf[b], {"B_ASYNC"}) ELSE buf[b]]

At(at, k, b, c) == [at |-> at, want |-> k, bp |-> b, wchan |-> c]

-----------------------------------------------------------------------------
(* getblk().                                                               *)

(* Faulty variant: a busy buffer is not found.                             *)
IncoreUnlessBusy(k) == {b \in Buf : buf[b].blk = k /\ {"B_INVAL", "B_BUSY"} \cap buf[b].flags = {}}

incore(k) == {b \in Buf : buf[b].blk = k /\ "B_INVAL" \notin buf[b].flags}

WantsBlock(p, k) ==
  \/ proc[p].at = "user"
  \/ proc[p].at = "getblk" /\ proc[p].want = k /\ proc[p].wchan = NONE

Unchanged == UNCHANGED <<disk, latest, failed>>

(* The buffer is there, but busy.                                          *)
GetblkBusy(p, k) ==
  /\ WantsBlock(p, k)
  /\ \E b \in incore(k) :
       /\ "B_BUSY" \in buf[b].flags
       /\ buf' = [buf EXCEPT ![b].flags = @ \cup {"B_WANTED"}]
       /\ proc' = [proc EXCEPT ![p] = At("getblk", k, NONE, b)]
  /\ UNCHANGED <<needbuffer, io, late>> /\ Unchanged

With(bufs, b, r) == [x \in Buf |-> IF x = b THEN r ELSE bufs[x]]

(* The end of allocbuf(): pages block k does not need go to an empty       *)
(* header e, if there is one, and that is released.                        *)
Piece(bufs, b, e, k) ==
  [bufs[e] EXCEPT !.pages = bufs[b].pages - SizeOf[k], !.flags = {"B_BUSY", "B_INVAL"}]

(* Faulty variant: the buffer keeps the pages, too.                        *)
ShrunkInName(bufs, b, e, k) == With(bufs, e, Released(Piece(bufs, b, e, k)))

Shrunk(bufs, b, e, k) ==
  With(With(bufs, e, Released(Piece(bufs, b, e, k))), b, [bufs[b] EXCEPT !.pages = SizeOf[k]])

(* getblk() returns b, having made bufs of the cache; released says that   *)
(* it called brelse() for another buffer.                                  *)
Return(p, k, b, bufs, released) ==
  LET spare == {e \in Buf : bufs[e].list = "EMPTY"}
      got   == [proc EXCEPT ![p] = [at |-> "got", want |-> k, bp |-> b, wchan |-> NONE]]
      needy == {q \in Proc : proc[q].wchan = "needbuffer"}
      small == bufs[b].pages <= SizeOf[k] \/ spare = {}
      wakes == released \/ ~small
  IN /\ IF small THEN buf' = bufs ELSE \E e \in spare : buf' = Shrunk(bufs, b, e, k)
     /\ needbuffer' = (needbuffer /\ ~wakes)
     /\ proc' = IF wakes THEN Awake(got, needy) ELSE got

(* The buffer is there.                                                    *)
GetblkHit(p, k) ==
  /\ WantsBlock(p, k)
  /\ \E b \in incore(k) :
       /\ "B_BUSY" \notin buf[b].flags
       /\ Return(p, k, b, [buf EXCEPT ![b].flags = @ \cup {"B_BUSY"}, ![b].list = NONE], FALSE)
  /\ UNCHANGED <<io, late>> /\ Unchanged

(* bgetvp() and binshash().                                                *)
Entered(bufs, b, k) == With(bufs, b, [bufs[b] EXCEPT !.blk = k])

(* The buffer is not there: a new one, and pages stolen from another if it *)
(* has too few.                                                            *)
Moved(bufs, b, n, amt) ==
  With(With(bufs, b, [bufs[b] EXCEPT !.pages = bufs[b].pages + amt]),
       n, Released([Fresh(bufs[n]) EXCEPT !.pages = bufs[n].pages - amt]))

(* Faulty variant: as many pages as the block has, not as b lacks.         *)
StealForAll(bufs, b, n) == Moved(bufs, b, n, 2)

Steal(bufs, b, n) == Moved(bufs, b, n, 1)

GetblkMiss(p, k) ==
  /\ WantsBlock(p, k) /\ incore(k) = {}
  /\ \E W \in SUBSET Delayed :
       /\ io' = io \cup W
       /\ \/ /\ AllTaken(W, {})
             /\ needbuffer' = TRUE
             /\ buf' = WithWrites(W)
             /\ proc' = [proc EXCEPT ![p] = At("getblk", k, NONE, "needbuffer")]
          \/ \E b \in Buf :
               LET bufs == With(WithWrites(W), b, Fresh(buf[b]))
               IN /\ Takes(W, {b})
                  /\ \/ /\ bufs[b].pages >= SizeOf[k]
                        /\ Return(p, k, b, Entered(bufs, b, k), FALSE)
                     \/ /\ bufs[b].pages < SizeOf[k]
                        /\ \E n \in Buf \ {b} :
                             /\ Takes(W, {b, n})
                             /\ Return(p, k, b, Entered(Steal(bufs, b, n), b, k), TRUE)
                     \/ /\ bufs[b].pages < SizeOf[k] /\ AllTaken(W, {b})
                        /\ needbuffer' = TRUE
                        /\ buf' = bufs
                        /\ proc' = [proc EXCEPT ![p] = At("allocbuf", k, b, "needbuffer")]
  /\ UNCHANGED late /\ Unchanged

(* getnewbuf() again, for allocbuf().                                      *)
AllocbufGoesOn(p) ==
  /\ proc[p].at = "allocbuf" /\ proc[p].wchan = NONE
  /\ LET b == proc[p].bp
         k == proc[p].want
     IN \E W \in SUBSET Delayed :
          /\ io' = io \cup W
          /\ \/ \E n \in Buf :
                  /\ Takes(W, {n})
                  /\ Return(p, k, b, Entered(Steal(WithWrites(W), b, n), b, k), TRUE)
                  /\ late' = IF incore(k) = {} THEN late ELSE late \cup {k}
             \/ /\ AllTaken(W, {})
                /\ needbuffer' = TRUE
                /\ buf' = WithWrites(W)
                /\ proc' = [proc EXCEPT ![p].wchan = "needbuffer"]
                /\ UNCHANGED late
  /\ Unchanged

-----------------------------------------------------------------------------
(* A process and its buffer: bread(), breadn(), bwrite(), bdwrite(),       *)
(* bawrite() and brelse().                                                 *)

Valid(b) == {"B_DONE", "B_DELWRI"} \cap buf[b].flags # {}

Brelse(p, b, r) ==
  /\ buf' = [buf EXCEPT ![b] = Released(r)]
  /\ needbuffer' = FALSE
  /\ proc' = Awake([proc EXCEPT ![p] = Idle], WokenBy(b))

(* Done with it, having looked at it or not.                               *)
GiveBack(p) ==
  /\ proc[p].at = "got"
  /\ Brelse(p, proc[p].bp, buf[proc[p].bp])
  /\ UNCHANGED <<io, late>> /\ Unchanged

(* bread(), and breadn() for a block to read ahead.                        *)
StartRead(p) ==
  /\ proc[p].at = "got" /\ ~Valid(proc[p].bp)
  /\ LET b == proc[p].bp
     IN /\ io' = io \cup {b}
        /\ \/ /\ buf' = [buf EXCEPT ![b].flags = @ \cup {"B_READ"}]
              /\ proc' = [proc EXCEPT ![p].at = "bread", ![p].wchan = b]
           \/ /\ buf' = [buf EXCEPT ![b].flags = @ \cup {"B_READ", "B_ASYNC"}]
              /\ proc' = [proc EXCEPT ![p] = Idle]
  /\ UNCHANGED <<needbuffer, late>> /\ Unchanged

(* The process changes the block, all of it if it was not read, and writes *)
(* it: delayed, at once, or at once without waiting.                       *)
Changed(p) == [buf[proc[p].bp] EXCEPT !.data = latest[proc[p].want] + 1]

Modifies(p) ==
  /\ proc[p].at = "got"
  /\ latest[proc[p].want] < MaxVersion[proc[p].want]
  /\ latest' = [latest EXCEPT ![proc[p].want] = @ + 1]
  /\ UNCHANGED <<disk, failed, late>>

bdwrite(p) ==
  /\ Modifies(p)
  /\ Brelse(p, proc[p].bp, [Changed(p) EXCEPT !.flags = @ \cup {"B_DELWRI", "B_DONE"}])
  /\ UNCHANGED io

bwrite(p) ==
  /\ Modifies(p)
  /\ LET b == proc[p].bp
     IN /\ io' = io \cup {b}
        /\ \/ /\ buf' = [buf EXCEPT ![b] = Writing(Changed(p), {})]
              /\ proc' = [proc EXCEPT ![p].at = "bwrite", ![p].wchan = b]
           \/ /\ buf' = [buf EXCEPT ![b] = Writing(Changed(p), {"B_ASYNC"})]
              /\ proc' = [proc EXCEPT ![p] = Idle]
  /\ UNCHANGED needbuffer

(* biowait() returns to bread(), whose caller releases the buffer after an *)
(* error, or to bwrite(), which releases it.                               *)
Biowait(p) ==
  /\ proc[p].at \in {"bread", "bwrite"} /\ proc[p].wchan = NONE
  /\ LET b == proc[p].bp
     IN \/ /\ "B_DONE" \notin buf[b].flags
           /\ proc' = [proc EXCEPT ![p].wchan = b]
           /\ UNCHANGED <<buf, needbuffer>>
        \/ /\ "B_DONE" \in buf[b].flags
           /\ \/ /\ proc[p].at = "bread" /\ "B_ERROR" \notin buf[b].flags
                 /\ proc' = [proc EXCEPT ![p].at = "got"]
                 /\ UNCHANGED <<buf, needbuffer>>
              \/ /\ proc[p].at = "bwrite" \/ "B_ERROR" \in buf[b].flags
                 /\ Brelse(p, b, buf[b])
  /\ UNCHANGED <<io, late>> /\ Unchanged

-----------------------------------------------------------------------------
(* vinvalbuf() without V_SAVE, for a file whose blocks are given up; block *)
(* k is the only one of its file.                                          *)

(* Faulty variant: a buffer the driver has is invalidated, too.            *)
BusyOrInIO(b) == "B_BUSY" \in buf[b].flags /\ b \notin io

IsBusy(b) == "B_BUSY" \in buf[b].flags

(* v_cleanblkhd and v_dirtyblkhd *)
BuffersOf(k) == {b \in Buf : buf[b].blk = k}

vinvalbuf(p, k) ==
  /\ \/ proc[p].at = "user"
     \/ proc[p].at = "vinvalbuf" /\ proc[p].want = k /\ proc[p].wchan = NONE
  /\ LET ofFile == BuffersOf(k)
     IN \/ /\ ofFile = {} /\ proc[p].at # "user"
           /\ proc' = [proc EXCEPT ![p] = Idle]
           /\ UNCHANGED <<buf, needbuffer, latest>>
        \/ \E b \in ofFile :
             \/ /\ IsBusy(b)
                /\ buf' = [buf EXCEPT ![b].flags = @ \cup {"B_WANTED"}]
                /\ proc' = [proc EXCEPT ![p] = At("vinvalbuf", k, NONE, b)]
                /\ UNCHANGED <<needbuffer, latest>>
             \/ /\ ~IsBusy(b)
                /\ buf' = [buf EXCEPT ![b] = Released([buf[b] EXCEPT !.flags = @ \cup {"B_INVAL"}])]
                /\ needbuffer' = FALSE
                /\ proc' = Awake([proc EXCEPT ![p] = IF ofFile = {b} THEN Idle
                                                     ELSE At("vinvalbuf", k, NONE, NONE)],
                                 WokenBy(b))
                /\ latest' = [latest EXCEPT ![k] = disk[k]]
  /\ UNCHANGED <<io, disk, failed, late>>

-----------------------------------------------------------------------------
(* The disk, and biodone() at its interrupt.                               *)

Transferred(b, ok) ==
  LET r == [buf[b] EXCEPT !.flags = @ \cup {"B_DONE"} \cup (IF ok THEN {} ELSE {"B_ERROR"})]
  IN IF ok /\ "B_READ" \in r.flags THEN [r EXCEPT !.data = disk[r.blk]] ELSE r

biodone(b, ok) ==
  /\ b \in io
  /\ io' = io \ {b}
  /\ LET write == "B_READ" \notin buf[b].flags
         k     == buf[b].blk
     IN /\ disk' = IF write /\ ok THEN [disk EXCEPT ![k] = buf[b].data] ELSE disk
        /\ failed' = IF write /\ ~ok THEN failed \cup {k} ELSE failed
  /\ \/ /\ "B_ASYNC" \in buf[b].flags
        /\ buf' = [buf EXCEPT ![b] = Released(Transferred(b, ok))]
        /\ needbuffer' = FALSE
        /\ proc' = Awake(proc, WokenBy(b))
     \/ /\ "B_ASYNC" \notin buf[b].flags
        /\ buf' = [buf EXCEPT ![b] = [Transferred(b, ok) EXCEPT !.flags = @ \ {"B_WANTED"}]]
        /\ proc' = Awake(proc, {p \in Proc : proc[p].wchan = b})
        /\ UNCHANGED needbuffer
  /\ UNCHANGED <<latest, late>>

-----------------------------------------------------------------------------
Runs(p) ==
  \/ \E k \in Block : GetblkBusy(p, k) \/ GetblkHit(p, k) \/ GetblkMiss(p, k)
  \/ AllocbufGoesOn(p)
  \/ GiveBack(p) \/ StartRead(p) \/ bdwrite(p) \/ bwrite(p)
  \/ Biowait(p)
  \/ \E k \in Block : vinvalbuf(p, k)

Next ==
  \/ \E p \in Proc : Runs(p)
  \/ \E b \in Buf, ok \in BOOLEAN : biodone(b, ok)

Spec == Init /\ [][Next]_vars

-----------------------------------------------------------------------------
TypeOK ==
  /\ buf \in [Buf -> Header]
  /\ needbuffer \in BOOLEAN
  /\ io \subseteq Buf
  /\ disk \in [Block -> Nat]
  /\ proc \in [Proc -> Process]
  /\ latest \in [Block -> Nat]
  /\ failed \subseteq Block
  /\ late \subseteq Block

(* A buffer is free or busy, and who has a busy one is certain: either one *)
(* process, or the driver for a transfer nobody waits for (B_ASYNC, which  *)
(* makes biodone() release it).  Only headers with memory are on AGE and   *)
(* LRU.                                                                    *)
OneOwner ==
  \A b \in Buf :
    LET owners == {p \in Proc : proc[p].bp = b}
        alone  == b \in io /\ "B_ASYNC" \in buf[b].flags
    IN /\ "B_BUSY" \in buf[b].flags <=> buf[b].list = NONE
       /\ buf[b].list = NONE <=> owners # {} \/ alone
       /\ Cardinality(owners) <= IF alone THEN 0 ELSE 1
       /\ buf[b].list # NONE => (buf[b].list = "EMPTY" <=> buf[b].pages = 0)

(* Pages move between headers (pagemove() in allocbuf()), but none is lost *)
(* or used twice.                                                          *)
PagesOf(pages) == UNION {{b} \X (1..pages[b]) : b \in Buf}
PagesAreKept ==
  Cardinality(PagesOf([b \in Buf |-> buf[b].pages])) = Cardinality(PagesOf(Pages))

(* Nobody sleeps without somebody to wake him: in getblk() and vinvalbuf() *)
(* for a buffer that is busy and marked, in biowait() for a transfer that  *)
(* is under way, in getnewbuf() while no buffer is free.                   *)
NoWaiterForgotten ==
  \A p \in Proc :
    /\ proc[p].wchan = "needbuffer" => needbuffer /\ On("AGE") \cup On("LRU") = {}
    /\ proc[p].wchan \in Buf =>
         LET b == proc[p].wchan
         IN IF proc[p].at \in {"getblk", "vinvalbuf"}
            THEN {"B_BUSY", "B_WANTED"} \subseteq buf[b].flags
            ELSE b = proc[p].bp /\ b \in io /\ "B_DONE" \notin buf[b].flags

(* "If it is found in the block cache, mark it as having been found, make  *)
(* it busy and return it. Otherwise, return an empty block" (vfs_bio.c):   *)
(* a block has at most one buffer.                                         *)
OneBufferPerBlock == \A k \in Block : Cardinality(BuffersOf(k)) <= 1

(* The one way to a second buffer for a block is a sleep in allocbuf(),    *)
(* between getblk()'s look into the cache and its entry into it.           *)
SecondBufferIsLate == \A k \in Block \ late : Cardinality(BuffersOf(k)) <= 1

(* Whatever was written last is what a process reads from the cache, and   *)
(* it is on the disk, on its way there, or waiting in a buffer marked for  *)
(* it.  Excepted are blocks that had two buffers, and blocks a write of    *)
(* which failed.                                                           *)
Marked(b) == "B_DELWRI" \in buf[b].flags \/ (b \in io /\ "B_READ" \notin buf[b].flags)
Readable(b) == Valid(b) /\ \A p \in Proc : proc[p].bp = b => proc[p].at = "got"

LastWriteIsKept ==
  \A k \in Block \ (late \cup failed) :
    /\ \A b \in BuffersOf(k) : Readable(b) \/ Marked(b) => buf[b].data = latest[k]
    /\ disk[k] = latest[k] \/ \E b \in BuffersOf(k) : Marked(b)
=============================================================================
