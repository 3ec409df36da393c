--------------------------- MODULE BufCacheProofs ---------------------------
(* Every buffer has one owner, nobody sleeps without somebody to wake him, *)
(* and what was written last is kept, for any number of processes, buffers *)
(* and blocks.                                                             *)
EXTENDS BufCache, FiniteSetTheorems, TLAPS

(* A header on a free list, and one that is not.                           *)
GoodFree(r) ==
  /\ r.list \in List
  /\ "B_BUSY" \notin r.flags /\ "B_ASYNC" \notin r.flags
  /\ r.list = "EMPTY" <=> r.pages = 0
  /\ "B_DELWRI" \in r.flags => r.blk \in Block

GoodBusy(r) ==
  /\ r.list = NONE
  /\ "B_BUSY" \in r.flags
  /\ "B_DELWRI" \in r.flags => r.blk \in Block

Owns(p, b) == proc[p].bp = b
Transfers(p, b) == Owns(p, b) /\ proc[p].at \in {"bread", "bwrite"} /\ proc[p].wchan = b

(* What the driver has is busy, not done, and awaited unless B_ASYNC; what *)
(* is busy otherwise belongs to a process.                                 *)
Sound(b) ==
  /\ GoodFree(buf[b]) \/ GoodBusy(buf[b])
  /\ b \in io =>
       /\ buf[b].list = NONE /\ buf[b].blk \in Block /\ "B_DONE" \notin buf[b].flags
       /\ "B_ASYNC" \in buf[b].flags \/ \E p \in Proc : Transfers(p, b)
  /\ "B_ASYNC" \in buf[b].flags => b \in io
  /\ buf[b].list = NONE => "B_ASYNC" \in buf[b].flags \/ \E p \in Proc : Owns(p, b)

(* What a process has and waits for, by where it is.                       *)
Holds(r) ==
  /\ r.bp \in Buf /\ r.want \in Block
  /\ buf[r.bp].list = NONE /\ "B_ASYNC" \notin buf[r.bp].flags

Waiting(r) ==
  /\ r.at \in {"getblk", "vinvalbuf"} /\ r.want \in Block /\ r.bp = NONE
  /\ r.wchan \in Buf => {"B_BUSY", "B_WANTED"} \subseteq buf[r.wchan].flags
  /\ r.at = "vinvalbuf" => r.wchan # "needbuffer"
Growing(r) == r.at = "allocbuf" /\ Holds(r) /\ r.bp \notin io /\ r.wchan \in {NONE, "needbuffer"}
Using(r) ==
  /\ r.at = "got" /\ Holds(r) /\ r.bp \notin io /\ r.wchan = NONE
  /\ buf[r.bp].blk \in Block
Transferring(r) ==
  /\ r.at \in {"bread", "bwrite"} /\ Holds(r) /\ buf[r.bp].blk \in Block
  /\ \/ r.wchan = NONE /\ r.bp \notin io /\ "B_DONE" \in buf[r.bp].flags
     \/ r.wchan = r.bp /\ r.bp \in io

Placed(p) ==
  /\ \/ proc[p] = Idle
     \/ Waiting(proc[p]) \/ Growing(proc[p]) \/ Using(proc[p]) \/ Transferring(proc[p])
  /\ proc[p].wchan = "needbuffer" =>
       needbuffer /\ \A b \in Buf : buf[b].list \notin {"AGE", "LRU"}

OneOwns == \A p, q \in Proc, b \in Buf : Owns(p, b) /\ Owns(q, b) => p = q

IInv ==
  /\ TypeOK
  /\ \A b \in Buf : Sound(b)
  /\ \A p \in Proc : Placed(p)
  /\ OneOwns

-----------------------------------------------------------------------------
(* brelse() leaves a header free, whatever it was before.                  *)
LEMMA ReleasedIsFree ==
  ASSUME NEW r \in Header, "B_DELWRI" \in r.flags => r.blk \in Block
  PROVE  Released(r) \in Header /\ GoodFree(Released(r)) /\ Released(r).pages = r.pages
<1> USE NoneIsNew DEF GoodFree, Released, Header, Flag, List
<1>1. CASE Invalid(r)
  BY <1>1
<1>2. CASE ~Invalid(r)
  <2>1. r.pages # 0
    BY <1>2 DEF Invalid
  <2> QED
    BY <1>2, <2>1
<1> QED
  BY <1>1, <1>2

(* A write takes its buffer off the free list and leaves it to the driver. *)
LEMMA WritingIsBusy ==
  ASSUME NEW r \in Header, NEW async \in SUBSET {"B_ASYNC"}, r.blk \in Block
  PROVE  /\ Writing(r, async) \in Header
         /\ GoodBusy(Writing(r, async))
         /\ Writing(r, async).blk = r.blk
         /\ "B_DONE" \notin Writing(r, async).flags
         /\ "B_WANTED" \in r.flags => "B_WANTED" \in Writing(r, async).flags
         /\ "B_ASYNC" \in Writing(r, async).flags <=> ("B_ASYNC" \in r.flags \/ async # {})
<1> PICK w, aged : /\ w = Writing(r, async)
                   /\ aged = IF async # {} /\ "B_DELWRI" \in r.flags THEN {"B_AGE"} ELSE {}
  OBVIOUS
<1>1. /\ w.blk = r.blk /\ w.list = NONE /\ w.pages = r.pages /\ w.data = r.data
      /\ w.flags = (r.flags \ {"B_READ", "B_DONE", "B_ERROR", "B_DELWRI"})
                     \cup {"B_BUSY"} \cup async \cup aged
      /\ w = [blk |-> w.blk, flags |-> w.flags, pages |-> w.pages, list |-> w.list, data |-> w.data]
  BY DEF Writing, Header
<1>2. aged \subseteq {"B_AGE"} /\ async \subseteq {"B_ASYNC"}
  OBVIOUS
<1> HIDE DEF Writing
<1>3. w.flags \in SUBSET Flag
  BY <1>1, <1>2 DEF Header, Flag
<1>4. w \in Header
  BY <1>1, <1>3 DEF Header
<1>5. GoodBusy(w)
  BY <1>1, <1>2 DEF GoodBusy
<1>6. "B_DONE" \notin w.flags
  BY <1>1, <1>2
<1>7. "B_WANTED" \in r.flags => "B_WANTED" \in w.flags
  BY <1>1
<1>8. "B_ASYNC" \in w.flags <=> ("B_ASYNC" \in r.flags \/ async # {})
  BY <1>1, <1>2
<1> QED
  BY <1>1, <1>4, <1>5, <1>6, <1>7, <1>8

(* The invariant holds at first: every buffer is free, nobody is inside.   *)
LEMMA InitIInv == Init => IInv
<1> SUFFICES ASSUME Init PROVE IInv
  OBVIOUS
<1> USE DEF Init
<1>1. TypeOK
  BY NoneIsNew, PagesType DEF TypeOK, Header, Flag, List, Process, Place, Idle
<1>2. \A b \in Buf : Sound(b)
  BY NoneIsNew, PagesType DEF Sound, GoodFree, List
<1>3. \A p \in Proc : Placed(p)
  BY NoneIsNew DEF Placed, Idle
<1>4. OneOwns
  BY NoneIsNew DEF OneOwns, Owns, Idle
<1> QED
  BY <1>1, <1>2, <1>3, <1>4 DEF IInv

-----------------------------------------------------------------------------
(* What a step leaves alone: a header that at most gets B_WANTED, and a    *)
(* process that at most wakes up.                                          *)
Marks(b) == [buf[b] EXCEPT !.flags = @ \cup {"B_WANTED"}]
BufKept(b) == buf'[b] \in {buf[b], Marks(b)} /\ (b \in io' <=> b \in io)
Wakes(p) == [proc[p] EXCEPT !.wchan = NONE]
ProcKept(p) ==
  \/ proc'[p] = proc[p]
  \/ proc[p].at \notin {"bread", "bwrite"} /\ proc'[p] = Wakes(p)

(* A buffer whose owners, if any, are left alone remains sound.            *)
LEMMA OtherBuffer ==
  ASSUME TypeOK, TypeOK', NEW b \in Buf, Sound(b), BufKept(b),
         \A q \in Proc : Owns(q, b) => ProcKept(q)
  PROVE  Sound(b)'
<1>1. /\ buf'[b].list = buf[b].list /\ buf'[b].blk = buf[b].blk /\ buf'[b].pages = buf[b].pages
      /\ \A f \in Flag \ {"B_WANTED"} : f \in buf'[b].flags <=> f \in buf[b].flags
  BY DEF BufKept, Marks, TypeOK, Header
<1>2. ASSUME NEW q \in Proc, Owns(q, b) PROVE Owns(q, b)' /\ (Transfers(q, b) => Transfers(q, b)')
  BY <1>2 DEF ProcKept, Wakes, Owns, Transfers, TypeOK, Process
<1>3. (GoodFree(buf[b]) \/ GoodBusy(buf[b]))'
  BY <1>1 DEF Sound, GoodFree, GoodBusy, Flag
<1>4. (\E p \in Proc : Transfers(p, b)) => (\E p \in Proc : Transfers(p, b)')
  BY <1>2 DEF Transfers
<1> QED
  BY <1>1, <1>2, <1>3, <1>4 DEF Sound, BufKept, Flag

StaysWanted(b) == buf[b].flags \cap {"B_BUSY", "B_WANTED"} \subseteq buf'[b].flags

LEMMA KeptStaysWanted ==
  ASSUME IInv, NEW b \in Buf, BufKept(b)
  PROVE  StaysWanted(b)
BY DEF IInv, TypeOK, Header, BufKept, Marks, StaysWanted

(* A process whose buffer is left alone remains where it is, if the one it *)
(* waits for stays wanted.                                                 *)
LEMMA OtherProcess ==
  ASSUME TypeOK, TypeOK', NEW q \in Proc, Placed(q), ProcKept(q),
         proc[q].bp \in Buf => BufKept(proc[q].bp),
         proc'[q] = proc[q] =>
           /\ proc[q].wchan \in Buf => StaysWanted(proc[q].wchan)
           /\ proc[q].wchan = "needbuffer" =>
                needbuffer' /\ \A b \in Buf : buf'[b].list \notin {"AGE", "LRU"}
  PROVE  Placed(q)'
<1>1. ASSUME NEW b \in Buf, BufKept(b)
      PROVE  /\ buf'[b].list = buf[b].list /\ buf'[b].blk = buf[b].blk
             /\ buf[b].flags \subseteq buf'[b].flags
             /\ "B_ASYNC" \in buf'[b].flags => "B_ASYNC" \in buf[b].flags
             /\ b \in io' <=> b \in io
  BY <1>1 DEF BufKept, Marks, TypeOK, Header
<1>2. CASE proc'[q] = proc[q]
  <2>1. Waiting(proc[q]) => Waiting(proc[q])'
    BY <1>2 DEF Waiting, StaysWanted
  <2>2. Holds(proc[q]) => Holds(proc[q])'
    BY <1>1, <1>2 DEF Holds
  <2>3. Growing(proc[q]) => Growing(proc[q])'
    BY <1>1, <1>2, <2>2 DEF Growing, Holds
  <2>4. Using(proc[q]) => Using(proc[q])'
    BY <1>1, <1>2, <2>2 DEF Using, Holds
  <2>5. Transferring(proc[q]) => Transferring(proc[q])'
    BY <1>1, <1>2, <2>2 DEF Transferring, Holds
  <2> QED
    BY <1>2, <2>1, <2>3, <2>4, <2>5 DEF Placed
<1>3. CASE proc[q].at \notin {"bread", "bwrite"} /\ proc'[q] = Wakes(q)
  <2> USE <1>3, NoneIsNew DEF Wakes, TypeOK, Process
  <2>1. Waiting(proc[q]) => Waiting(proc[q])'
    BY DEF Waiting
  <2>2. Holds(proc[q]) => Holds(proc[q])'
    BY <1>1 DEF Holds
  <2>3. Growing(proc[q]) => Growing(proc[q])'
    BY <1>1, <2>2 DEF Growing, Holds
  <2>4. Using(proc[q]) => Using(proc[q])'
    BY <1>1, <2>2 DEF Using, Holds
  <2>5. proc[q] = Idle => proc'[q] = Idle
    BY DEF Idle
  <2> QED
    BY <2>1, <2>3, <2>4, <2>5 DEF Placed, Transferring
<1> QED
  BY <1>2, <1>3 DEF ProcKept

-----------------------------------------------------------------------------
(* What the invariant says of who sleeps, and of a free buffer.            *)
LEMMA Sleepers ==
  ASSUME IInv, NEW q \in Proc
  PROVE  /\ proc[q].wchan = "needbuffer" => proc[q].at \in {"getblk", "allocbuf"}
         /\ \A b \in Buf : proc[q].wchan = b /\ ~Owns(q, b) =>
              /\ proc[q].at \in {"getblk", "vinvalbuf"}
              /\ {"B_BUSY", "B_WANTED"} \subseteq buf[b].flags
         /\ \A b \in Buf : Owns(q, b) =>
              /\ buf[b].list = NONE /\ "B_ASYNC" \notin buf[b].flags
              /\ proc[q].at \in {"allocbuf", "got", "bread", "bwrite"}
              /\ proc[q].wchan \in Buf => proc[q].wchan = b /\ b \in io
BY NoneIsNew DEF IInv, Placed, Waiting, Growing, Using, Transferring, Holds, Owns, Idle

LEMMA FreeIsNobodys ==
  ASSUME IInv, NEW b \in Buf, buf[b].list # NONE
  PROVE  /\ b \notin io /\ GoodFree(buf[b])
         /\ \A q \in Proc : ~Owns(q, b) /\ proc[q].wchan # b
<1>1. GoodFree(buf[b]) /\ b \notin io
  BY DEF IInv, Sound, GoodBusy
<1> QED
  BY <1>1, Sleepers DEF GoodFree

(* A buffer that has changed: written by the driver alone, freed, or one   *)
(* process's own.                                                          *)
LEMMA Started ==
  ASSUME IInv, NEW b \in Delayed, b \in io', buf'[b] = Writing(buf[b], {"B_ASYNC"})
  PROVE  Sound(b)' /\ buf'[b].list = NONE
<1>1. b \in Buf /\ buf[b].list # NONE /\ "B_DELWRI" \in buf[b].flags /\ buf[b] \in Header
  BY NoneIsNew DEF Delayed, On, IInv, TypeOK
<1>2. buf[b].blk \in Block
  BY <1>1, FreeIsNobodys DEF GoodFree
<1>3. GoodBusy(buf'[b]) /\ buf'[b].blk \in Block /\ "B_DONE" \notin buf'[b].flags
      /\ "B_ASYNC" \in buf'[b].flags
  BY <1>1, <1>2, WritingIsBusy
<1> QED
  BY <1>1, <1>3 DEF Sound, GoodBusy

LEMMA Freed ==
  ASSUME NEW b \in Buf, b \notin io', GoodFree(buf'[b])
  PROVE  Sound(b)'
BY NoneIsNew DEF Sound, GoodFree, List

LEMMA Owned ==
  ASSUME NEW b \in Buf, b \notin io', GoodBusy(buf'[b]), "B_ASYNC" \notin buf'[b].flags,
         NEW p \in Proc, Owns(p, b)'
  PROVE  Sound(b)'
BY DEF Sound, GoodBusy

(* Two owners cannot come about if only p's buffer changes, to none or to  *)
(* one that nobody else has.                                               *)
LEMMA OwnersKept ==
  ASSUME OneOwns, NEW p \in Proc,
         \A q \in Proc \ {p} : proc'[q].bp = proc[q].bp,
         \A b \in Buf : Owns(p, b)' => \A q \in Proc : Owns(q, b) => q = p
  PROVE  OneOwns'
BY DEF OneOwns, Owns

-----------------------------------------------------------------------------
(* brelse() of buffer b, by process p or in biodone(): everything else is  *)
(* left alone, and those who wait for b or for any buffer wake up.         *)
LEMMA BrelseKeeps ==
  ASSUME IInv, TypeOK', NEW b \in Buf, NEW r \in Header, "B_DELWRI" \in r.flags => r.blk \in Block,
         buf' = [buf EXCEPT ![b] = Released(r)], b \notin io',
         \A x \in Buf \ {b} : x \in io' <=> x \in io,
         NEW M \in SUBSET Proc,
         \A q \in M : Placed(q)' /\ proc'[q].bp = NONE /\ proc[q].bp \in {b, NONE},
         \A q \in Proc \ M :
           ~Owns(q, b) /\ proc'[q] = IF q \in WokenBy(b) THEN Wakes(q) ELSE proc[q]
  PROVE  IInv'
<1>1. GoodFree(buf'[b]) /\ \A x \in Buf \ {b} : BufKept(x)
  BY ReleasedIsFree DEF IInv, TypeOK, BufKept
<1>2. ASSUME NEW q \in Proc \ M PROVE ProcKept(q)
  BY <1>2, Sleepers DEF ProcKept, WokenBy
<1>3. ASSUME NEW q \in Proc \ M PROVE Placed(q)'
  <2>1. proc[q].bp \in Buf => BufKept(proc[q].bp)
    BY <1>1, <1>3 DEF Owns
  <2>2. ASSUME proc'[q] = proc[q]
        PROVE  /\ proc[q].wchan \in Buf => StaysWanted(proc[q].wchan)
               /\ proc[q].wchan # "needbuffer"
    <3>1. CASE q \in WokenBy(b)
      BY <1>3, <2>2, <3>1, NoneIsNew DEF Wakes, IInv, TypeOK, Process
    <3>2. CASE q \notin WokenBy(b)
      <4>1. proc[q].wchan # "needbuffer"
        BY <1>3, <3>2 DEF WokenBy, IInv, Placed
      <4>2. proc[q].wchan # b
        BY <1>3, <3>2, Sleepers DEF WokenBy
      <4> QED
        BY <1>1, <4>1, <4>2, KeptStaysWanted
    <3> QED
      BY <3>1, <3>2
  <2> QED
    BY <1>2, <1>3, <2>1, <2>2, OtherProcess DEF IInv
<1>4. ASSUME NEW x \in Buf PROVE Sound(x)'
  <2>1. CASE x = b
    BY <1>1, <2>1, Freed
  <2>2. CASE x # b
    <3>1. \A q \in Proc : Owns(q, x) => ProcKept(q)
      BY <1>2, <2>2, NoneIsNew DEF Owns
    <3> QED
      BY <1>1, <2>2, <3>1, OtherBuffer DEF IInv
  <2> QED
    BY <2>1, <2>2
<1>5. OneOwns'
  <2>1. \A q \in Proc : proc'[q].bp \in {proc[q].bp, NONE}
    BY <1>2 DEF ProcKept, Wakes, IInv, TypeOK, Process
  <2> QED
    BY <2>1, NoneIsNew DEF IInv, OneOwns, Owns
<1> QED
  BY <1>3, <1>4, <1>5 DEF IInv

-----------------------------------------------------------------------------
(* getnewbuf() started writing the buffers W; the step freed others, took  *)
(* b for process p, and left the rest alone.                               *)
Others(bufs, b, W, released) ==
  \A x \in Buf \ {b} :
    \/ x \in W /\ bufs[x] = Writing(buf[x], {"B_ASYNC"})
    \/ x \notin W /\ bufs[x] = buf[x]
    \/ /\ x \notin W /\ released
       /\ buf[x].list # NONE /\ bufs[x].list # NONE /\ GoodFree(bufs[x])

Own(bufs, b, W) ==
  /\ GoodBusy(bufs[b]) /\ "B_ASYNC" \notin bufs[b].flags /\ b \notin io \cup W
  /\ buf[b].list # NONE \/ ("B_WANTED" \in buf[b].flags => "B_WANTED" \in bufs[b].flags)

Mine(p, b) ==
  /\ proc[p].bp \in {b, NONE} /\ proc[p].wchan = NONE
  /\ b \in Buf => \A q \in Proc : Owns(q, b) => q = p

LEMMA TakingKeeps ==
  ASSUME IInv, TypeOK', NEW p \in Proc, NEW b \in Buf \cup {NONE}, Mine(p, b),
         NEW W \in SUBSET Delayed, io' = io \cup W, b \in Buf => Own(buf', b, W),
         NEW released \in BOOLEAN, Others(buf', b, W, released),
         Placed(p)', proc'[p].bp = b,
         ~released => (needbuffer => needbuffer'),
         \A q \in Proc \ {p} :
           proc'[q] = IF released /\ proc[q].wchan = "needbuffer" THEN Wakes(q) ELSE proc[q]
  PROVE  IInv'
<1>1. ASSUME NEW x \in Buf \ {b}, buf[x].list = NONE
      PROVE  BufKept(x) /\ x \notin W
  <2>1. x \notin W
    BY <1>1, NoneIsNew DEF Delayed, On
  <2> QED
    BY <1>1, <2>1 DEF BufKept, Others
<1>2. ASSUME NEW q \in Proc \ {p} PROVE ProcKept(q)
  BY <1>2, Sleepers DEF ProcKept
<1>3. ASSUME NEW x \in Buf PROVE Sound(x)'
  <2>1. CASE x = b
    BY <2>1, Owned DEF Own, IInv, TypeOK, Owns
  <2>2. CASE x # b /\ x \in W
    BY <2>2, Started DEF Others, IInv
  <2>3. CASE x # b /\ x \notin W /\ buf'[x] = buf[x]
    <3>1. \A q \in Proc : Owns(q, x) => ProcKept(q)
      BY <1>2, <2>3, NoneIsNew DEF Owns, Mine
    <3> QED
      BY <2>3, <3>1, OtherBuffer DEF IInv, BufKept
  <2>4. CASE x # b /\ x \notin W /\ buf[x].list # NONE /\ GoodFree(buf'[x])
    BY <2>4, FreeIsNobodys, Freed
  <2> QED
    BY <2>1, <2>2, <2>3, <2>4 DEF Others
<1>4. ASSUME NEW q \in Proc \ {p} PROVE Placed(q)'
  <2>1. proc[q].bp \in Buf => BufKept(proc[q].bp)
    BY <1>1, <1>4, Sleepers DEF Owns, Mine
  <2>2. ASSUME proc[q].wchan \in Buf PROVE StaysWanted(proc[q].wchan)
    <3>1. buf[proc[q].wchan].list = NONE
      BY <2>2, FreeIsNobodys
    <3>2. CASE proc[q].wchan # b
      BY <1>1, <2>2, <3>1, <3>2, KeptStaysWanted
    <3>3. CASE proc[q].wchan = b
      BY <2>2, <3>1, <3>3 DEF Own, GoodBusy, StaysWanted
    <3> QED
      BY <3>2, <3>3
  <2>3. ASSUME proc'[q] = proc[q], proc[q].wchan = "needbuffer"
        PROVE  needbuffer' /\ \A x \in Buf : buf'[x].list \notin {"AGE", "LRU"}
    <3>1. ~released
      BY <1>4, <2>3, NoneIsNew DEF Wakes, IInv, TypeOK, Process
    <3>2. needbuffer' /\ \A x \in Buf : buf[x].list \notin {"AGE", "LRU"}
      BY <1>4, <2>3, <3>1 DEF IInv, Placed
    <3>3. \A x \in W : buf'[x].list = NONE
      BY <3>2 DEF Delayed, On
    <3> QED
      BY <3>1, <3>2, <3>3, NoneIsNew DEF Others, Own, GoodBusy
  <2> QED
    BY <1>2, <1>4, <2>1, <2>2, <2>3, OtherProcess DEF IInv
<1>5. OneOwns'
  <2>1. \A q \in Proc \ {p} : proc'[q].bp = proc[q].bp
    BY <1>2 DEF ProcKept, Wakes, IInv, TypeOK, Process
  <2> QED
    BY <2>1, OwnersKept DEF Owns, IInv, Mine
<1> QED
  BY <1>3, <1>4, <1>5, <1>2 DEF IInv

(* getblk() returns b, after allocbuf() cut it to size.                    *)
Got(bufs, b, W, released) ==
  /\ bufs \in [Buf -> Header] /\ bufs[b].blk \in Block
  /\ Own(bufs, b, W) /\ Others(bufs, b, W, released)

LEMMA ShrunkHeaders ==
  ASSUME IInv, NEW k \in Block, NEW b \in Buf, NEW bufs, NEW W \in SUBSET Delayed,
         NEW released \in BOOLEAN, Got(bufs, b, W, released),
         NEW e \in Buf, bufs[e].list = "EMPTY", bufs[b].pages > SizeOf[k]
  PROVE  Got(Shrunk(bufs, b, e, k), b, W, TRUE)
<1> DEFINE new == Shrunk(bufs, b, e, k)
           r == Piece(bufs, b, e, k)
           own == [bufs[b] EXCEPT !.pages = SizeOf[k]]
<1> USE DEF Got
<1>1. e # b /\ e \notin W /\ buf[e].list # NONE
  <2>1. e # b
    BY NoneIsNew DEF Own, GoodBusy
  <2>2. e \notin W
    BY <2>1, NoneIsNew, Started DEF Others, Writing, Header, Delayed, IInv, TypeOK
  <2> QED
    BY <2>1, <2>2, NoneIsNew DEF Others
<1>2. r \in Header /\ "B_DELWRI" \notin r.flags
  <2>1. bufs[b].pages - SizeOf[k] \in Nat
    BY SizeOfType DEF Header
  <2>2. bufs[e] \in Header /\ {"B_BUSY", "B_INVAL"} \in SUBSET Flag
    BY DEF Flag
  <2> QED
    BY <2>1, <2>2 DEF Piece, Header
<1>3. Released(r) \in Header /\ GoodFree(Released(r))
  BY <1>2, ReleasedIsFree
<1>4. /\ own \in Header /\ own.blk = bufs[b].blk
      /\ own.list = bufs[b].list /\ own.flags = bufs[b].flags
  BY SizeOfType DEF Header
<1>5. /\ new = [x \in Buf |-> IF x = b THEN own ELSE IF x = e THEN Released(r) ELSE bufs[x]]
  BY <1>1 DEF Shrunk, With
<1>6. /\ new \in [Buf -> Header] /\ new[b] = own /\ new[e] = Released(r)
      /\ \A x \in Buf \ {b, e} : new[x] = bufs[x]
  BY <1>1, <1>3, <1>4, <1>5
<1>7. Own(new, b, W)
  BY <1>4, <1>6 DEF Own, GoodBusy
<1>8. Others(new, b, W, TRUE)
  BY <1>1, <1>3, <1>6, NoneIsNew DEF Others, GoodFree, List
<1> QED
  BY <1>4, <1>6, <1>7, <1>8

LEMMA ReturnKeeps ==
  ASSUME IInv, NEW p \in Proc, NEW k \in Block, NEW b \in Buf, Mine(p, b),
         NEW bufs, NEW W \in SUBSET Delayed, io' = io \cup W,
         NEW released \in BOOLEAN, Got(bufs, b, W, released),
         Return(p, k, b, bufs, released), Unchanged, late' \subseteq Block
  PROVE  IInv'
<1> DEFINE got == [proc EXCEPT ![p] = [at |-> "got", want |-> k, bp |-> b, wchan |-> NONE]]
           needy == {q \in Proc : proc[q].wchan = "needbuffer"}
<1>1. PICK wakes \in BOOLEAN :
        /\ needbuffer' = (needbuffer /\ ~wakes)
        /\ proc' = IF wakes THEN Awake(got, needy) ELSE got
        /\ Got(buf', b, W, wakes)
  <2> DEFINE spare == {e \in Buf : bufs[e].list = "EMPTY"}
             small == bufs[b].pages <= SizeOf[k] \/ spare = {}
  <2>1. CASE small
    BY <2>1 DEF Return
  <2>2. CASE ~small
    <3>1. PICK e \in spare : buf' = Shrunk(bufs, b, e, k)
      BY <2>2 DEF Return
    <3>2. bufs[b].pages > SizeOf[k]
      BY <2>2, SizeOfType DEF Header, Got
    <3>3. /\ needbuffer' = (needbuffer /\ ~TRUE) /\ proc' = Awake(got, needy)
      BY <2>2 DEF Return
    <3>4. Got(Shrunk(bufs, b, e, k), b, W, TRUE)
      <4>1. e \in Buf /\ bufs[e].list = "EMPTY"
        OBVIOUS
      <4> QED
        BY <3>2, <4>1, ShrunkHeaders
    <3> HIDE DEF got, needy
    <3> QED
      BY <3>1, <3>3, <3>4
  <2> QED
    BY <2>1, <2>2
<1> HIDE DEF got, needy
<1>2. /\ proc' \in [Proc -> Process]
      /\ proc'[p] = [at |-> "got", want |-> k, bp |-> b, wchan |-> NONE]
      /\ \A q \in Proc \ {p} :
           proc'[q] = IF wakes /\ proc[q].wchan = "needbuffer" THEN Wakes(q) ELSE proc[q]
  <2>1. [at |-> "got", want |-> k, bp |-> b, wchan |-> NONE] \in Process
    BY DEF Process, Place
  <2>2. proc \in [Proc -> Process]
    BY DEF IInv, TypeOK
  <2> USE DEF got, needy
  <2>3. /\ got \in [Proc -> Process]
        /\ got[p] = [at |-> "got", want |-> k, bp |-> b, wchan |-> NONE]
        /\ \A q \in Proc \ {p} : got[q] = proc[q]
    BY <2>1, <2>2
  <2>4. \A q \in Proc : Wakes(q) \in Process
    BY <2>2 DEF Wakes, Process
  <2>5. p \notin needy
    BY NoneIsNew DEF Mine
  <2> HIDE DEF got
  <2>6. CASE wakes
    <3>1. proc' = [q \in Proc |-> IF q \in needy THEN [got[q] EXCEPT !.wchan = NONE] ELSE got[q]]
      BY <1>1, <2>6 DEF Awake
    <3>2. \A q \in Proc \ {p} : [got[q] EXCEPT !.wchan = NONE] = Wakes(q)
      BY <2>3 DEF Wakes
    <3> QED
      BY <2>3, <2>4, <2>5, <2>6, <3>1, <3>2
  <2>7. CASE ~wakes
    BY <1>1, <2>3, <2>7
  <2> QED
    BY <2>6, <2>7
<1>3. TypeOK'
  <2>1. io' \subseteq Buf
    BY DEF IInv, TypeOK, Delayed, On
  <2> QED
    BY <1>1, <1>2, <2>1 DEF IInv, TypeOK, Unchanged, Got
<1>4. Using(proc[p])'
  BY <1>1, <1>2, NoneIsNew DEF Using, Holds, Got, Own, GoodBusy
<1>5. Placed(p)'
  BY <1>2, <1>4, NoneIsNew DEF Placed
<1> QED
  BY <1>1, <1>2, <1>3, <1>5, TakingKeeps DEF Got, IInv, TypeOK

-----------------------------------------------------------------------------
(* tsleep(&needbuffer) in getnewbuf(), of a process that has buffer b or   *)
(* none: nothing is left on AGE and LRU.                                   *)
LEMMA SleepKeeps ==
  ASSUME IInv, NEW p \in Proc, NEW k \in Block, NEW b \in Buf \cup {NONE}, Mine(p, b),
         NEW W \in SUBSET Delayed, io' = io \cup W, On("AGE") \cup On("LRU") \subseteq W \cup {b},
         buf' \in [Buf -> Header], b \in Buf => Own(buf', b, W), Others(buf', b, W, FALSE),
         needbuffer' = TRUE,
         NEW at, at = IF b = NONE THEN "getblk" ELSE "allocbuf",
         proc' = [proc EXCEPT ![p] = At(at, k, b, "needbuffer")],
         Unchanged, UNCHANGED late
  PROVE  IInv'
<1>1. /\ proc' \in [Proc -> Process] /\ proc'[p] = At(at, k, b, "needbuffer")
      /\ \A q \in Proc \ {p} : proc'[q] = proc[q]
  BY DEF IInv, TypeOK, Process, Place, At
<1>2. TypeOK'
  <2>1. io' \subseteq Buf
    BY DEF IInv, TypeOK, Delayed, On
  <2> QED
    BY <1>1, <2>1 DEF IInv, TypeOK, Unchanged
<1>3. \A x \in Buf : buf'[x].list \notin {"AGE", "LRU"}
  <2>1. \A x \in W : x # b => buf'[x].list = NONE
    BY WritingIsBusy, Started DEF Others, Writing, Delayed, On, IInv, TypeOK, Header
  <2> QED
    BY <2>1, NoneIsNew DEF Own, Others, GoodBusy, On
<1>4. Placed(p)'
  <2>1. CASE b = NONE
    BY <1>1, <1>3, <2>1, NoneIsNew DEF Placed, Waiting, At
  <2>2. CASE b \in Buf
    BY <1>1, <1>3, <2>2, NoneIsNew DEF Placed, Growing, Holds, At, Own, GoodBusy
  <2> QED
    BY <2>1, <2>2
<1> QED
  BY <1>1, <1>2, <1>4, TakingKeeps DEF At

(* A process that has no buffer sleeps for a busy one, and marks it.       *)
LEMMA WaitKeeps ==
  ASSUME IInv, NEW p \in Proc, NEW k \in Block, proc[p].bp = NONE, proc[p].wchan = NONE,
         NEW b \in Buf, "B_BUSY" \in buf[b].flags,
         NEW at \in {"getblk", "vinvalbuf"},
         buf' = [buf EXCEPT ![b].flags = @ \cup {"B_WANTED"}],
         proc' = [proc EXCEPT ![p] = At(at, k, NONE, b)],
         UNCHANGED <<needbuffer, io, disk, latest, failed, late>>
  PROVE  IInv'
<1>1. /\ proc' \in [Proc -> Process] /\ proc'[p] = At(at, k, NONE, b)
      /\ \A q \in Proc \ {p} : proc'[q] = proc[q]
  BY DEF IInv, TypeOK, Process, Place, At
<1>2. /\ buf' \in [Buf -> Header] /\ {"B_BUSY", "B_WANTED"} \subseteq buf'[b].flags
      /\ \A x \in Buf : BufKept(x) /\ buf'[x].list = buf[x].list
  <2>1. Marks(b) \in Header
    BY DEF Marks, IInv, TypeOK, Header, Flag
  <2>2. buf' = [buf EXCEPT ![b] = Marks(b)]
    BY DEF Marks
  <2>3. /\ buf' \in [Buf -> Header] /\ buf'[b] = Marks(b)
        /\ \A x \in Buf \ {b} : buf'[x] = buf[x]
    BY <2>1, <2>2 DEF IInv, TypeOK
  <2>4. Marks(b).list = buf[b].list /\ {"B_BUSY", "B_WANTED"} \subseteq Marks(b).flags
    BY DEF Marks, IInv, TypeOK, Header
  <2> QED
    BY <2>3, <2>4 DEF BufKept
<1>3. TypeOK'
  BY <1>1, <1>2 DEF IInv, TypeOK
<1>4. ASSUME NEW x \in Buf PROVE Sound(x)'
  BY <1>1, <1>2, <1>3, OtherBuffer, NoneIsNew DEF IInv, Owns, ProcKept
<1>5. ASSUME NEW q \in Proc PROVE Placed(q)'
  <2>1. CASE q = p
    BY <1>1, <1>2, <2>1, NoneIsNew DEF Placed, Waiting, At
  <2>2. CASE q # p
    BY <1>1, <1>2, <1>3, <2>2, OtherProcess, KeptStaysWanted DEF IInv, ProcKept, Placed
  <2> QED
    BY <2>1, <2>2
<1>6. OneOwns'
  BY <1>1, NoneIsNew DEF IInv, OneOwns, Owns, At
<1> QED
  BY <1>3, <1>4, <1>5, <1>6 DEF IInv

(* A process hands its buffer to the driver, and waits or leaves it there. *)
LEMMA TransferKeeps ==
  ASSUME IInv, NEW p \in Proc, NEW b \in Buf, Owns(p, b), Using(proc[p]),
         NEW r \in Header, GoodBusy(r), r.blk = buf[b].blk, "B_DONE" \notin r.flags,
         "B_WANTED" \in buf[b].flags => "B_WANTED" \in r.flags,
         buf' = [buf EXCEPT ![b] = r], io' = io \cup {b}, UNCHANGED needbuffer,
         TypeOK',
         \/ /\ "B_ASYNC" \notin r.flags
            /\ \E at \in {"bread", "bwrite"} : proc' = [proc EXCEPT ![p].at = at, ![p].wchan = b]
         \/ "B_ASYNC" \in r.flags /\ proc' = [proc EXCEPT ![p] = Idle]
  PROVE  IInv'
<1>1. /\ buf'[b] = r
      /\ \A x \in Buf \ {b} : BufKept(x) /\ buf'[x] = buf[x]
  BY DEF BufKept, IInv, TypeOK
<1>2. \A q \in Proc \ {p} : proc'[q] = proc[q]
  BY DEF IInv, TypeOK
<1>3. \/ /\ "B_ASYNC" \notin r.flags /\ Transfers(p, b)' /\ Transferring(proc[p])'
         /\ proc'[p].bp = b /\ proc'[p].wchan = b
      \/ "B_ASYNC" \in r.flags /\ proc'[p] = Idle
  <2>1. CASE "B_ASYNC" \in r.flags
    BY <2>1 DEF IInv, TypeOK
  <2>2. ASSUME "B_ASYNC" \notin r.flags,
               NEW at \in {"bread", "bwrite"}, proc' = [proc EXCEPT ![p].at = at, ![p].wchan = b]
        PROVE  /\ Transfers(p, b)' /\ Transferring(proc[p])'
               /\ proc'[p].bp = b /\ proc'[p].wchan = b
    <3>1. /\ proc'[p].at = at /\ proc'[p].bp = b /\ proc'[p].wchan = b
          /\ proc'[p].want = proc[p].want
      BY <2>2 DEF Owns, IInv, TypeOK, Process
    <3> QED
      BY <1>1, <2>2, <3>1 DEF Transfers, Transferring, Holds, Using, Owns, GoodBusy
  <2> QED
    BY <2>1, <2>2
<1>4. ASSUME NEW x \in Buf PROVE Sound(x)'
  <2>1. CASE x = b
    BY <1>1, <1>3, <2>1 DEF Sound, GoodBusy, Using, Owns, Transfers
  <2>2. CASE x # b
    BY <1>1, <1>2, <2>2, OtherBuffer DEF IInv, Owns, ProcKept
  <2> QED
    BY <2>1, <2>2
<1>5. ASSUME NEW q \in Proc PROVE Placed(q)'
  <2>1. CASE q = p
    BY <1>3, <2>1, NoneIsNew DEF Placed, Idle
  <2>2. CASE q # p
    <3>1. proc[q].bp # b
      BY <2>2 DEF IInv, OneOwns, Owns
    <3>2. \A x \in Buf : StaysWanted(x)
      BY <1>1, KeptStaysWanted DEF StaysWanted, GoodBusy
    <3>3. proc[q].wchan = "needbuffer" => \A x \in Buf : buf'[x].list \notin {"AGE", "LRU"}
      BY <1>1, NoneIsNew DEF IInv, Placed, GoodBusy
    <3> QED
      BY <1>1, <1>2, <2>2, <3>1, <3>2, <3>3, OtherProcess DEF IInv, ProcKept, Placed
  <2> QED
    BY <2>1, <2>2
<1>6. OneOwns'
  BY <1>2, <1>3, NoneIsNew DEF IInv, OneOwns, Owns, Idle
<1> QED
  BY <1>4, <1>5, <1>6 DEF IInv

-----------------------------------------------------------------------------
(* The headers getnewbuf(), bgetvp() and allocbuf() leave.                 *)
LEMMA WrittenHeaders ==
  ASSUME IInv, NEW W \in SUBSET Delayed
  PROVE  /\ WithWrites(W) \in [Buf -> Header]
         /\ \A b : Others(WithWrites(W), b, W, FALSE)
         /\ \A x \in Buf \ W : WithWrites(W)[x] = buf[x]
<1>1. ASSUME NEW x \in W PROVE Writing(buf[x], {"B_ASYNC"}) \in Header
  <2>1. /\ x \in Buf /\ buf[x] \in Header
        /\ buf[x].list # NONE /\ "B_DELWRI" \in buf[x].flags
    BY NoneIsNew DEF Delayed, On, IInv, TypeOK
  <2>2. buf[x].blk \in Block
    BY <2>1, FreeIsNobodys DEF GoodFree
  <2> QED
    BY <2>1, <2>2, WritingIsBusy
<1> QED
  BY <1>1 DEF WithWrites, Others, IInv, TypeOK

LEMMA FreshHeaders ==
  ASSUME IInv, NEW W \in SUBSET Delayed, NEW b \in On("AGE") \cup On("LRU"), b \notin W,
         NEW bufs, bufs = With(WithWrites(W), b, Fresh(buf[b]))
  PROVE  /\ bufs \in [Buf -> Header] /\ Own(bufs, b, W) /\ Others(bufs, b, W, FALSE)
<1>1. b \in Buf /\ buf[b] \in Header /\ buf[b].list # NONE
  BY NoneIsNew DEF On, IInv, TypeOK
<1>2. /\ Fresh(buf[b]) \in Header /\ Fresh(buf[b]).list = NONE
      /\ Fresh(buf[b]).flags = {"B_BUSY"}
  BY <1>1 DEF Fresh, Header, Flag
<1>3. bufs \in [Buf -> Header] /\ bufs[b] = Fresh(buf[b])
      /\ \A x \in Buf \ {b} : bufs[x] = WithWrites(W)[x]
  BY <1>1, <1>2, WrittenHeaders DEF With
<1>4. Own(bufs, b, W)
  BY <1>1, <1>2, <1>3, FreeIsNobodys DEF Own, GoodBusy
<1>5. Others(bufs, b, W, FALSE)
  BY <1>3, WrittenHeaders DEF Others
<1> QED
  BY <1>3, <1>4, <1>5

LEMMA StolenHeaders ==
  ASSUME IInv, NEW W \in SUBSET Delayed, NEW b \in Buf,
         NEW bufs \in [Buf -> Header], Own(bufs, b, W), Others(bufs, b, W, FALSE),
         NEW n \in On("AGE") \cup On("LRU"), n \notin W, n # b
  PROVE  /\ Steal(bufs, b, n) \in [Buf -> Header] /\ Own(Steal(bufs, b, n), b, W)
         /\ Others(Steal(bufs, b, n), b, W, TRUE)
<1> DEFINE new == Steal(bufs, b, n)
           own == [bufs[b] EXCEPT !.pages = bufs[b].pages + 1]
           r == [Fresh(bufs[n]) EXCEPT !.pages = bufs[n].pages - 1]
<1>1. n \in Buf /\ buf[n].list # NONE /\ bufs[n] = buf[n] /\ bufs[n] \in Header
  BY NoneIsNew DEF On, Others
<1>2. bufs[n].pages - 1 \in Nat
  <2>1. buf[n].pages # 0
    BY <1>1, FreeIsNobodys DEF GoodFree, On
  <2> QED
    BY <1>1, <2>1 DEF Header
<1>3. r \in Header /\ "B_DELWRI" \notin r.flags
  BY <1>1, <1>2 DEF Fresh, Header, Flag
<1>4. Released(r) \in Header /\ GoodFree(Released(r))
  BY <1>3, ReleasedIsFree
<1>5. /\ own \in Header /\ own.blk = bufs[b].blk
      /\ own.list = bufs[b].list /\ own.flags = bufs[b].flags
  BY DEF Header
<1>6. new = [x \in Buf |-> IF x = n THEN Released(r) ELSE IF x = b THEN own ELSE bufs[x]]
  BY DEF Steal, Moved, With
<1>7. /\ new \in [Buf -> Header] /\ new[b] = own /\ new[n] = Released(r)
      /\ \A x \in Buf \ {b, n} : new[x] = bufs[x]
  BY <1>1, <1>4, <1>5, <1>6
<1>8. Own(new, b, W)
  BY <1>5, <1>7 DEF Own, GoodBusy
<1>9. Others(new, b, W, TRUE)
  BY <1>1, <1>4, <1>7, NoneIsNew DEF Others, GoodFree, List
<1> QED
  BY <1>7, <1>8, <1>9

LEMMA EnteredHeaders ==
  ASSUME NEW W, NEW b \in Buf, NEW k \in Block, NEW released \in BOOLEAN,
         NEW bufs \in [Buf -> Header], Own(bufs, b, W), Others(bufs, b, W, released)
  PROVE  Got(Entered(bufs, b, k), b, W, released)
<1> DEFINE own == [bufs[b] EXCEPT !.blk = k]
           new == Entered(bufs, b, k)
<1>1. /\ own \in Header /\ own.blk = k
      /\ own.list = bufs[b].list /\ own.flags = bufs[b].flags
  BY DEF Header
<1>2. new = [x \in Buf |-> IF x = b THEN own ELSE bufs[x]]
  BY DEF Entered, With
<1>3. /\ new \in [Buf -> Header] /\ new[b] = own
      /\ \A x \in Buf \ {b} : new[x] = bufs[x]
  BY <1>1, <1>2
<1>4. Own(new, b, W)
  BY <1>1, <1>3 DEF Own, GoodBusy
<1>5. Others(new, b, W, released)
  BY <1>3 DEF Others
<1> QED
  BY <1>1, <1>3, <1>4, <1>5 DEF Got

-----------------------------------------------------------------------------
(* getblk(): who comes to it, from outside or from a sleep, has no buffer. *)
LEMMA Arrives ==
  ASSUME IInv, NEW p \in Proc,
         proc[p].at \in {"user", "getblk", "vinvalbuf"}, proc[p].at = "user" \/ proc[p].wchan = NONE
  PROVE  /\ proc[p].bp = NONE /\ proc[p].wchan = NONE
         /\ Mine(p, NONE)
         /\ \A b \in Buf : buf[b].list # NONE => Mine(p, b)
<1>1. proc[p].bp = NONE /\ proc[p].wchan = NONE
  BY DEF IInv, Placed, Waiting, Growing, Using, Transferring, Idle
<1> QED
  BY <1>1, NoneIsNew, FreeIsNobodys DEF Mine

LEMMA GetblkBusyKeeps ==
  ASSUME IInv, NEW p \in Proc, NEW k \in Block, GetblkBusy(p, k)
  PROVE  IInv'
<1>1. proc[p].bp = NONE /\ proc[p].wchan = NONE
  BY Arrives DEF GetblkBusy, WantsBlock
<1>2. PICK b \in incore(k) :
        /\ "B_BUSY" \in buf[b].flags
        /\ buf' = [buf EXCEPT ![b].flags = @ \cup {"B_WANTED"}]
        /\ proc' = [proc EXCEPT ![p] = At("getblk", k, NONE, b)]
  BY DEF GetblkBusy
<1>3. UNCHANGED <<needbuffer, io, disk, latest, failed, late>>
  BY DEF GetblkBusy, Unchanged
<1> QED
  BY <1>1, <1>2, <1>3, WaitKeeps DEF incore

LEMMA GetblkHitKeeps ==
  ASSUME IInv, NEW p \in Proc, NEW k \in Block, GetblkHit(p, k)
  PROVE  IInv'
<1>1. PICK b \in incore(k) :
        /\ "B_BUSY" \notin buf[b].flags
        /\ Return(p, k, b, [buf EXCEPT ![b].flags = @ \cup {"B_BUSY"}, ![b].list = NONE], FALSE)
  BY DEF GetblkHit
<1> DEFINE r == [buf[b] EXCEPT !.flags = @ \cup {"B_BUSY"}, !.list = NONE]
           bufs == [buf EXCEPT ![b] = r]
<1>2. b \in Buf /\ buf[b] \in Header /\ buf[b].list # NONE /\ buf[b].blk = k
  <2>1. b \in Buf /\ buf[b].blk = k /\ Sound(b)
    BY <1>1 DEF incore, IInv
  <2> QED
    BY <1>1, <2>1, NoneIsNew DEF IInv, TypeOK, Sound, GoodBusy, GoodFree, List
<1>3. /\ r \in Header /\ r.list = NONE /\ "B_BUSY" \in r.flags
      /\ r.blk = buf[b].blk /\ ("B_ASYNC" \in r.flags => "B_ASYNC" \in buf[b].flags)
  BY <1>2 DEF Header, Flag
<1>4. bufs \in [Buf -> Header] /\ bufs[b] = r /\ \A x \in Buf \ {b} : bufs[x] = buf[x]
  BY <1>2, <1>3 DEF IInv, TypeOK
<1>5. Got(bufs, b, {}, FALSE)
  <2>1. Own(bufs, b, {})
    BY <1>2, <1>3, <1>4, FreeIsNobodys DEF Own, GoodBusy, GoodFree
  <2>2. Others(bufs, b, {}, FALSE)
    BY <1>4 DEF Others
  <2> QED
    BY <1>2, <1>3, <1>4, <2>1, <2>2 DEF Got
<1>6. Return(p, k, b, bufs, FALSE)
  <2>1. [buf EXCEPT ![b].flags = @ \cup {"B_BUSY"}, ![b].list = NONE] = bufs
    BY <1>2 DEF IInv, TypeOK
  <2> QED
    BY <1>1, <2>1
<1>7. Mine(p, b)
  BY <1>2, Arrives DEF GetblkHit, WantsBlock
<1>8. io' = io \cup {} /\ Unchanged /\ late' \subseteq Block /\ {} \in SUBSET Delayed
  BY DEF GetblkHit, IInv, TypeOK
<1> HIDE DEF bufs
<1> QED
  BY <1>2, <1>5, <1>6, <1>7, <1>8, ReturnKeeps

LEMMA GetblkMissKeeps ==
  ASSUME IInv, NEW p \in Proc, NEW k \in Block, GetblkMiss(p, k)
  PROVE  IInv'
<1>1. /\ Mine(p, NONE)
      /\ \A b \in On("AGE") \cup On("LRU") : b \in Buf /\ Mine(p, b)
  BY Arrives, NoneIsNew DEF GetblkMiss, WantsBlock, On
<1>2. Unchanged /\ UNCHANGED late /\ late' \subseteq Block
  BY DEF GetblkMiss, IInv, TypeOK
<1>3. PICK W \in SUBSET Delayed :
       /\ io' = io \cup W
       /\ \/ /\ AllTaken(W, {})
             /\ needbuffer' = TRUE
             /\ buf' = WithWrites(W)
             /\ proc' = [proc EXCEPT ![p] = At("getblk", k, NONE, "needbuffer")]
          \/ \E b \in Buf :
               LET bufs == With(WithWrites(W), b, Fresh(buf[b]))
               IN /\ Takes(W, {b})
                  /\ \/ /\ bufs[b].pages >= SizeOf[k]
                        /\ Return(p, k, b, Entered(bufs, b, k), FALSE)
                     \/ /\ bufs[b].pages < SizeOf[k]
                        /\ \E n \in Buf \ {b} :
                             /\ Takes(W, {b, n})
                             /\ Return(p, k, b, Entered(Steal(bufs, b, n), b, k), TRUE)
                     \/ /\ bufs[b].pages < SizeOf[k] /\ AllTaken(W, {b})
                        /\ needbuffer' = TRUE
                        /\ buf' = bufs
                        /\ proc' = [proc EXCEPT ![p] = At("allocbuf", k, b, "needbuffer")]
  BY DEF GetblkMiss
<1>4. CASE /\ AllTaken(W, {})
           /\ needbuffer' = TRUE
           /\ buf' = WithWrites(W)
           /\ proc' = [proc EXCEPT ![p] = At("getblk", k, NONE, "needbuffer")]
  <2>1. On("AGE") \cup On("LRU") \subseteq W \cup {NONE}
    BY <1>4 DEF AllTaken
  <2>2. buf' \in [Buf -> Header] /\ Others(buf', NONE, W, FALSE)
    BY <1>4, WrittenHeaders
  <2> QED
    BY <1>1, <1>2, <1>3, <1>4, <2>1, <2>2, SleepKeeps, NoneIsNew
<1>5. ASSUME NEW b \in Buf, NEW bufs, bufs = With(WithWrites(W), b, Fresh(buf[b])),
             Takes(W, {b})
      PROVE  /\ b \in On("AGE") \cup On("LRU") /\ b \notin W
             /\ bufs \in [Buf -> Header] /\ Own(bufs, b, W) /\ Others(bufs, b, W, FALSE)
  <2>1. b \in On("AGE") \cup On("LRU") /\ b \notin W
    BY <1>5 DEF Takes
  <2> QED
    BY <1>5, <2>1, FreshHeaders
<1>6. ASSUME NEW b \in Buf, NEW bufs, bufs = With(WithWrites(W), b, Fresh(buf[b])),
             Takes(W, {b}), Return(p, k, b, Entered(bufs, b, k), FALSE)
      PROVE  IInv'
  <2>1. Got(Entered(bufs, b, k), b, W, FALSE)
    BY <1>5, <1>6, EnteredHeaders
  <2> QED
    BY <1>1, <1>2, <1>3, <1>5, <1>6, <2>1, ReturnKeeps
<1>7. ASSUME NEW b \in Buf, NEW bufs, bufs = With(WithWrites(W), b, Fresh(buf[b])),
             Takes(W, {b}), NEW n \in Buf \ {b}, Takes(W, {b, n}),
             Return(p, k, b, Entered(Steal(bufs, b, n), b, k), TRUE)
      PROVE  IInv'
  <2>1. n \in On("AGE") \cup On("LRU") /\ n \notin W
    BY <1>7 DEF Takes
  <2>2. /\ Steal(bufs, b, n) \in [Buf -> Header] /\ Own(Steal(bufs, b, n), b, W)
        /\ Others(Steal(bufs, b, n), b, W, TRUE)
    BY <1>5, <1>7, <2>1, StolenHeaders
  <2>3. Got(Entered(Steal(bufs, b, n), b, k), b, W, TRUE)
    BY <2>2, EnteredHeaders
  <2> QED
    BY <1>1, <1>2, <1>3, <1>5, <1>7, <2>3, ReturnKeeps
<1>8. ASSUME NEW b \in Buf, NEW bufs, bufs = With(WithWrites(W), b, Fresh(buf[b])),
             Takes(W, {b}), AllTaken(W, {b}), needbuffer' = TRUE, buf' = bufs,
             proc' = [proc EXCEPT ![p] = At("allocbuf", k, b, "needbuffer")]
      PROVE  IInv'
  <2>1. On("AGE") \cup On("LRU") \subseteq W \cup {b}
    BY <1>8 DEF AllTaken
  <2>2. buf' \in [Buf -> Header] /\ Own(buf', b, W) /\ Others(buf', b, W, FALSE)
    BY <1>5, <1>8
  <2>3. "allocbuf" = IF b = NONE THEN "getblk" ELSE "allocbuf"
    BY NoneIsNew
  <2> QED
    BY <1>1, <1>2, <1>3, <1>5, <1>8, <2>1, <2>2, <2>3, SleepKeeps
<1> QED
  BY <1>3, <1>4, <1>6, <1>7, <1>8

(* allocbuf() goes on after a sleep, with the buffer it has.               *)
LEMMA AllocbufKeeps ==
  ASSUME IInv, NEW p \in Proc, AllocbufGoesOn(p)
  PROVE  IInv'
<1> DEFINE b == proc[p].bp
           k == proc[p].want
<1>1. /\ proc[p].at = "allocbuf" /\ proc[p].wchan = NONE
      /\ b \in Buf /\ k \in Block /\ b \notin io /\ b \notin Delayed /\ Sound(b)
      /\ buf[b].list = NONE /\ "B_ASYNC" \notin buf[b].flags
  BY NoneIsNew
  DEF AllocbufGoesOn, IInv, Placed, Waiting, Growing, Using, Transferring, Holds, Idle, Delayed, On
<1>2. Mine(p, b)
  BY <1>1 DEF Mine, IInv, OneOwns, Owns
<1>3. GoodBusy(buf[b])
  BY <1>1, NoneIsNew DEF Sound, GoodFree, List
<1>4. ASSUME NEW W \in SUBSET Delayed
      PROVE  /\ WithWrites(W) \in [Buf -> Header] /\ Own(WithWrites(W), b, W)
             /\ Others(WithWrites(W), b, W, FALSE)
  <2>1. WithWrites(W)[b] = buf[b]
    BY <1>1, WrittenHeaders
  <2> QED
    BY <1>1, <1>3, <2>1, WrittenHeaders DEF Own
<1>5. PICK W \in SUBSET Delayed :
        /\ io' = io \cup W
        /\ \/ \E n \in Buf :
                /\ Takes(W, {n})
                /\ Return(p, k, b, Entered(Steal(WithWrites(W), b, n), b, k), TRUE)
                /\ late' = IF incore(k) = {} THEN late ELSE late \cup {k}
           \/ /\ AllTaken(W, {})
              /\ needbuffer' = TRUE
              /\ buf' = WithWrites(W)
              /\ proc' = [proc EXCEPT ![p].wchan = "needbuffer"]
              /\ UNCHANGED late
  BY DEF AllocbufGoesOn
<1>6. Unchanged
  BY DEF AllocbufGoesOn
<1> HIDE DEF b, k
<1>7. ASSUME NEW n \in Buf, Takes(W, {n}),
             Return(p, k, b, Entered(Steal(WithWrites(W), b, n), b, k), TRUE),
             late' = IF incore(k) = {} THEN late ELSE late \cup {k}
      PROVE  IInv'
  <2>1. n \in On("AGE") \cup On("LRU") /\ n \notin W /\ n # b
    BY <1>1, <1>7, NoneIsNew DEF Takes, On
  <2>2. Got(Entered(Steal(WithWrites(W), b, n), b, k), b, W, TRUE)
    <3> DEFINE bufs == Steal(WithWrites(W), b, n)
    <3>1. bufs \in [Buf -> Header] /\ Own(bufs, b, W) /\ Others(bufs, b, W, TRUE)
      BY <1>1, <1>4, <2>1, StolenHeaders
    <3> HIDE DEF bufs
    <3>2. Got(Entered(bufs, b, k), b, W, TRUE)
      BY <1>1, <3>1, EnteredHeaders
    <3> QED
      BY <3>2 DEF bufs
  <2>3. late' \subseteq Block
    BY <1>1, <1>7 DEF IInv, TypeOK
  <2> QED
    BY <1>1, <1>2, <1>5, <1>6, <1>7, <2>2, <2>3, ReturnKeeps
<1>8. CASE /\ AllTaken(W, {})
           /\ needbuffer' = TRUE
           /\ buf' = WithWrites(W)
           /\ proc' = [proc EXCEPT ![p].wchan = "needbuffer"]
           /\ UNCHANGED late
  <2>1. proc' = [proc EXCEPT ![p] = At("allocbuf", k, b, "needbuffer")]
    <3>1. [proc[p] EXCEPT !.wchan = "needbuffer"] = At("allocbuf", k, b, "needbuffer")
      BY <1>1 DEF At, IInv, TypeOK, Process, b, k
    <3> QED
      BY <1>8, <3>1
  <2>2. On("AGE") \cup On("LRU") \subseteq W \cup {b}
    BY <1>8 DEF AllTaken
  <2>3. "allocbuf" = IF b = NONE THEN "getblk" ELSE "allocbuf"
    BY <1>1, NoneIsNew
  <2>4. /\ buf' \in [Buf -> Header] /\ (b \in Buf => Own(buf', b, W))
        /\ Others(buf', b, W, FALSE)
    BY <1>4, <1>8
  <2>5. b \in Buf \cup {NONE} /\ k \in Block
    BY <1>1
  <2> QED
    BY <1>2, <1>5, <1>6, <1>8, <2>1, <2>2, <2>3, <2>4, <2>5, SleepKeeps
<1> QED
  BY <1>5, <1>7, <1>8

-----------------------------------------------------------------------------
(* A process and its buffer.                                               *)
LEMMA HasBuffer ==
  ASSUME IInv, NEW p \in Proc, proc[p].at \in {"got", "bread", "bwrite"}
  PROVE  /\ proc[p].bp \in Buf /\ proc[p].want \in Block
         /\ Owns(p, proc[p].bp) /\ Sound(proc[p].bp)
         /\ buf[proc[p].bp] \in Header /\ GoodBusy(buf[proc[p].bp])
         /\ buf[proc[p].bp].blk \in Block /\ "B_ASYNC" \notin buf[proc[p].bp].flags
         /\ proc[p].at = "got" => Using(proc[p])
         /\ proc[p].at # "got" => Transferring(proc[p])
         /\ \A q \in Proc \ {p} : ~Owns(q, proc[p].bp)
<1>1. \/ Using(proc[p])
      \/ Transferring(proc[p]) /\ proc[p].at # "got"
  BY DEF IInv, Placed, Waiting, Growing, Using, Transferring, Idle
<1>2. Holds(proc[p]) /\ buf[proc[p].bp].blk \in Block
  BY <1>1 DEF Using, Transferring
<1>3. proc[p].bp \in Buf /\ Sound(proc[p].bp) /\ buf[proc[p].bp] \in Header
  BY <1>2 DEF Holds, IInv, TypeOK
<1>4. GoodBusy(buf[proc[p].bp])
  BY <1>2, <1>3, NoneIsNew DEF Holds, Sound, GoodFree, List
<1> QED
  BY <1>1, <1>2, <1>3, <1>4 DEF Holds, Owns, IInv, OneOwns, Using

(* The process releases its buffer, changed or not.                        *)
LEMMA GivesUpKeeps ==
  ASSUME IInv, NEW p \in Proc, proc[p].at \in {"got", "bread", "bwrite"},
         proc[p].bp \notin io, NEW r \in Header, r.blk = buf[proc[p].bp].blk,
         Brelse(p, proc[p].bp, r), UNCHANGED <<io, disk, failed, late>>,
         latest' \in [Block -> Nat]
  PROVE  IInv'
<1> DEFINE b == proc[p].bp
<1>1. /\ b \in Buf /\ r.blk \in Block /\ \A q \in Proc \ {p} : ~Owns(q, b)
      /\ Released(r) \in Header
  BY HasBuffer, ReleasedIsFree
<1>2. /\ buf' = [buf EXCEPT ![b] = Released(r)] /\ needbuffer' = FALSE
      /\ proc' = Awake([proc EXCEPT ![p] = Idle], WokenBy(b))
  BY DEF Brelse
<1>3. /\ proc' \in [Proc -> Process] /\ proc'[p] = Idle
      /\ \A q \in Proc \ {p} : proc'[q] = IF q \in WokenBy(b) THEN Wakes(q) ELSE proc[q]
  <2>1. Idle \in Process
    BY DEF Idle, Process, Place
  <2>2. proc \in [Proc -> Process]
    BY DEF IInv, TypeOK
  <2>3. \A q \in Proc : Wakes(q) \in Process
    BY <2>2 DEF Wakes, Process
  <2>4. [Idle EXCEPT !.wchan = NONE] = Idle
    BY DEF Idle
  <2> HIDE DEF b
  <2>5. proc' = [q \in Proc |-> IF q \in WokenBy(b)
                                THEN [[proc EXCEPT ![p] = Idle][q] EXCEPT !.wchan = NONE]
                                ELSE [proc EXCEPT ![p] = Idle][q]]
    BY <1>2 DEF Awake
  <2>6. /\ [proc EXCEPT ![p] = Idle][p] = Idle
        /\ \A q \in Proc \ {p} : [proc EXCEPT ![p] = Idle][q] = proc[q]
    BY <2>2
  <2>7. \A q \in Proc \ {p} : [[proc EXCEPT ![p] = Idle][q] EXCEPT !.wchan = NONE] = Wakes(q)
    BY <2>6 DEF Wakes
  <2> QED
    BY <2>1, <2>2, <2>3, <2>4, <2>5, <2>6, <2>7
<1>4. TypeOK'
  BY <1>1, <1>2, <1>3 DEF IInv, TypeOK
<1>5. Placed(p)' /\ proc'[p].bp = NONE
  BY <1>3, NoneIsNew DEF Placed, Idle
<1> HIDE DEF b
<1>6. "B_DELWRI" \in r.flags => r.blk \in Block
  BY <1>1
<1>7. b \notin io' /\ \A x \in Buf \ {b} : x \in io' <=> x \in io
  BY DEF b
<1>8. /\ {p} \in SUBSET Proc
      /\ \A q \in {p} : Placed(q)' /\ proc'[q].bp = NONE /\ proc[q].bp \in {b, NONE}
      /\ \A q \in Proc \ {p} :
           ~Owns(q, b) /\ proc'[q] = IF q \in WokenBy(b) THEN Wakes(q) ELSE proc[q]
  BY <1>1, <1>3, <1>5 DEF b
<1>9. b \in Buf /\ buf' = [buf EXCEPT ![b] = Released(r)]
  BY <1>1, <1>2
<1> QED
  BY <1>4, <1>6, <1>7, <1>8, <1>9, BrelseKeeps

LEMMA GiveBackKeeps ==
  ASSUME IInv, NEW p \in Proc, GiveBack(p)
  PROVE  IInv'
<1>1. proc[p].at = "got" /\ Brelse(p, proc[p].bp, buf[proc[p].bp])
  BY DEF GiveBack
<1>2. UNCHANGED <<io, disk, failed, late>> /\ latest' \in [Block -> Nat]
  BY DEF GiveBack, Unchanged, IInv, TypeOK
<1>3. proc[p].bp \notin io /\ buf[proc[p].bp] \in Header
  BY <1>1, HasBuffer DEF Using
<1> QED
  BY <1>1, <1>2, <1>3, GivesUpKeeps

(* What the process wrote into its buffer.                                 *)
LEMMA ChangedHeader ==
  ASSUME IInv, NEW p \in Proc, Modifies(p)
  PROVE  /\ proc[p].at = "got" /\ Using(proc[p])
         /\ Changed(p) \in Header
         /\ Changed(p).blk = buf[proc[p].bp].blk /\ Changed(p).flags = buf[proc[p].bp].flags
         /\ latest' \in [Block -> Nat] /\ UNCHANGED <<disk, failed, late>>
<1>1. proc[p].at = "got" /\ UNCHANGED <<disk, failed, late>>
  BY DEF Modifies
<1>2. buf[proc[p].bp] \in Header /\ proc[p].want \in Block /\ Using(proc[p])
  BY <1>1, HasBuffer
<1>3. latest[proc[p].want] \in Nat
  BY <1>2 DEF IInv, TypeOK
<1>4. latest' \in [Block -> Nat]
  BY <1>2, <1>3 DEF Modifies, IInv, TypeOK
<1>5. /\ Changed(p) \in Header
      /\ Changed(p).blk = buf[proc[p].bp].blk /\ Changed(p).flags = buf[proc[p].bp].flags
  BY <1>2, <1>3 DEF Changed, Header
<1> QED
  BY <1>1, <1>2, <1>4, <1>5

LEMMA bdwriteKeeps ==
  ASSUME IInv, NEW p \in Proc, bdwrite(p)
  PROVE  IInv'
<1> DEFINE r == [Changed(p) EXCEPT !.flags = @ \cup {"B_DELWRI", "B_DONE"}]
<1>1. Modifies(p) /\ Brelse(p, proc[p].bp, r) /\ UNCHANGED io
  BY DEF bdwrite
<1>2. r \in Header /\ r.blk = buf[proc[p].bp].blk
  BY <1>1, ChangedHeader DEF Header, Flag
<1>3. proc[p].at = "got" /\ proc[p].bp \notin io
  BY <1>1, ChangedHeader DEF Using
<1>4. UNCHANGED <<io, disk, failed, late>> /\ latest' \in [Block -> Nat]
  BY <1>1, ChangedHeader
<1> HIDE DEF r
<1> QED
  BY <1>1, <1>2, <1>3, <1>4, GivesUpKeeps

LEMMA StartReadKeeps ==
  ASSUME IInv, NEW p \in Proc, StartRead(p)
  PROVE  IInv'
<1> DEFINE b == proc[p].bp
           r(async) == [buf[b] EXCEPT !.flags = @ \cup {"B_READ"} \cup async]
<1>1. /\ proc[p].at = "got" /\ ~Valid(b) /\ io' = io \cup {b}
      /\ UNCHANGED <<needbuffer, disk, latest, failed, late>>
  BY DEF StartRead, Unchanged
<1>2. /\ b \in Buf /\ Owns(p, b) /\ Using(proc[p]) /\ buf[b] \in Header
      /\ GoodBusy(buf[b]) /\ "B_ASYNC" \notin buf[b].flags
  BY <1>1, HasBuffer
<1>3. ASSUME NEW async \in SUBSET {"B_ASYNC"}
      PROVE  /\ r(async) \in Header /\ GoodBusy(r(async))
             /\ r(async).blk = buf[b].blk /\ "B_DONE" \notin r(async).flags
             /\ "B_WANTED" \in buf[b].flags => "B_WANTED" \in r(async).flags
             /\ "B_ASYNC" \in r(async).flags <=> async # {}
  BY <1>1, <1>2 DEF Header, Flag, GoodBusy, Valid
<1>4. PICK async \in SUBSET {"B_ASYNC"} :
        /\ buf' = [buf EXCEPT ![b] = r(async)]
        /\ \/ async = {} /\ proc' = [proc EXCEPT ![p].at = "bread", ![p].wchan = b]
           \/ async # {} /\ proc' = [proc EXCEPT ![p] = Idle]
  <2>1. CASE /\ buf' = [buf EXCEPT ![b].flags = @ \cup {"B_READ"}]
             /\ proc' = [proc EXCEPT ![p].at = "bread", ![p].wchan = b]
    <3>1. buf' = [buf EXCEPT ![b] = r({})]
      BY <2>1
    <3> HIDE DEF r
    <3> QED
      BY <2>1, <3>1
  <2>2. CASE /\ buf' = [buf EXCEPT ![b].flags = @ \cup {"B_READ", "B_ASYNC"}]
             /\ proc' = [proc EXCEPT ![p] = Idle]
    <3>1. buf[b].flags \cup {"B_READ", "B_ASYNC"} = buf[b].flags \cup {"B_READ"} \cup {"B_ASYNC"}
      OBVIOUS
    <3>2. buf' = [buf EXCEPT ![b] = r({"B_ASYNC"})]
      BY <2>2, <3>1
    <3> HIDE DEF r
    <3> QED
      BY <2>2, <3>2
  <2> QED
    BY <2>1, <2>2 DEF StartRead
<1> HIDE DEF b, r
<1>5. proc' \in [Proc -> Process]
  BY <1>2, <1>4 DEF IInv, TypeOK, Process, Place, Idle
<1>6. TypeOK'
  BY <1>1, <1>2, <1>3, <1>4, <1>5 DEF IInv, TypeOK
<1> QED
  BY <1>1, <1>2, <1>3, <1>4, <1>6, TransferKeeps

LEMMA bwriteKeeps ==
  ASSUME IInv, NEW p \in Proc, bwrite(p)
  PROVE  IInv'
<1> DEFINE b == proc[p].bp
           r(async) == Writing(Changed(p), async)
<1>1. /\ Modifies(p) /\ io' = io \cup {b} /\ UNCHANGED needbuffer
      /\ \E async \in SUBSET {"B_ASYNC"} :
           /\ buf' = [buf EXCEPT ![b] = r(async)]
           /\ \/ async = {} /\ proc' = [proc EXCEPT ![p].at = "bwrite", ![p].wchan = b]
              \/ async # {} /\ proc' = [proc EXCEPT ![p] = Idle]
  BY Zenon DEF bwrite
<1>2. /\ b \in Buf /\ Owns(p, b) /\ Using(proc[p]) /\ buf[b].blk \in Block
      /\ "B_ASYNC" \notin buf[b].flags
      /\ Changed(p) \in Header /\ Changed(p).blk = buf[b].blk /\ Changed(p).flags = buf[b].flags
      /\ latest' \in [Block -> Nat] /\ UNCHANGED <<disk, failed, late>>
  BY <1>1, HasBuffer, ChangedHeader
<1>3. ASSUME NEW async \in SUBSET {"B_ASYNC"}
      PROVE  /\ r(async) \in Header /\ GoodBusy(r(async))
             /\ r(async).blk = buf[b].blk /\ "B_DONE" \notin r(async).flags
             /\ "B_WANTED" \in buf[b].flags => "B_WANTED" \in r(async).flags
             /\ "B_ASYNC" \in r(async).flags <=> async # {}
  BY <1>2, WritingIsBusy
<1>4. PICK async \in SUBSET {"B_ASYNC"} :
        /\ buf' = [buf EXCEPT ![b] = r(async)]
        /\ \/ async = {} /\ proc' = [proc EXCEPT ![p].at = "bwrite", ![p].wchan = b]
           \/ async # {} /\ proc' = [proc EXCEPT ![p] = Idle]
  BY <1>1
<1> HIDE DEF b, r
<1>5. proc' \in [Proc -> Process]
  BY <1>2, <1>4 DEF IInv, TypeOK, Process, Place, Idle
<1>6. TypeOK'
  BY <1>1, <1>2, <1>3, <1>4, <1>5 DEF IInv, TypeOK
<1> QED
  BY <1>1, <1>2, <1>3, <1>4, <1>6, TransferKeeps

(* biowait() after a wakeup: the transfer is done, so the loop ends.       *)
LEMMA BiowaitKeeps ==
  ASSUME IInv, NEW p \in Proc, Biowait(p)
  PROVE  IInv'
<1> DEFINE b == proc[p].bp
<1>1. /\ proc[p].at \in {"bread", "bwrite"} /\ proc[p].wchan = NONE
      /\ UNCHANGED <<io, disk, latest, failed, late>>
  BY DEF Biowait, Unchanged
<1>2. /\ b \in Buf /\ Holds(proc[p]) /\ buf[b].blk \in Block /\ buf[b] \in Header
      /\ b \notin io /\ "B_DONE" \in buf[b].flags
  BY <1>1, HasBuffer, NoneIsNew DEF Transferring
<1>3. \/ /\ proc' = [proc EXCEPT ![p].at = "got"]
         /\ UNCHANGED <<buf, needbuffer>>
      \/ Brelse(p, b, buf[b])
  BY <1>2 DEF Biowait
<1>4. CASE Brelse(p, b, buf[b])
  BY <1>1, <1>2, <1>4, GivesUpKeeps DEF IInv, TypeOK
<1>5. CASE proc' = [proc EXCEPT ![p].at = "got"] /\ UNCHANGED <<buf, needbuffer>>
  <2>1. /\ proc' \in [Proc -> Process] /\ \A q \in Proc \ {p} : proc'[q] = proc[q]
        /\ proc'[p].at = "got" /\ proc'[p].bp = proc[p].bp
        /\ proc'[p].wchan = NONE /\ proc'[p].want = proc[p].want
    BY <1>1, <1>5 DEF IInv, TypeOK, Process, Place
  <2>2. TypeOK'
    BY <1>1, <1>5, <2>1 DEF IInv, TypeOK
  <2>3. \A x \in Buf : BufKept(x) /\ StaysWanted(x)
    BY <1>1, <1>5 DEF BufKept, StaysWanted
  <2>4. ASSUME NEW x \in Buf PROVE Sound(x)'
    <3>1. CASE x = b
      BY <1>1, <1>2, <1>5, <2>1, <3>1 DEF IInv, Sound, GoodFree, GoodBusy, Owns
    <3>2. CASE x # b
      BY <2>1, <2>2, <2>3, <3>2, OtherBuffer DEF IInv, Owns, ProcKept
    <3> QED
      BY <3>1, <3>2
  <2>5. ASSUME NEW q \in Proc PROVE Placed(q)'
    <3>1. CASE q = p
      <4>1. Using(proc[p])'
        BY <1>1, <1>2, <1>5, <2>1 DEF Using, Holds
      <4> QED
        BY <2>1, <3>1, <4>1, NoneIsNew DEF Placed
    <3>2. CASE q # p
      BY <1>5, <2>1, <2>2, <2>3, <3>2, OtherProcess DEF IInv, ProcKept, Placed
    <3> QED
      BY <3>1, <3>2
  <2>6. OneOwns'
    BY <2>1 DEF IInv, OneOwns, Owns
  <2> QED
    BY <2>2, <2>4, <2>5, <2>6 DEF IInv
<1> QED
  BY <1>3, <1>4, <1>5

-----------------------------------------------------------------------------
LEMMA vinvalbufKeeps ==
  ASSUME IInv, NEW p \in Proc, NEW k \in Block, vinvalbuf(p, k)
  PROVE  IInv'
<1> DEFINE ofFile == BuffersOf(k)
<1>1. /\ proc[p].bp = NONE /\ proc[p].wchan = NONE
      /\ UNCHANGED <<io, disk, failed, late>>
  BY Arrives DEF vinvalbuf
<1>2. CASE /\ ofFile = {} /\ proc' = [proc EXCEPT ![p] = Idle]
           /\ UNCHANGED <<buf, needbuffer, latest>>
  <2>1. /\ proc' \in [Proc -> Process] /\ \A q \in Proc \ {p} : proc'[q] = proc[q]
        /\ proc'[p] = Idle
    BY <1>2 DEF IInv, TypeOK, Process, Place, Idle
  <2>2. TypeOK'
    BY <1>1, <1>2, <2>1 DEF IInv, TypeOK
  <2>3. \A x \in Buf : BufKept(x) /\ StaysWanted(x)
    BY <1>1, <1>2 DEF BufKept, StaysWanted
  <2>4. ASSUME NEW x \in Buf PROVE Sound(x)'
    BY <1>1, <2>1, <2>2, <2>3, OtherBuffer, NoneIsNew DEF IInv, Owns, ProcKept
  <2>5. ASSUME NEW q \in Proc PROVE Placed(q)'
    <3>1. CASE q = p
      BY <2>1, <3>1, NoneIsNew DEF Placed, Idle
    <3>2. CASE q # p
      BY <1>2, <2>1, <2>2, <2>3, <3>2, OtherProcess DEF IInv, ProcKept, Placed
    <3> QED
      BY <3>1, <3>2
  <2>6. OneOwns'
    BY <2>1, NoneIsNew DEF IInv, OneOwns, Owns, Idle
  <2> QED
    BY <2>2, <2>4, <2>5, <2>6 DEF IInv
<1>3. ASSUME NEW b \in ofFile, IsBusy(b),
             buf' = [buf EXCEPT ![b].flags = @ \cup {"B_WANTED"}],
             proc' = [proc EXCEPT ![p] = At("vinvalbuf", k, NONE, b)],
             UNCHANGED <<needbuffer, latest>>
      PROVE  IInv'
  <2>1. b \in Buf /\ "B_BUSY" \in buf[b].flags
    BY <1>3 DEF BuffersOf, IsBusy
  <2> QED
    BY <1>1, <1>3, <2>1, WaitKeeps
<1>4. ASSUME NEW b \in ofFile, ~IsBusy(b),
             buf' = [buf EXCEPT ![b] = Released([buf[b] EXCEPT !.flags = @ \cup {"B_INVAL"}])],
             needbuffer' = FALSE,
             proc' = Awake([proc EXCEPT ![p] = IF ofFile = {b} THEN Idle
                                               ELSE At("vinvalbuf", k, NONE, NONE)],
                           WokenBy(b)),
             latest' = [latest EXCEPT ![k] = disk[k]]
      PROVE  IInv'
  <2> DEFINE r == [buf[b] EXCEPT !.flags = @ \cup {"B_INVAL"}]
             next == IF ofFile = {b} THEN Idle ELSE At("vinvalbuf", k, NONE, NONE)
             moved == [proc EXCEPT ![p] = next]
  <2>1. b \in Buf /\ Sound(b) /\ buf[b] \in Header /\ buf[b].list # NONE /\ buf[b].blk = k
    <3>1. b \in Buf /\ Sound(b) /\ buf[b] \in Header /\ buf[b].blk = k
      BY <1>4 DEF BuffersOf, IInv, TypeOK
    <3> QED
      BY <1>4, <3>1, NoneIsNew DEF IsBusy, Sound, GoodBusy, GoodFree, List
  <2>2. r \in Header /\ r.blk = k
    BY <2>1 DEF Header, Flag
  <2>3. Released(r) \in Header
    BY <2>2, ReleasedIsFree
  <2>4. /\ next \in Process /\ next.bp = NONE /\ next.wchan = NONE
        /\ [next EXCEPT !.wchan = NONE] = next
        /\ next = Idle \/ (next.at = "vinvalbuf" /\ next.want = k)
    BY DEF Process, Place, Idle, At
  <2> HIDE DEF r, next
  <2>5. /\ proc' \in [Proc -> Process] /\ proc'[p] = next
        /\ \A q \in Proc \ {p} : proc'[q] = IF q \in WokenBy(b) THEN Wakes(q) ELSE proc[q]
    <3>1. proc \in [Proc -> Process]
      BY DEF IInv, TypeOK
    <3>2. \A q \in Proc : Wakes(q) \in Process
      BY <3>1 DEF Wakes, Process
    <3>3. moved[p] = next /\ \A q \in Proc \ {p} : moved[q] = proc[q]
      BY <3>1
    <3>4. proc' = [q \in Proc |-> IF q \in WokenBy(b) THEN [moved[q] EXCEPT !.wchan = NONE]
                                  ELSE moved[q]]
      BY <1>4 DEF Awake, next
    <3> HIDE DEF moved
    <3>5. \A q \in Proc \ {p} : [moved[q] EXCEPT !.wchan = NONE] = Wakes(q)
      BY <3>3 DEF Wakes
    <3> QED
      BY <2>4, <3>1, <3>2, <3>3, <3>4, <3>5
  <2>6. buf' = [buf EXCEPT ![b] = Released(r)]
    BY <1>4 DEF r
  <2>7. TypeOK'
    <3>1. latest' \in [Block -> Nat]
      BY <1>4 DEF IInv, TypeOK
    <3> QED
      BY <1>1, <1>4, <2>3, <2>5, <2>6, <3>1 DEF IInv, TypeOK
  <2>8. Placed(p)' /\ proc'[p].bp = NONE
    BY <2>4, <2>5, NoneIsNew DEF Placed, Waiting, Idle
  <2>9. b \notin io' /\ \A x \in Buf \ {b} : x \in io' <=> x \in io
    BY <1>1, <2>1, FreeIsNobodys
  <2>10. /\ {p} \in SUBSET Proc
         /\ \A q \in {p} : Placed(q)' /\ proc'[q].bp = NONE /\ proc[q].bp \in {b, NONE}
         /\ \A q \in Proc \ {p} :
              ~Owns(q, b) /\ proc'[q] = IF q \in WokenBy(b) THEN Wakes(q) ELSE proc[q]
    BY <1>1, <2>1, <2>5, <2>8, FreeIsNobodys
  <2> QED
    BY <2>1, <2>2, <2>6, <2>7, <2>9, <2>10, BrelseKeeps
<1> QED
  BY <1>2, <1>3, <1>4 DEF vinvalbuf

-----------------------------------------------------------------------------
(* biodone(): the buffer goes to who waits for it, or is released.         *)
LEMMA TransferredHeader ==
  ASSUME IInv, NEW b \in io, NEW ok \in BOOLEAN
  PROVE  /\ b \in Buf /\ buf[b].blk \in Block /\ GoodBusy(buf[b])
         /\ Transferred(b, ok) \in Header
         /\ Transferred(b, ok).blk = buf[b].blk /\ Transferred(b, ok).list = buf[b].list
         /\ "B_DONE" \in Transferred(b, ok).flags
         /\ \A f \in {"B_BUSY", "B_ASYNC", "B_DELWRI"} :
              f \in Transferred(b, ok).flags <=> f \in buf[b].flags
<1> DEFINE r == [buf[b] EXCEPT !.flags = @ \cup {"B_DONE"} \cup (IF ok THEN {} ELSE {"B_ERROR"})]
<1>1. b \in Buf /\ buf[b].blk \in Block /\ GoodBusy(buf[b]) /\ buf[b] \in Header
  BY NoneIsNew DEF IInv, TypeOK, Sound, GoodFree, List
<1>2. /\ r \in Header /\ r.blk = buf[b].blk /\ r.list = buf[b].list
      /\ "B_DONE" \in r.flags
      /\ \A f \in {"B_BUSY", "B_ASYNC", "B_DELWRI"} : f \in r.flags <=> f \in buf[b].flags
  BY <1>1 DEF Header, Flag
<1>3. disk[r.blk] \in Nat
  BY <1>1, <1>2 DEF IInv, TypeOK
<1>4. Transferred(b, ok) = IF ok /\ "B_READ" \in r.flags THEN [r EXCEPT !.data = disk[r.blk]] ELSE r
  BY DEF Transferred
<1> HIDE DEF r
<1>5. /\ Transferred(b, ok) \in Header
      /\ Transferred(b, ok).blk = r.blk /\ Transferred(b, ok).list = r.list
      /\ Transferred(b, ok).flags = r.flags
  BY <1>2, <1>3, <1>4 DEF Header
<1> QED
  BY <1>1, <1>2, <1>5

LEMMA AwakeProcesses ==
  ASSUME IInv, NEW W, proc' = Awake(proc, W)
  PROVE  /\ proc' \in [Proc -> Process]
         /\ \A q \in Proc : proc'[q] = IF q \in W THEN Wakes(q) ELSE proc[q]
BY DEF Awake, Wakes, IInv, TypeOK, Process

LEMMA biodoneKeeps ==
  ASSUME IInv, NEW b \in Buf, NEW ok \in BOOLEAN, biodone(b, ok)
  PROVE  IInv'
<1> DEFINE r == Transferred(b, ok)
<1>1. b \in io /\ io' = io \ {b} /\ UNCHANGED <<latest, late>>
  BY DEF biodone
<1>2. /\ buf[b].blk \in Block /\ GoodBusy(buf[b]) /\ r \in Header
      /\ r.blk = buf[b].blk /\ r.list = NONE /\ "B_DONE" \in r.flags
      /\ \A f \in {"B_BUSY", "B_ASYNC", "B_DELWRI"} : f \in r.flags <=> f \in buf[b].flags
  BY <1>1, TransferredHeader DEF GoodBusy
<1>3. disk' \in [Block -> Nat] /\ failed' \subseteq Block
  BY <1>2 DEF biodone, IInv, TypeOK, Header
<1> HIDE DEF r
<1>4. CASE /\ "B_ASYNC" \in buf[b].flags
           /\ buf' = [buf EXCEPT ![b] = Released(r)]
           /\ needbuffer' = FALSE
           /\ proc' = Awake(proc, WokenBy(b))
  <2>1. Released(r) \in Header
    BY <1>2, ReleasedIsFree
  <2>2. /\ proc' \in [Proc -> Process]
        /\ \A q \in Proc : proc'[q] = IF q \in WokenBy(b) THEN Wakes(q) ELSE proc[q]
    BY <1>4, AwakeProcesses
  <2>3. TypeOK'
    BY <1>1, <1>3, <1>4, <2>1, <2>2 DEF IInv, TypeOK
  <2>4. \A q \in Proc : ~Owns(q, b)
    BY <1>4, Sleepers
  <2> DEFINE nobody == {}
  <2>5. /\ nobody \in SUBSET Proc
        /\ \A q \in nobody : Placed(q)' /\ proc'[q].bp = NONE /\ proc[q].bp \in {b, NONE}
        /\ \A q \in Proc \ nobody :
             ~Owns(q, b) /\ proc'[q] = IF q \in WokenBy(b) THEN Wakes(q) ELSE proc[q]
    BY <2>2, <2>4
  <2>6. b \notin io' /\ \A x \in Buf \ {b} : x \in io' <=> x \in io
    BY <1>1
  <2>7. "B_DELWRI" \in r.flags => r.blk \in Block
    BY <1>2
  <2> HIDE DEF nobody
  <2> QED
    BY <1>2, <1>4, <2>3, <2>5, <2>6, <2>7, BrelseKeeps
<1>5. CASE /\ "B_ASYNC" \notin buf[b].flags
           /\ buf' = [buf EXCEPT ![b] = [r EXCEPT !.flags = @ \ {"B_WANTED"}]]
           /\ proc' = Awake(proc, {p \in Proc : proc[p].wchan = b})
           /\ UNCHANGED needbuffer
  <2> DEFINE own == [r EXCEPT !.flags = @ \ {"B_WANTED"}]
  <2>1. /\ own \in Header /\ own.blk \in Block /\ GoodBusy(own)
        /\ "B_ASYNC" \notin own.flags /\ "B_DONE" \in own.flags
    BY <1>2, <1>5 DEF Header, GoodBusy
  <2>2. /\ proc' \in [Proc -> Process]
        /\ \A q \in Proc : proc'[q] = IF proc[q].wchan = b THEN Wakes(q) ELSE proc[q]
    BY <1>5, AwakeProcesses
  <2>3. buf' \in [Buf -> Header] /\ buf'[b] = own /\ \A x \in Buf \ {b} : buf'[x] = buf[x]
    BY <1>5, <2>1 DEF IInv, TypeOK
  <2>4. TypeOK'
    BY <1>1, <1>3, <1>5, <2>2, <2>3 DEF IInv, TypeOK
  <2>5. PICK p \in Proc : Transfers(p, b)
    BY <1>1, <1>5 DEF IInv, Sound
  <2>6. \A q \in Proc \ {p} : ~Owns(q, b)
    BY <2>5 DEF IInv, OneOwns, Transfers
  <2>7. Transferring(proc[p]) /\ proc[p].bp = b
    <3>1. proc[p].at \in {"bread", "bwrite"} /\ proc[p].bp = b
      BY <2>5 DEF Transfers, Owns
    <3> QED
      BY <3>1, HasBuffer
  <2>8. /\ proc'[p].at = proc[p].at /\ proc'[p].want = proc[p].want
        /\ proc'[p].bp = b /\ proc'[p].wchan = NONE
    BY <2>2, <2>5 DEF Wakes, Transfers, Owns, IInv, TypeOK, Process
  <2>9. Placed(p)'
    <3>1. Transferring(proc[p])'
      BY <1>1, <2>1, <2>3, <2>7, <2>8 DEF Transferring, Holds, GoodBusy
    <3> QED
      BY <2>8, <3>1, NoneIsNew DEF Placed
  <2> HIDE DEF own
  <2>10. \A x \in Buf \ {b} : BufKept(x)
    BY <1>1, <2>3 DEF BufKept
  <2>11. ASSUME NEW q \in Proc \ {p} PROVE ProcKept(q)
    BY <2>2, <2>6, Sleepers DEF ProcKept
  <2>12. ASSUME NEW q \in Proc \ {p} PROVE Placed(q)'
    <3>1. proc[q].bp \in Buf => BufKept(proc[q].bp)
      BY <2>6, <2>10, <2>12 DEF Owns
    <3>2. ASSUME proc'[q] = proc[q], proc[q].wchan \in Buf PROVE StaysWanted(proc[q].wchan)
      <4>1. proc[q].wchan # b
        BY <2>2, <2>12, <3>2, NoneIsNew DEF Wakes, IInv, TypeOK, Process
      <4> QED
        BY <2>10, <3>2, <4>1, KeptStaysWanted
    <3>3. proc[q].wchan = "needbuffer" =>
            needbuffer' /\ \A x \in Buf : buf'[x].list \notin {"AGE", "LRU"}
      BY <1>5, <2>1, <2>3, NoneIsNew DEF IInv, Placed, GoodBusy
    <3> QED
      BY <2>4, <2>11, <2>12, <3>1, <3>2, <3>3, OtherProcess DEF IInv
  <2>13. ASSUME NEW x \in Buf PROVE Sound(x)'
    <3>1. CASE x = b
      BY <1>1, <2>1, <2>3, <2>8, <3>1, Owned DEF Owns
    <3>2. CASE x # b
      <4>1. \A q \in Proc : Owns(q, x) => ProcKept(q)
        BY <2>7, <2>11, <3>2 DEF Owns
      <4> QED
        BY <2>4, <2>10, <3>2, <4>1, OtherBuffer DEF IInv
    <3> QED
      BY <3>1, <3>2
  <2>14. OneOwns'
    <3>1. \A q \in Proc : proc'[q].bp = proc[q].bp
      BY <2>2 DEF Wakes, IInv, TypeOK, Process
    <3> QED
      BY <3>1 DEF IInv, OneOwns, Owns
  <2> QED
    BY <2>4, <2>9, <2>12, <2>13, <2>14 DEF IInv
<1> QED
  BY <1>4, <1>5 DEF biodone, r

-----------------------------------------------------------------------------
(* The invariant is inductive: every step keeps it.                        *)
LEMMA NextIInv == IInv /\ [Next]_vars => IInv'
<1> SUFFICES ASSUME IInv, [Next]_vars PROVE IInv'
  OBVIOUS
<1>1. ASSUME NEW p \in Proc, Runs(p) PROVE IInv'
  BY <1>1, GetblkBusyKeeps, GetblkHitKeeps, GetblkMissKeeps, AllocbufKeeps, GiveBackKeeps,
     StartReadKeeps, bdwriteKeeps, bwriteKeeps, BiowaitKeeps, vinvalbufKeeps
  DEF Runs
<1>2. ASSUME NEW b \in Buf, NEW ok \in BOOLEAN, biodone(b, ok) PROVE IInv'
  BY <1>2, biodoneKeeps
<1>3. CASE UNCHANGED vars
  BY <1>3 DEF vars, IInv, TypeOK, Sound, GoodFree, GoodBusy, Owns, Transfers, Placed, Waiting,
     Growing, Using, Transferring, Holds, OneOwns
<1> QED
  BY <1>1, <1>2, <1>3 DEF Next

THEOREM BufCacheIInv == Spec => []IInv
BY InitIInv, NextIInv, PTL DEF Spec

(* Every state of the cache is of its type: page counts stay natural when  *)
(* pages are stolen and given away, and a transfer finds a block to go to. *)
THEOREM BufCacheTypeOK == Spec => []TypeOK
<1>1. IInv => TypeOK
  BY DEF IInv
<1> QED
  BY <1>1, BufCacheIInv, PTL

(* A buffer is on a free list or busy, and a busy one belongs to exactly   *)
(* one process or to the driver alone, so that brelse() by its owner, or   *)
(* by biodone(), takes it from nobody.                                     *)
THEOREM BufCacheOneOwner == Spec => []OneOwner
<1>1. IInv => OneOwner
  <2> SUFFICES ASSUME IInv, NEW b \in Buf
      PROVE  LET owners == {p \in Proc : proc[p].bp = b}
                 alone  == b \in io /\ "B_ASYNC" \in buf[b].flags
             IN /\ "B_BUSY" \in buf[b].flags <=> buf[b].list = NONE
                /\ buf[b].list = NONE <=> owners # {} \/ alone
                /\ Cardinality(owners) <= IF alone THEN 0 ELSE 1
                /\ buf[b].list # NONE => (buf[b].list = "EMPTY" <=> buf[b].pages = 0)
    BY DEF OneOwner
  <2> DEFINE owners == {p \in Proc : proc[p].bp = b}
             alone == b \in io /\ "B_ASYNC" \in buf[b].flags
  <2>1. Sound(b) /\ (GoodFree(buf[b]) => buf[b].list # NONE)
    BY NoneIsNew DEF IInv, GoodFree, List
  <2>2. \A q \in owners : buf[b].list = NONE /\ "B_ASYNC" \notin buf[b].flags
    BY Sleepers DEF Owns
  <2>3. "B_BUSY" \in buf[b].flags <=> buf[b].list = NONE
    BY <2>1 DEF Sound, GoodFree, GoodBusy
  <2>4. buf[b].list = NONE <=> owners # {} \/ alone
    BY <2>1, <2>2 DEF Sound, Owns
  <2>5. Cardinality(owners) <= IF alone THEN 0 ELSE 1
    <3>1. owners = {} => Cardinality(owners) = 0
      BY FS_EmptySet
    <3>2. ASSUME NEW q \in owners PROVE Cardinality(owners) = 1 /\ ~alone
      <4>1. owners = {q}
        BY <3>2 DEF IInv, OneOwns, Owns
      <4> QED
        BY <2>2, <4>1, FS_Singleton
    <3> QED
      BY <3>1, <3>2
  <2>6. buf[b].list # NONE => (buf[b].list = "EMPTY" <=> buf[b].pages = 0)
    BY FreeIsNobodys DEF GoodFree
  <2> QED
    BY <2>3, <2>4, <2>5, <2>6
<1> QED
  BY <1>1, BufCacheIInv, PTL

(* Whoever sleeps in getblk(), vinvalbuf(), biowait() or getnewbuf() has   *)
(* somebody to wake him: a wakeup() in brelse() or biodone() is never lost. *)
THEOREM BufCacheNoWaiterForgotten == Spec => []NoWaiterForgotten
<1>1. IInv => NoWaiterForgotten
  <2> SUFFICES ASSUME IInv, NEW p \in Proc
      PROVE  /\ proc[p].wchan = "needbuffer" => needbuffer /\ On("AGE") \cup On("LRU") = {}
             /\ proc[p].wchan \in Buf =>
                  LET b == proc[p].wchan
                  IN IF proc[p].at \in {"getblk", "vinvalbuf"}
                     THEN {"B_BUSY", "B_WANTED"} \subseteq buf[b].flags
                     ELSE b = proc[p].bp /\ b \in io /\ "B_DONE" \notin buf[b].flags
    BY DEF NoWaiterForgotten
  <2>1. proc[p].wchan = "needbuffer" => needbuffer /\ On("AGE") \cup On("LRU") = {}
    BY DEF IInv, Placed, On
  <2>2. ASSUME proc[p].wchan \in Buf, proc[p].at \in {"getblk", "vinvalbuf"}
        PROVE  {"B_BUSY", "B_WANTED"} \subseteq buf[proc[p].wchan].flags
    BY <2>2, NoneIsNew DEF IInv, Placed, Waiting, Growing, Using, Transferring, Idle
  <2>3. ASSUME proc[p].wchan \in Buf, proc[p].at \notin {"getblk", "vinvalbuf"}
        PROVE  /\ proc[p].wchan = proc[p].bp /\ proc[p].wchan \in io
               /\ "B_DONE" \notin buf[proc[p].wchan].flags
    BY <2>3, NoneIsNew
    DEF IInv, Placed, Waiting, Growing, Using, Transferring, Idle, Sound
  <2> QED
    BY <2>1, <2>2, <2>3
<1> QED
  BY <1>1, BufCacheIInv, PTL
-----------------------------------------------------------------------------
(* Pages.  A sum over the headers is the size of a set of pairs.           *)
Counts == [Buf -> Nat]
Memory(f) == Cardinality(PagesOf(f))

LEMMA PagesOfOne ==
  ASSUME NEW b, NEW n \in Nat
  PROVE  IsFiniteSet({b} \X (1..n)) /\ Cardinality({b} \X (1..n)) = n
<1>1. PICK A, B : A = {b} /\ B = 1..n
  OBVIOUS
<1>2. IsFiniteSet(A) /\ Cardinality(A) = 1 /\ IsFiniteSet(B) /\ Cardinality(B) = n
  <2>1. IsFiniteSet(1..n) /\ Cardinality(1..n) = n
    BY FS_Interval
  <2>2. IsFiniteSet({b}) /\ Cardinality({b}) = 1
    BY FS_Singleton
  <2> QED
    BY <1>1, <2>1, <2>2
<1>3. IsFiniteSet(A \X B) /\ Cardinality(A \X B) = Cardinality(A) * Cardinality(B)
  BY <1>2, FS_Product
<1> QED
  BY <1>1, <1>2, <1>3

(* The headers D have a finite number of pages together.                   *)
LEMMA PagesFinite ==
  ASSUME NEW f \in Counts, NEW D \in SUBSET Buf
  PROVE  IsFiniteSet(UNION {{x} \X (1..f[x]) : x \in D})
<1> DEFINE T == {{x} \X (1..f[x]) : x \in D}
<1>1. IsFiniteSet(D)
  BY HeadersAreFinite, FS_Subset
<1>2. IsFiniteSet(T)
  <2>1. [x \in D |-> {x} \X (1..f[x])] \in Surjection(D, T)
    BY DEF Surjection
  <2> QED
    BY <1>1, <2>1, FS_Surjection
<1>3. \A t \in T : IsFiniteSet(t)
  <2>1. ASSUME NEW x \in D PROVE IsFiniteSet({x} \X (1..f[x]))
    <3>1. f[x] \in Nat
      BY DEF Counts
    <3> QED
      BY <3>1, PagesOfOne
  <2> QED
    BY <2>1
<1> HIDE DEF T
<1>4. IsFiniteSet(UNION T)
  BY <1>2, <1>3, FS_UNION
<1> QED
  BY <1>4 DEF T

(* Two headers and all the others.                                         *)
LEMMA MemorySplits ==
  ASSUME NEW f \in Counts, NEW b \in Buf, NEW n \in Buf \ {b}
  PROVE  LET others == UNION {{x} \X (1..f[x]) : x \in Buf \ {b, n}}
         IN /\ Cardinality(others) \in Nat
            /\ Memory(f) = Cardinality(others) + f[b] + f[n]
<1>1. PICK R, B, N : /\ R = UNION {{x} \X (1..f[x]) : x \in Buf \ {b, n}}
                     /\ B = {b} \X (1..f[b]) /\ N = {n} \X (1..f[n])
  OBVIOUS
<1>2. f[b] \in Nat /\ f[n] \in Nat
  BY DEF Counts
<1>3. IsFiniteSet(R) /\ Cardinality(R) \in Nat
  BY <1>1, PagesFinite, FS_CardinalityType
<1>4. /\ IsFiniteSet(B) /\ Cardinality(B) = f[b]
      /\ IsFiniteSet(N) /\ Cardinality(N) = f[n]
  BY <1>1, <1>2, PagesOfOne
<1>5. R \cap B = {} /\ (R \cup B) \cap N = {}
  BY <1>1
<1>6. IsFiniteSet(R \cup B) /\ Cardinality(R \cup B) = Cardinality(R) + f[b]
  BY <1>2, <1>3, <1>4, <1>5, FS_Union, FS_EmptySet
<1>7. Cardinality((R \cup B) \cup N) = Cardinality(R) + f[b] + f[n]
  <2>1. PICK Q : Q = R \cup B
    OBVIOUS
  <2>2. Cardinality(Q \cup N) = Cardinality(Q) + Cardinality(N) - Cardinality(Q \cap N)
    BY <1>4, <1>6, <2>1, FS_Union
  <2>3. Cardinality(Q \cap N) = 0
    BY <1>5, <2>1, FS_EmptySet
  <2> QED
    BY <1>2, <1>3, <1>4, <1>6, <2>1, <2>2, <2>3
<1>8. PagesOf(f) = (R \cup B) \cup N
  BY <1>1 DEF PagesOf
<1> QED
  BY <1>1, <1>3, <1>7, <1>8 DEF Memory

LEMMA MovedPages ==
  ASSUME NEW f \in Counts, NEW g \in Counts, NEW b \in Buf, NEW n \in Buf \ {b},
         f[b] + f[n] = g[b] + g[n], \A x \in Buf \ {b, n} : f[x] = g[x]
  PROVE  Memory(f) = Memory(g)
<1>1. UNION {{x} \X (1..f[x]) : x \in Buf \ {b, n}} = UNION {{x} \X (1..g[x]) : x \in Buf \ {b, n}}
  OBVIOUS
<1>2. PICK c : c = Cardinality(UNION {{x} \X (1..f[x]) : x \in Buf \ {b, n}})
  OBVIOUS
<1>3. c \in Nat /\ Memory(f) = c + f[b] + f[n]
  BY <1>2, MemorySplits
<1>4. Memory(g) = c + g[b] + g[n]
  BY <1>1, <1>2, MemorySplits
<1>5. f[b] \in Nat /\ f[n] \in Nat /\ g[b] \in Nat /\ g[n] \in Nat
  BY DEF Counts
<1> QED
  BY <1>3, <1>4, <1>5

(* The pages of headers, before or after a step.                           *)
Counted(bufs) == [b \in Buf |-> bufs[b].pages]
MemoryKept(bufs, new) == Memory(Counted(bufs)) = Memory(Counted(new))

LEMMA SamePages ==
  ASSUME NEW bufs, NEW new, \A x \in Buf : bufs[x].pages = new[x].pages
  PROVE  MemoryKept(bufs, new)
<1>1. Counted(bufs) = Counted(new)
  BY DEF Counted
<1> QED
  BY <1>1 DEF MemoryKept

LEMMA ReleasedPages ==
  ASSUME NEW r \in Header
  PROVE  Released(r).pages = r.pages
BY DEF Released, Header

(* allocbuf() takes a page from the buffer n.                              *)
LEMMA StealKeepsPages ==
  ASSUME NEW bufs \in [Buf -> Header], NEW b \in Buf, NEW n \in Buf \ {b}, bufs[n].pages # 0
  PROVE  MemoryKept(bufs, Steal(bufs, b, n))
<1> DEFINE own == [bufs[b] EXCEPT !.pages = bufs[b].pages + 1]
           r == [Fresh(bufs[n]) EXCEPT !.pages = bufs[n].pages - 1]
           new == Steal(bufs, b, n)
<1>1. bufs[b].pages \in Nat /\ bufs[n].pages \in Nat /\ bufs[n].pages - 1 \in Nat
  BY DEF Header
<1>2. r \in Header /\ r.pages = bufs[n].pages - 1
  BY <1>1 DEF Fresh, Header, Flag
<1>3. own.pages = bufs[b].pages + 1
  BY DEF Header
<1>4. Released(r).pages = bufs[n].pages - 1
  BY <1>2, ReleasedPages
<1>5. new = [x \in Buf |-> IF x = n THEN Released(r) ELSE IF x = b THEN own ELSE bufs[x]]
  BY DEF Steal, Moved, With
<1>6. /\ new[b].pages = bufs[b].pages + 1 /\ new[n].pages = bufs[n].pages - 1
      /\ \A x \in Buf \ {b, n} : new[x] = bufs[x]
  BY <1>3, <1>4, <1>5
<1> HIDE DEF new
<1>7. Counted(bufs) \in Counts
  BY DEF Counted, Counts, Header
<1>8. Counted(new) \in Counts
  <2>1. ASSUME NEW x \in Buf PROVE new[x].pages \in Nat
    BY <1>1, <1>6 DEF Header
  <2> QED
    BY <2>1 DEF Counted, Counts
<1>9. /\ Counted(bufs)[b] + Counted(bufs)[n] = Counted(new)[b] + Counted(new)[n]
      /\ \A x \in Buf \ {b, n} : Counted(bufs)[x] = Counted(new)[x]
  BY <1>1, <1>6 DEF Counted
<1> QED
  BY <1>7, <1>8, <1>9, MovedPages DEF MemoryKept, new

(* allocbuf() gives what the block does not need to the empty header e.    *)
LEMMA ShrunkKeepsPages ==
  ASSUME NEW bufs \in [Buf -> Header], NEW k \in Block, NEW b \in Buf, NEW e \in Buf \ {b},
         bufs[e].pages = 0, bufs[b].pages > SizeOf[k]
  PROVE  MemoryKept(bufs, Shrunk(bufs, b, e, k))
<1> DEFINE own == [bufs[b] EXCEPT !.pages = SizeOf[k]]
           r == Piece(bufs, b, e, k)
           new == Shrunk(bufs, b, e, k)
<1>1. bufs[b].pages \in Nat /\ SizeOf[k] \in Nat /\ bufs[b].pages - SizeOf[k] \in Nat
  BY SizeOfType DEF Header
<1>2. r \in Header /\ r.pages = bufs[b].pages - SizeOf[k]
  BY <1>1 DEF Piece, Header, Flag
<1>3. own.pages = SizeOf[k]
  BY DEF Header
<1>4. Released(r).pages = bufs[b].pages - SizeOf[k]
  BY <1>2, ReleasedPages
<1>5. new = [x \in Buf |-> IF x = b THEN own ELSE IF x = e THEN Released(r) ELSE bufs[x]]
  BY DEF Shrunk, With
<1>6. /\ new[b].pages = SizeOf[k] /\ new[e].pages = bufs[b].pages - SizeOf[k]
      /\ \A x \in Buf \ {b, e} : new[x] = bufs[x]
  BY <1>3, <1>4, <1>5
<1> HIDE DEF new
<1>7. Counted(bufs) \in Counts
  BY DEF Counted, Counts, Header
<1>8. Counted(new) \in Counts
  <2>1. ASSUME NEW x \in Buf PROVE new[x].pages \in Nat
    BY <1>1, <1>6 DEF Header
  <2> QED
    BY <2>1 DEF Counted, Counts
<1>9. /\ Counted(bufs)[b] + Counted(bufs)[e] = Counted(new)[b] + Counted(new)[e]
      /\ \A x \in Buf \ {b, e} : Counted(bufs)[x] = Counted(new)[x]
  BY <1>1, <1>6 DEF Counted
<1> QED
  BY <1>7, <1>8, <1>9, MovedPages DEF MemoryKept, new

(* getblk() returns b: the header e that gets what is too much is empty.   *)
LEMMA ReturnKeepsPages ==
  ASSUME IInv, NEW p, NEW k \in Block, NEW b \in Buf, NEW W \in SUBSET Delayed,
         NEW bufs, NEW released, Got(bufs, b, W, released), Return(p, k, b, bufs, released)
  PROVE  MemoryKept(bufs, buf')
<1>1. CASE buf' = bufs
  BY <1>1 DEF MemoryKept
<1>2. CASE buf' # bufs
  <2>1. PICK e \in Buf : bufs[e].list = "EMPTY" /\ buf' = Shrunk(bufs, b, e, k)
    BY <1>2 DEF Return
  <2>2. bufs \in [Buf -> Header]
    BY DEF Got
  <2>3. bufs[b].pages > SizeOf[k]
    BY <1>2, <2>2, SizeOfType DEF Return, Header
  <2>4. e # b
    BY <2>1, NoneIsNew DEF Got, Own, GoodBusy
  <2>5. GoodFree(bufs[e])
    <3>1. CASE e \in W /\ bufs[e] = Writing(buf[e], {"B_ASYNC"})
      BY <2>1, <3>1, NoneIsNew DEF Writing, Delayed, On, IInv, TypeOK, Header
    <3>2. CASE bufs[e] = buf[e]
      BY <2>1, <3>2, FreeIsNobodys, NoneIsNew
    <3> QED
      BY <2>4, <3>1, <3>2 DEF Got, Others
  <2>6. bufs[e].pages = 0
    BY <2>1, <2>5 DEF GoodFree
  <2> QED
    BY <2>1, <2>2, <2>3, <2>4, <2>6, ShrunkKeepsPages
<1> QED
  BY <1>1, <1>2

(* bwrite(), brelse() and bgetvp() leave the pages of every header.        *)
LEMMA WritesKeepPages ==
  ASSUME IInv, NEW W \in SUBSET Delayed
  PROVE  \A x \in Buf : WithWrites(W)[x].pages = buf[x].pages
BY DEF WithWrites, Writing, IInv, TypeOK, Header

LEMMA FreshKeepsPages ==
  ASSUME IInv, NEW W \in SUBSET Delayed, NEW b \in Buf
  PROVE  \A x \in Buf : With(WithWrites(W), b, Fresh(buf[b]))[x].pages = buf[x].pages
<1>1. Fresh(buf[b]).pages = buf[b].pages
  BY DEF Fresh, IInv, TypeOK, Header
<1> QED
  BY <1>1, WritesKeepPages DEF With

LEMMA EnteredKeepsPages ==
  ASSUME NEW bufs \in [Buf -> Header], NEW b \in Buf, NEW k
  PROVE  MemoryKept(bufs, Entered(bufs, b, k))
<1>1. \A x \in Buf : Entered(bufs, b, k)[x].pages = bufs[x].pages
  <2>1. [bufs[b] EXCEPT !.blk = k].pages = bufs[b].pages
    BY DEF Header
  <2> QED
    BY <2>1 DEF Entered, With
<1> QED
  BY <1>1, SamePages

(* A page is stolen from a buffer n on AGE or LRU, for a buffer that is    *)
(* entered for block k and returned.                                       *)
LEMMA StolenKeepsPages ==
  ASSUME IInv, NEW p, NEW k \in Block, NEW b \in Buf, NEW W \in SUBSET Delayed,
         NEW bufs \in [Buf -> Header], Own(bufs, b, W), Others(bufs, b, W, FALSE),
         \A x \in Buf : bufs[x].pages = buf[x].pages,
         NEW n \in On("AGE") \cup On("LRU"), n \notin W, n # b,
         Return(p, k, b, Entered(Steal(bufs, b, n), b, k), TRUE)
  PROVE  MemoryKept(buf, buf')
<1>1. PICK stolen : stolen = Steal(bufs, b, n)
  OBVIOUS
<1>2. stolen \in [Buf -> Header] /\ Own(stolen, b, W) /\ Others(stolen, b, W, TRUE)
  BY <1>1, StolenHeaders
<1>3. MemoryKept(buf, bufs)
  BY SamePages
<1>4. MemoryKept(bufs, stolen)
  <2>1. n \in Buf /\ buf[n].list # NONE /\ buf[n].list # "EMPTY"
    BY NoneIsNew DEF On
  <2>2. bufs[n].pages # 0
    BY <2>1, FreeIsNobodys DEF GoodFree
  <2> QED
    BY <1>1, <2>1, <2>2, StealKeepsPages
<1>5. PICK entered : entered = Entered(stolen, b, k)
  OBVIOUS
<1>6. MemoryKept(stolen, entered) /\ Got(entered, b, W, TRUE)
  BY <1>2, <1>5, EnteredKeepsPages, EnteredHeaders
<1>7. MemoryKept(entered, buf')
  BY <1>1, <1>5, <1>6, ReturnKeepsPages
<1> QED
  BY <1>3, <1>4, <1>6, <1>7 DEF MemoryKept

LEMMA GetblkHitKeepsPages ==
  ASSUME IInv, NEW p \in Proc, NEW k \in Block, GetblkHit(p, k)
  PROVE  MemoryKept(buf, buf')
<1>1. PICK b \in incore(k) :
        /\ "B_BUSY" \notin buf[b].flags
        /\ Return(p, k, b, [buf EXCEPT ![b].flags = @ \cup {"B_BUSY"}, ![b].list = NONE], FALSE)
  BY DEF GetblkHit
<1>2. PICK bufs : bufs = [buf EXCEPT ![b].flags = @ \cup {"B_BUSY"}, ![b].list = NONE]
  OBVIOUS
<1>3. b \in Buf /\ buf[b] \in Header /\ buf[b].blk = k /\ GoodFree(buf[b]) /\ buf[b].list # NONE
  <2>1. b \in Buf /\ buf[b].blk = k /\ Sound(b)
    BY <1>1 DEF incore, IInv
  <2> QED
    BY <1>1, <2>1, NoneIsNew DEF IInv, TypeOK, Sound, GoodBusy, GoodFree, List
<1>4. PICK r : r = [buf[b] EXCEPT !.flags = @ \cup {"B_BUSY"}, !.list = NONE]
  OBVIOUS
<1>5. /\ r \in Header /\ r.list = NONE /\ "B_BUSY" \in r.flags /\ r.pages = buf[b].pages
      /\ r.blk = k /\ r.flags = buf[b].flags \cup {"B_BUSY"}
  BY <1>3, <1>4 DEF Header, Flag
<1>6. bufs \in [Buf -> Header] /\ bufs[b] = r /\ \A x \in Buf \ {b} : bufs[x] = buf[x]
  BY <1>2, <1>3, <1>4, <1>5 DEF IInv, TypeOK
<1>7. Got(bufs, b, {}, FALSE)
  <2>1. Own(bufs, b, {})
    BY <1>3, <1>5, <1>6, FreeIsNobodys DEF Own, GoodBusy, GoodFree
  <2> QED
    BY <1>5, <1>6, <2>1 DEF Got, Others
<1>8. MemoryKept(buf, bufs)
  BY <1>5, <1>6, SamePages
<1>9. MemoryKept(bufs, buf')
  BY <1>1, <1>2, <1>3, <1>7, ReturnKeepsPages
<1> QED
  BY <1>8, <1>9 DEF MemoryKept

LEMMA GetblkMissKeepsPages ==
  ASSUME IInv, NEW p \in Proc, NEW k \in Block, GetblkMiss(p, k)
  PROVE  MemoryKept(buf, buf')
<1>1. PICK W \in SUBSET Delayed :
        \/ buf' = WithWrites(W)
        \/ \E b \in Buf :
             LET bufs == With(WithWrites(W), b, Fresh(buf[b]))
             IN /\ Takes(W, {b})
                /\ \/ Return(p, k, b, Entered(bufs, b, k), FALSE)
                   \/ \E n \in Buf \ {b} :
                        /\ Takes(W, {b, n})
                        /\ Return(p, k, b, Entered(Steal(bufs, b, n), b, k), TRUE)
                   \/ buf' = bufs
  BY DEF GetblkMiss
<1>2. CASE buf' = WithWrites(W)
  BY <1>2, WritesKeepPages, SamePages
<1>3. ASSUME NEW b \in Buf, NEW bufs, bufs = With(WithWrites(W), b, Fresh(buf[b])), Takes(W, {b}),
             \/ Return(p, k, b, Entered(bufs, b, k), FALSE)
             \/ \E n \in Buf \ {b} :
                  /\ Takes(W, {b, n})
                  /\ Return(p, k, b, Entered(Steal(bufs, b, n), b, k), TRUE)
             \/ buf' = bufs
      PROVE  MemoryKept(buf, buf')
  <2>1. b \in On("AGE") \cup On("LRU") /\ b \notin W
    BY <1>3 DEF Takes
  <2>2. bufs \in [Buf -> Header] /\ Own(bufs, b, W) /\ Others(bufs, b, W, FALSE)
    BY <1>3, <2>1, FreshHeaders
  <2>3. \A x \in Buf : bufs[x].pages = buf[x].pages
    BY <1>3, FreshKeepsPages
  <2>4. MemoryKept(buf, bufs)
    BY <2>3, SamePages
  <2>5. ASSUME Return(p, k, b, Entered(bufs, b, k), FALSE) PROVE MemoryKept(buf, buf')
    <3>1. PICK entered : entered = Entered(bufs, b, k)
      OBVIOUS
    <3>2. MemoryKept(bufs, entered) /\ Got(entered, b, W, FALSE)
      BY <2>2, <3>1, EnteredKeepsPages, EnteredHeaders
    <3>3. MemoryKept(entered, buf')
      BY <2>5, <3>1, <3>2, ReturnKeepsPages
    <3> QED
      BY <2>4, <3>2, <3>3 DEF MemoryKept
  <2>6. ASSUME NEW n \in Buf \ {b}, Takes(W, {b, n}),
               Return(p, k, b, Entered(Steal(bufs, b, n), b, k), TRUE)
        PROVE  MemoryKept(buf, buf')
    <3>1. n \in On("AGE") \cup On("LRU") /\ n \notin W
      BY <2>6 DEF Takes
    <3> QED
      BY <2>2, <2>3, <2>6, <3>1, StolenKeepsPages
  <2> QED
    BY <1>3, <2>4, <2>5, <2>6
<1> QED
  BY <1>1, <1>2, <1>3

LEMMA AllocbufKeepsPages ==
  ASSUME IInv, NEW p \in Proc, AllocbufGoesOn(p)
  PROVE  MemoryKept(buf, buf')
<1>1. PICK b, k : b = proc[p].bp /\ k = proc[p].want
  OBVIOUS
<1>2. /\ b \in Buf /\ k \in Block /\ b \notin io /\ b \notin Delayed /\ Sound(b)
      /\ buf[b].list = NONE /\ "B_ASYNC" \notin buf[b].flags
  BY <1>1, NoneIsNew
  DEF AllocbufGoesOn, IInv, Placed, Waiting, Growing, Using, Transferring, Holds, Idle, Delayed, On
<1>3. PICK W \in SUBSET Delayed :
        \/ \E n \in Buf :
             /\ Takes(W, {n})
             /\ Return(p, k, b, Entered(Steal(WithWrites(W), b, n), b, k), TRUE)
        \/ buf' = WithWrites(W)
  BY <1>1 DEF AllocbufGoesOn
<1>4. PICK bufs : bufs = WithWrites(W)
  OBVIOUS
<1>5. bufs \in [Buf -> Header] /\ Own(bufs, b, W) /\ Others(bufs, b, W, FALSE)
  <2>1. bufs[b] = buf[b]
    BY <1>2, <1>4, WrittenHeaders
  <2>2. GoodBusy(buf[b])
    BY <1>2, NoneIsNew DEF Sound, GoodFree, List
  <2> QED
    BY <1>2, <1>4, <2>1, <2>2, WrittenHeaders DEF Own
<1>6. \A x \in Buf : bufs[x].pages = buf[x].pages
  BY <1>4, WritesKeepPages
<1>7. ASSUME NEW n \in Buf, Takes(W, {n}), Return(p, k, b, Entered(Steal(bufs, b, n), b, k), TRUE)
      PROVE  MemoryKept(buf, buf')
  <2>1. n \in On("AGE") \cup On("LRU") /\ n \notin W /\ n # b
    BY <1>2, <1>7, NoneIsNew DEF Takes, On
  <2> QED
    BY <1>2, <1>5, <1>6, <1>7, <2>1, StolenKeepsPages
<1> QED
  BY <1>3, <1>4, <1>6, <1>7, SamePages

(* The other steps change one header, and not its pages.                   *)
LEMMA OneHeaderKeepsPages ==
  ASSUME IInv, NEW b \in Buf, NEW r, buf' = [buf EXCEPT ![b] = r], r.pages = buf[b].pages
  PROVE  MemoryKept(buf, buf')
<1>1. PICK new : new = buf'
  OBVIOUS
<1>2. \A x \in Buf : buf[x].pages = new[x].pages
  BY <1>1 DEF IInv, TypeOK
<1>3. MemoryKept(buf, new)
  BY <1>2, SamePages
<1> QED
  BY <1>1, <1>3

LEMMA BufferOpsKeepPages ==
  ASSUME IInv, NEW p \in Proc, NEW k \in Block,
         \/ GetblkBusy(p, k) \/ GiveBack(p) \/ StartRead(p) \/ bdwrite(p) \/ bwrite(p)
         \/ Biowait(p) \/ vinvalbuf(p, k)
  PROVE  MemoryKept(buf, buf')
<1>0. UNCHANGED buf => MemoryKept(buf, buf')
  BY DEF MemoryKept
<1>1. ASSUME NEW b \in Buf, NEW F, buf' = [buf EXCEPT ![b].flags = F] PROVE MemoryKept(buf, buf')
  <2>1. PICK r : r = [buf[b] EXCEPT !.flags = F]
    OBVIOUS
  <2>2. r.pages = buf[b].pages /\ buf' = [buf EXCEPT ![b] = r]
    BY <1>1, <2>1 DEF IInv, TypeOK, Header
  <2> QED
    BY <2>2, OneHeaderKeepsPages
<1>2. ASSUME NEW b \in Buf, NEW r \in Header, r.pages = buf[b].pages,
             buf' = [buf EXCEPT ![b] = Released(r)]
      PROVE  MemoryKept(buf, buf')
  BY <1>2, ReleasedPages, OneHeaderKeepsPages
<1>3. CASE GetblkBusy(p, k)
  BY <1>1, <1>3 DEF GetblkBusy, incore
<1>4. CASE GiveBack(p)
  BY <1>2, <1>4, HasBuffer DEF GiveBack, Brelse
<1>5. CASE StartRead(p)
  BY <1>1, <1>5, HasBuffer DEF StartRead
<1>6. ASSUME Modifies(p)
      PROVE  /\ proc[p].bp \in Buf /\ Changed(p) \in Header
             /\ Changed(p).pages = buf[proc[p].bp].pages
  <2>1. proc[p].at = "got" /\ Changed(p) \in Header
    BY <1>6, ChangedHeader
  <2>2. proc[p].bp \in Buf /\ buf[proc[p].bp] \in Header
    BY <2>1, HasBuffer
  <2> QED
    BY <2>1, <2>2 DEF Changed, Header
<1>7. CASE bdwrite(p)
  <2>1. PICK r : r = [Changed(p) EXCEPT !.flags = @ \cup {"B_DELWRI", "B_DONE"}]
    OBVIOUS
  <2>2. r \in Header /\ r.pages = buf[proc[p].bp].pages /\ proc[p].bp \in Buf
    BY <1>6, <1>7, <2>1 DEF bdwrite, Header, Flag
  <2>3. buf' = [buf EXCEPT ![proc[p].bp] = Released(r)]
    BY <1>7, <2>1 DEF bdwrite, Brelse
  <2> QED
    BY <1>2, <2>2, <2>3
<1>8. CASE bwrite(p)
  <2>1. ASSUME NEW async PROVE Writing(Changed(p), async).pages = buf[proc[p].bp].pages
    BY <1>6, <1>8 DEF bwrite, Writing, Header
  <2> QED
    BY <1>6, <1>8, <2>1, OneHeaderKeepsPages DEF bwrite
<1>9. CASE Biowait(p)
  BY <1>0, <1>2, <1>9, HasBuffer DEF Biowait, Brelse
<1>10. CASE vinvalbuf(p, k)
  <2>1. ASSUME NEW b \in BuffersOf(k),
               buf' = [buf EXCEPT ![b] = Released([buf[b] EXCEPT !.flags = @ \cup {"B_INVAL"}])]
        PROVE  MemoryKept(buf, buf')
    <3>1. PICK r : r = [buf[b] EXCEPT !.flags = @ \cup {"B_INVAL"}]
      OBVIOUS
    <3>2. b \in Buf /\ r \in Header /\ r.pages = buf[b].pages
      BY <3>1 DEF BuffersOf, IInv, TypeOK, Header, Flag
    <3> QED
      BY <1>2, <2>1, <3>1, <3>2
  <2>2. ASSUME NEW b \in BuffersOf(k), buf' = [buf EXCEPT ![b].flags = @ \cup {"B_WANTED"}]
        PROVE  MemoryKept(buf, buf')
    BY <1>1, <2>2 DEF BuffersOf
  <2> QED
    BY <1>0, <1>10, <2>1, <2>2 DEF vinvalbuf
<1> QED
  BY <1>3, <1>4, <1>5, <1>7, <1>8, <1>9, <1>10

LEMMA biodoneKeepsPages ==
  ASSUME IInv, NEW b \in Buf, NEW ok \in BOOLEAN, biodone(b, ok)
  PROVE  MemoryKept(buf, buf')
<1>1. PICK r : r = Transferred(b, ok)
  OBVIOUS
<1>2. b \in io /\ r \in Header
  BY <1>1, TransferredHeader DEF biodone
<1>3. r.pages = buf[b].pages
  BY <1>1 DEF Transferred, IInv, TypeOK, Header
<1>4. Released(r).pages = r.pages /\ [r EXCEPT !.flags = @ \ {"B_WANTED"}].pages = r.pages
  BY <1>2, ReleasedPages DEF Header
<1> QED
  BY <1>1, <1>3, <1>4, OneHeaderKeepsPages DEF biodone

LEMMA NextKeepsPages == IInv /\ [Next]_vars => MemoryKept(buf, buf')
<1> SUFFICES ASSUME IInv, [Next]_vars PROVE MemoryKept(buf, buf')
  OBVIOUS
<1>1. ASSUME NEW p \in Proc, Runs(p) PROVE MemoryKept(buf, buf')
  <2>1. CASE AllocbufGoesOn(p)
    BY <2>1, AllocbufKeepsPages
  <2>2. ASSUME NEW k \in Block, GetblkHit(p, k) \/ GetblkMiss(p, k) PROVE MemoryKept(buf, buf')
    BY <2>2, GetblkHitKeepsPages, GetblkMissKeepsPages
  <2>3. ASSUME NEW k \in Block, GetblkBusy(p, k) \/ vinvalbuf(p, k) PROVE MemoryKept(buf, buf')
    BY <2>3, BufferOpsKeepPages
  <2>4. CASE GiveBack(p) \/ StartRead(p) \/ bdwrite(p) \/ bwrite(p) \/ Biowait(p)
    <3>1. proc[p].at \in {"got", "bread", "bwrite"}
      BY <2>4 DEF GiveBack, StartRead, bdwrite, bwrite, Modifies, Biowait
    <3>2. proc[p].want \in Block
      BY <3>1, HasBuffer
    <3> QED
      BY <2>4, <3>2, BufferOpsKeepPages
  <2> QED
    BY <1>1, <2>1, <2>2, <2>3, <2>4 DEF Runs
<1>2. ASSUME NEW b \in Buf, NEW ok \in BOOLEAN, biodone(b, ok) PROVE MemoryKept(buf, buf')
  BY <1>2, biodoneKeepsPages
<1>3. CASE UNCHANGED vars
  BY <1>3 DEF vars, MemoryKept
<1> QED
  BY <1>1, <1>2, <1>3 DEF Next

(* All headers together have the pages they had at first, however          *)
(* allocbuf() steals them for a buffer that must grow, and gives away what *)
(* one does not need, in between or after its sleep.                       *)
THEOREM BufCachePagesAreKept == Spec => []PagesAreKept
<1>1. Init => PagesAreKept
  <2>1. ASSUME Init PROVE [b \in Buf |-> buf[b].pages] = Pages
    BY <2>1, PagesType DEF Init
  <2> QED
    BY <2>1 DEF PagesAreKept
<1>2. IInv /\ PagesAreKept /\ [Next]_vars => PagesAreKept'
  BY NextKeepsPages DEF PagesAreKept, MemoryKept, Memory, Counted
<1> QED
  BY <1>1, <1>2, BufCacheIInv, PTL DEF Spec

-----------------------------------------------------------------------------
(* A block has one buffer unless a sleep in allocbuf() gave it a second,   *)
(* and what was written last is never lost, for any number of processes,   *)
(* buffers and blocks.                                                     *)

(* The buffer has what a transfer or a writer put there.                   *)
Good(b) == "B_DONE" \in buf[b].flags /\ "B_ERROR" \notin buf[b].flags

(* A buffer in the cache is valid and has memory; an error is seen by who  *)
(* waits for the transfer; the driver's buffers are not delayed.           *)
Clean(b) ==
  /\ buf[b].blk \in Block => "B_INVAL" \notin buf[b].flags /\ buf[b].pages # 0
  /\ "B_ERROR" \in buf[b].flags =>
       \E p \in Proc : Owns(p, b) /\ proc[p].at \in {"bread", "bwrite"}
  /\ b \in io => "B_DELWRI" \notin buf[b].flags

(* A process has the block it wanted, or in allocbuf() none yet.           *)
Blank(r) == r.blk = NONE /\ r.flags \cap {"B_DONE", "B_DELWRI", "B_ERROR", "B_INVAL"} = {}

Wanted(p) ==
  /\ proc[p].at = "allocbuf" => Blank(buf[proc[p].bp])
  /\ proc[p].at \in {"got", "bread", "bwrite"} => buf[proc[p].bp].blk = proc[p].want
  /\ proc[p].at \in {"bread", "bwrite"} => "B_DELWRI" \notin buf[proc[p].bp].flags

(* The one buffer of a block, and the version of the block last written.   *)
Alone(k) == \A a, b \in Buf : buf[a].blk = k /\ buf[b].blk = k => a = b

Kept(k) ==
  /\ \A b \in Buf : buf[b].blk = k /\ (Marked(b) \/ Good(b)) => buf[b].data = latest[k]
  /\ disk[k] = latest[k] \/ \E b \in Buf : buf[b].blk = k /\ Marked(b)

Coherent(k) == k \notin late => Alone(k) /\ (k \notin failed => Kept(k))

DInv ==
  /\ \A b \in Buf : Clean(b)
  /\ \A p \in Proc : Wanted(p)
  /\ \A k \in Block : Coherent(k)

LEMMA InitDInv == Init => DInv
<1> SUFFICES ASSUME Init PROVE DInv
  OBVIOUS
<1>1. \A b \in Buf : Clean(b)
  BY NoneIsNew DEF Init, Clean
<1>2. \A p \in Proc : Wanted(p)
  BY DEF Init, Wanted, Idle
<1>3. \A k \in Block : Coherent(k)
  BY NoneIsNew DEF Init, Coherent, Alone, Kept
<1> QED
  BY <1>1, <1>2, <1>3 DEF DInv

-----------------------------------------------------------------------------
(* What a step leaves alone, as far as contents go.                        *)
Content == {"B_DONE", "B_DELWRI", "B_READ", "B_ERROR", "B_INVAL"}
Same(b) ==
  /\ buf'[b].blk = buf[b].blk /\ buf'[b].data = buf[b].data
  /\ buf[b].pages # 0 => buf'[b].pages # 0
  /\ \A f \in Content : f \in buf'[b].flags <=> f \in buf[b].flags
  /\ b \in io' <=> b \in io

(* A process that stays with its buffer.                                   *)
Stays(p) ==
  proc'[p].at = proc[p].at /\ proc'[p].bp = proc[p].bp /\ proc'[p].want = proc[p].want

LEMMA KeptIsSame ==
  ASSUME IInv, NEW b \in Buf, BufKept(b)
  PROVE  Same(b)
BY DEF IInv, TypeOK, Header, BufKept, Marks, Same, Content

LEMMA KeptStays ==
  ASSUME IInv, NEW q \in Proc, ProcKept(q)
  PROVE  Stays(q)
BY DEF IInv, TypeOK, Process, ProcKept, Wakes, Stays

LEMMA CleanKept ==
  ASSUME NEW b \in Buf, Clean(b), Same(b), \A q \in Proc : Owns(q, b) => Stays(q)
  PROVE  Clean(b)'
<1>1. ASSUME NEW q \in Proc, Owns(q, b), proc[q].at \in {"bread", "bwrite"}
      PROVE  Owns(q, b)' /\ proc'[q].at \in {"bread", "bwrite"}
  BY <1>1 DEF Stays, Owns
<1>2. buf'[b].blk \in Block => "B_INVAL" \notin buf'[b].flags /\ buf'[b].pages # 0
  BY DEF Clean, Same, Content
<1>3. "B_ERROR" \in buf'[b].flags => \E p \in Proc : Owns(p, b)' /\ proc'[p].at \in {"bread", "bwrite"}
  BY <1>1 DEF Clean, Same, Content
<1>4. b \in io' => "B_DELWRI" \notin buf'[b].flags
  BY DEF Clean, Same, Content
<1> QED
  BY <1>2, <1>3, <1>4 DEF Clean

LEMMA WantedKept ==
  ASSUME IInv, NEW q \in Proc, Wanted(q), Stays(q), proc[q].bp \in Buf => Same(proc[q].bp)
  PROVE  Wanted(q)'
<1>1. proc[q].at \in {"allocbuf", "got", "bread", "bwrite"} => Same(proc[q].bp)
  BY DEF IInv, Placed, Idle, Waiting, Growing, Using, Transferring, Holds
<1>2. proc[q].at = "allocbuf" => Blank(buf[proc[q].bp])'
  BY <1>1 DEF Wanted, Blank, Same, Content, Stays
<1> QED
  BY <1>1, <1>2 DEF Wanted, Same, Content, Stays

-----------------------------------------------------------------------------
(* A buffer, seen from block k, in a step that does not concern k.         *)
Unmoved(b, k) ==
  \/ /\ buf'[b].blk = buf[b].blk /\ buf'[b].data = buf[b].data
     /\ Marked(b)' <=> Marked(b)
     /\ Good(b)' => Good(b) \/ Marked(b)
  \/ buf'[b].blk # k /\ (buf[b].blk = k => ~Marked(b))

LEMMA SameIsUnmoved ==
  ASSUME NEW b \in Buf, Same(b), NEW k
  PROVE  Unmoved(b, k)
BY DEF Same, Unmoved, Marked, Good, Content

LEMMA CoherentKept ==
  ASSUME NEW k \in Block, Coherent(k), late \subseteq late', failed \subseteq failed',
         latest'[k] = latest[k], disk'[k] = disk[k],
         \A b \in Buf : Unmoved(b, k)
  PROVE  Coherent(k)'
<1> SUFFICES ASSUME k \notin late' PROVE Alone(k)' /\ (k \notin failed' => Kept(k)')
  BY DEF Coherent
<1>1. Alone(k) /\ (k \notin failed' => Kept(k))
  BY DEF Coherent
<1>2. Alone(k)'
  BY <1>1 DEF Alone, Unmoved
<1>3. ASSUME Kept(k) PROVE Kept(k)'
  <2>1. ASSUME NEW b \in Buf, buf'[b].blk = k, Marked(b)' \/ Good(b)'
        PROVE  buf'[b].data = latest'[k]
    BY <1>3, <2>1 DEF Unmoved, Kept
  <2>2. ASSUME NEW b \in Buf, buf[b].blk = k, Marked(b) PROVE buf'[b].blk = k /\ Marked(b)'
    BY <2>2 DEF Unmoved
  <2> QED
    BY <1>3, <2>1, <2>2 DEF Kept
<1> QED
  BY <1>1, <1>2, <1>3

(* getblk() enters b for block k.                                          *)
LEMMA CoherentEntered ==
  ASSUME NEW k \in Block, Coherent(k), late \subseteq late', failed \subseteq failed',
         latest'[k] = latest[k], disk'[k] = disk[k],
         NEW b \in Buf, ~Marked(b)', ~Good(b)',
         \A x \in Buf \ {b} : Unmoved(x, k),
         k \in late' \/ \A x \in Buf : buf[x].blk # k
  PROVE  Coherent(k)'
<1> SUFFICES ASSUME k \notin late' PROVE Alone(k)' /\ (k \notin failed' => Kept(k)')
  BY DEF Coherent
<1>1. \A x \in Buf \ {b} : buf'[x].blk # k
  BY DEF Unmoved
<1>2. k \notin failed' => disk[k] = latest[k]
  BY DEF Coherent, Kept
<1> QED
  BY <1>1, <1>2 DEF Alone, Kept

(* bdwrite() and bwrite() change block k in b.                             *)
LEMMA CoherentChanged ==
  ASSUME NEW k \in Block, Coherent(k), UNCHANGED <<late, failed>>,
         NEW b \in Buf, buf[b].blk = k, buf'[b].blk = k,
         Marked(b)', buf'[b].data = latest'[k],
         \A x \in Buf \ {b} : buf'[x].blk = buf[x].blk
  PROVE  Coherent(k)'
<1> SUFFICES ASSUME k \notin late' PROVE Alone(k)' /\ (k \notin failed' => Kept(k)')
  BY DEF Coherent
<1>1. Alone(k)
  BY DEF Coherent
<1>2. \A x \in Buf \ {b} : buf'[x].blk # k
  BY <1>1 DEF Alone
<1> QED
  BY <1>2 DEF Alone, Kept

(* vinvalbuf() gives block k up, with its only buffer.                     *)
LEMMA CoherentDropped ==
  ASSUME NEW k \in Block, Coherent(k), UNCHANGED <<late, failed>>,
         NEW b \in Buf, buf[b].blk = k, buf'[b].blk # k, latest'[k] = disk'[k],
         \A x \in Buf \ {b} : buf'[x].blk = buf[x].blk
  PROVE  Coherent(k)'
<1> SUFFICES ASSUME k \notin late' PROVE Alone(k)' /\ (k \notin failed' => Kept(k)')
  BY DEF Coherent
<1>1. \A x \in Buf : buf'[x].blk # k
  BY DEF Coherent, Alone
<1> QED
  BY <1>1 DEF Alone, Kept

(* A transfer of b ends: it was block k's only buffer.                     *)
LEMMA CoherentDone ==
  ASSUME NEW k \in Block, Coherent(k), UNCHANGED <<late, latest>>, failed \subseteq failed',
         NEW b \in Buf, b \in io, buf[b].blk = k, "B_DELWRI" \notin buf[b].flags,
         buf'[b].blk = k =>
           /\ ~Marked(b)'
           /\ Good(b)' /\ k \notin failed' =>
                buf'[b].data = IF "B_READ" \in buf[b].flags THEN disk[k] ELSE buf[b].data,
         k \notin failed' =>
           disk'[k] = IF "B_READ" \in buf[b].flags THEN disk[k] ELSE buf[b].data,
         \A x \in Buf \ {b} : buf'[x].blk = buf[x].blk
  PROVE  Coherent(k)'
<1> SUFFICES ASSUME k \notin late' PROVE Alone(k)' /\ (k \notin failed' => Kept(k)')
  BY DEF Coherent
<1>1. Alone(k)
  BY DEF Coherent
<1>2. \A x \in Buf \ {b} : buf[x].blk # k /\ buf'[x].blk # k
  BY <1>1 DEF Alone
<1>3. Alone(k)'
  BY <1>2 DEF Alone
<1>4. ASSUME k \notin failed' PROVE Kept(k)'
  <2>1. Kept(k)
    BY <1>4 DEF Coherent
  <2>2. "B_READ" \in buf[b].flags => disk[k] = latest[k]
    BY <1>2, <2>1 DEF Kept, Marked
  <2>3. "B_READ" \notin buf[b].flags => buf[b].data = latest[k]
    BY <2>1 DEF Kept, Marked
  <2> QED
    BY <1>2, <1>4, <2>2, <2>3 DEF Kept
<1> QED
  BY <1>3, <1>4

-----------------------------------------------------------------------------
(* getnewbuf() and allocbuf(): the buffers W are on their way to the disk, *)
(* others, with nothing to write, lost their contents.                     *)
Emptied(bufs, b, W) ==
  \A x \in Buf \ {b} :
    \/ x \in W /\ bufs[x] = Writing(buf[x], {"B_ASYNC"})
    \/ x \notin W /\ bufs[x] = buf[x]
    \/ /\ x \notin W /\ buf[x].list # NONE /\ "B_DELWRI" \notin buf[x].flags
       /\ bufs[x].blk = NONE /\ bufs[x].flags \subseteq {"B_INVAL"}

LEMMA StartedData ==
  ASSUME IInv, DInv, NEW b \in Delayed, b \in io', buf'[b] = Writing(buf[b], {"B_ASYNC"})
  PROVE  Clean(b)' /\ \A k : Unmoved(b, k)
<1>1. /\ b \in Buf /\ "B_DELWRI" \in buf[b].flags /\ buf[b] \in Header /\ Clean(b)
  BY DEF Delayed, On, IInv, TypeOK, DInv
<1>2. /\ buf'[b].blk = buf[b].blk /\ buf'[b].data = buf[b].data /\ buf'[b].pages = buf[b].pages
      /\ \A f \in {"B_READ", "B_DONE", "B_ERROR", "B_DELWRI"} : f \notin buf'[b].flags
      /\ "B_INVAL" \in buf'[b].flags => "B_INVAL" \in buf[b].flags
  BY <1>1 DEF Writing, Header
<1>3. Clean(b)'
  BY <1>1, <1>2 DEF Clean
<1>4. Marked(b) /\ Marked(b)' /\ ~Good(b)'
  BY <1>1, <1>2 DEF Marked, Good
<1> QED
  BY <1>2, <1>3, <1>4 DEF Unmoved

LEMMA EmptiedData ==
  ASSUME IInv, NEW b \in Buf, b \notin io', buf[b].list # NONE, "B_DELWRI" \notin buf[b].flags,
         buf'[b].blk = NONE, buf'[b].flags \subseteq {"B_INVAL"}
  PROVE  Clean(b)' /\ \A k \in Block : Unmoved(b, k)
<1>1. b \notin io
  BY FreeIsNobodys
<1>2. Clean(b)'
  BY NoneIsNew DEF Clean
<1> QED
  BY <1>1, <1>2, NoneIsNew DEF Unmoved, Marked

(* Everything but p and its buffer b.                                      *)
LEMMA TakingData ==
  ASSUME IInv, DInv, NEW p \in Proc, NEW b \in Buf \cup {NONE}, Mine(p, b),
         NEW W \in SUBSET Delayed, io' = io \cup W, Emptied(buf', b, W),
         \A q \in Proc \ {p} : ProcKept(q)
  PROVE  /\ \A x \in Buf \ {b} : Clean(x)' /\ \A k \in Block : Unmoved(x, k)
         /\ \A q \in Proc \ {p} : Wanted(q)'
<1>1. ASSUME NEW x \in Buf \ {b}, x \notin W, buf'[x] = buf[x] PROVE Same(x)
  BY <1>1 DEF Same
<1>2. ASSUME NEW x \in Buf \ {b} PROVE Clean(x)' /\ \A k \in Block : Unmoved(x, k)
  <2>1. CASE x \in W
    BY <1>2, <2>1, StartedData DEF Emptied
  <2>2. CASE x \notin W /\ buf'[x] = buf[x]
    <3>1. \A q \in Proc : Owns(q, x) => Stays(q)
      BY <1>2, KeptStays, NoneIsNew DEF Mine, Owns
    <3> QED
      BY <1>1, <1>2, <2>2, <3>1, CleanKept, SameIsUnmoved DEF DInv
  <2>3. CASE /\ x \notin W /\ buf[x].list # NONE /\ "B_DELWRI" \notin buf[x].flags
             /\ buf'[x].blk = NONE /\ buf'[x].flags \subseteq {"B_INVAL"}
    BY <1>2, <2>3, FreeIsNobodys, EmptiedData
  <2> QED
    BY <1>2, <2>1, <2>2, <2>3 DEF Emptied
<1>3. ASSUME NEW q \in Proc \ {p} PROVE Wanted(q)'
  <2>1. ASSUME proc[q].bp \in Buf PROVE Same(proc[q].bp)
    <3>1. buf[proc[q].bp].list = NONE /\ proc[q].bp # b
      BY <1>3, <2>1, Sleepers DEF Mine, Owns
    <3>2. proc[q].bp \notin W
      BY <3>1, NoneIsNew DEF Delayed, On
    <3> QED
      BY <1>1, <2>1, <3>1, <3>2 DEF Emptied
  <2> QED
    BY <1>3, <2>1, KeptStays, WantedKept DEF DInv
<1> QED
  BY <1>2, <1>3

(* allocbuf() at the end of getblk() changes no contents.                  *)
LEMMA ReturnData ==
  ASSUME IInv, DInv, NEW p \in Proc, NEW k \in Block, NEW b \in Buf, Mine(p, b),
         NEW bufs, NEW W \in SUBSET Delayed,
         NEW released \in BOOLEAN, Got(bufs, b, W, released), Emptied(bufs, b, W),
         bufs[b].pages # 0, Return(p, k, b, bufs, released)
  PROVE  /\ Emptied(buf', b, W)
         /\ buf'[b].blk = bufs[b].blk /\ buf'[b].flags = bufs[b].flags
         /\ buf'[b].data = bufs[b].data /\ buf'[b].pages # 0
         /\ proc'[p] = [at |-> "got", want |-> k, bp |-> b, wchan |-> NONE]
         /\ \A q \in Proc \ {p} : ProcKept(q)
<1> DEFINE got == [proc EXCEPT ![p] = [at |-> "got", want |-> k, bp |-> b, wchan |-> NONE]]
           needy == {q \in Proc : proc[q].wchan = "needbuffer"}
           spare == {e \in Buf : bufs[e].list = "EMPTY"}
           small == bufs[b].pages <= SizeOf[k] \/ spare = {}
<1>1. proc' = Awake(got, needy) \/ proc' = got
  BY DEF Return
<1>2. IF small THEN buf' = bufs ELSE \E e \in spare : buf' = Shrunk(bufs, b, e, k)
  BY DEF Return
<1>3. p \notin needy
  BY NoneIsNew DEF Mine
<1>4. /\ proc \in [Proc -> Process] /\ got[p] = [at |-> "got", want |-> k, bp |-> b, wchan |-> NONE]
      /\ \A q \in Proc \ {p} : got[q] = proc[q]
  BY DEF IInv, TypeOK
<1> HIDE DEF got
<1>5. /\ proc'[p] = got[p]
      /\ \A q \in Proc \ {p} :
           proc'[q] = IF proc' = got \/ q \notin needy THEN proc[q] ELSE Wakes(q)
  BY <1>1, <1>3, <1>4 DEF Awake, Wakes
<1>6. \A q \in Proc \ {p} : ProcKept(q)
  BY <1>5, Sleepers DEF ProcKept
<1>7. CASE small
  BY <1>2, <1>4, <1>5, <1>6, <1>7
<1>8. CASE ~small
  <2>1. PICK e \in spare : buf' = Shrunk(bufs, b, e, k)
    BY <1>2, <1>8
  <2> DEFINE r == Piece(bufs, b, e, k)
             own == [bufs[b] EXCEPT !.pages = SizeOf[k]]
  <2>2. e \in Buf /\ e # b /\ e \notin W /\ bufs[e] \in Header /\ bufs[e].list = "EMPTY"
    <3>1. e \in Buf /\ bufs[e] \in Header /\ bufs[e].list = "EMPTY"
      BY DEF Got
    <3>2. e # b
      BY <3>1, NoneIsNew DEF Got, Own, GoodBusy
    <3>3. ASSUME e \in W PROVE bufs[e].list = NONE
      <4>1. bufs[e] = Writing(buf[e], {"B_ASYNC"}) /\ buf[e] \in Header
        BY <3>1, <3>2, <3>3 DEF Emptied, IInv, TypeOK
      <4> QED
        BY <4>1 DEF Writing, Header
    <3> QED
      BY <3>1, <3>2, <3>3, NoneIsNew
  <2>3. buf[e].list # NONE /\ "B_DELWRI" \notin buf[e].flags
    <3>1. CASE bufs[e] = buf[e]
      <4>1. buf[e].list = "EMPTY" /\ Clean(e)
        BY <2>2, <3>1 DEF DInv
      <4>2. GoodFree(buf[e])
        BY <2>2, <4>1, FreeIsNobodys, NoneIsNew
      <4> QED
        BY <4>1, <4>2, NoneIsNew DEF GoodFree, Clean
    <3> QED
      BY <2>2, <3>1 DEF Emptied
  <2>4. Released(r).blk = NONE /\ Released(r).flags = {"B_INVAL"}
    <3>1. bufs[b].pages - SizeOf[k] \in Nat
      BY <1>8, SizeOfType DEF Got, Header
    <3>2. {"B_BUSY", "B_INVAL"} \in SUBSET Flag
      BY DEF Flag
    <3>3. r \in Header /\ r.flags = {"B_BUSY", "B_INVAL"}
      BY <2>2, <3>1, <3>2 DEF Piece, Header
    <3> HIDE DEF r
    <3> QED
      BY <3>3 DEF Released, Invalid, Header
  <2>5. /\ own.blk = bufs[b].blk /\ own.flags = bufs[b].flags
        /\ own.data = bufs[b].data /\ own.pages # 0
    <3>1. bufs[b] \in Header
      BY DEF Got
    <3> QED
      BY <3>1, SizeOfType DEF Header
  <2>6. buf' = [x \in Buf |-> IF x = b THEN own ELSE IF x = e THEN Released(r) ELSE bufs[x]]
    BY <2>1, <2>2 DEF Shrunk, With
  <2>7. /\ buf'[b] = own /\ buf'[e] = Released(r)
        /\ \A x \in Buf \ {b, e} : buf'[x] = bufs[x]
    BY <2>2, <2>6
  <2> HIDE DEF r, own
  <2>8. Emptied(buf', b, W)
    BY <2>2, <2>3, <2>4, <2>7 DEF Emptied
  <2> QED
    BY <1>4, <1>5, <1>6, <2>5, <2>7, <2>8
<1> QED
  BY <1>7, <1>8

-----------------------------------------------------------------------------
(* getblk() and allocbuf().                                                *)
LEMMA GetblkBusyData ==
  ASSUME IInv, IInv', DInv, NEW p \in Proc, NEW k \in Block, GetblkBusy(p, k)
  PROVE  DInv'
<1>1. proc[p].bp = NONE
  BY Arrives DEF GetblkBusy, WantsBlock
<1>2. PICK b \in Buf : /\ buf' = [buf EXCEPT ![b].flags = @ \cup {"B_WANTED"}]
                       /\ proc' = [proc EXCEPT ![p] = At("getblk", k, NONE, b)]
  BY DEF GetblkBusy, incore
<1>3. UNCHANGED <<io, disk, latest, failed, late>>
  BY DEF GetblkBusy, Unchanged
<1>4. \A x \in Buf : Same(x)
  <2>1. buf' = [buf EXCEPT ![b] = Marks(b)]
    BY <1>2 DEF Marks
  <2>2. \A x \in Buf : buf'[x] \in {buf[x], Marks(x)}
    BY <2>1 DEF IInv, TypeOK
  <2> QED
    BY <1>3, <2>2, KeptIsSame DEF BufKept
<1>5. /\ \A q \in Proc \ {p} : Stays(q)
      /\ proc'[p].at = "getblk"
  BY <1>2 DEF Stays, IInv, TypeOK, At
<1>6. \A x \in Buf : Clean(x)'
  BY <1>1, <1>4, <1>5, CleanKept, NoneIsNew DEF DInv, Owns
<1>7. \A q \in Proc : Wanted(q)'
  BY <1>4, <1>5, WantedKept DEF DInv, Wanted
<1>8. \A j \in Block : Coherent(j)'
  BY <1>3, <1>4, SameIsUnmoved, CoherentKept DEF DInv
<1> QED
  BY <1>6, <1>7, <1>8 DEF DInv

LEMMA GetblkHitData ==
  ASSUME IInv, IInv', DInv, NEW p \in Proc, NEW k \in Block, GetblkHit(p, k)
  PROVE  DInv'
<1>1. PICK b \in incore(k) :
        /\ "B_BUSY" \notin buf[b].flags
        /\ Return(p, k, b, [buf EXCEPT ![b].flags = @ \cup {"B_BUSY"}, ![b].list = NONE], FALSE)
  BY DEF GetblkHit
<1> DEFINE r == [buf[b] EXCEPT !.flags = @ \cup {"B_BUSY"}, !.list = NONE]
           bufs == [buf EXCEPT ![b] = r]
           none == {}
           no == FALSE
<1>2. b \in Buf /\ buf[b] \in Header /\ buf[b].list # NONE /\ buf[b].blk = k /\ Clean(b)
  <2>1. b \in Buf /\ buf[b].blk = k /\ Sound(b) /\ Clean(b)
    BY <1>1 DEF incore, IInv, DInv
  <2> QED
    BY <1>1, <2>1, NoneIsNew DEF IInv, TypeOK, Sound, GoodBusy, GoodFree, List
<1>3. /\ r \in Header /\ r.list = NONE /\ "B_BUSY" \in r.flags /\ r.pages = buf[b].pages
      /\ r.blk = buf[b].blk /\ r.data = buf[b].data
      /\ \A f \in Content \cup {"B_ASYNC"} : f \in r.flags <=> f \in buf[b].flags
  BY <1>2 DEF Header, Flag, Content
<1>4. bufs \in [Buf -> Header] /\ bufs[b] = r /\ \A x \in Buf \ {b} : bufs[x] = buf[x]
  BY <1>2, <1>3 DEF IInv, TypeOK
<1>5. Got(bufs, b, none, no)
  <2>1. Own(bufs, b, none)
    BY <1>2, <1>3, <1>4, FreeIsNobodys DEF Own, GoodBusy, GoodFree, Content
  <2>2. Others(bufs, b, none, no)
    BY <1>4 DEF Others
  <2> QED
    BY <1>2, <1>3, <1>4, <2>1, <2>2 DEF Got
<1>6. Return(p, k, b, bufs, no)
  <2>1. [buf EXCEPT ![b].flags = @ \cup {"B_BUSY"}, ![b].list = NONE] = bufs
    BY <1>2 DEF IInv, TypeOK
  <2> QED
    BY <1>1, <2>1
<1>7. Mine(p, b)
  BY <1>2, Arrives DEF GetblkHit, WantsBlock
<1>8. /\ io' = io \cup none /\ none \in SUBSET Delayed
      /\ UNCHANGED <<io, disk, latest, failed, late>>
  BY DEF GetblkHit, Unchanged
<1>9. Emptied(bufs, b, none) /\ bufs[b].pages # 0 /\ no \in BOOLEAN
  BY <1>2, <1>3, <1>4 DEF Emptied, Clean
<1> HIDE DEF bufs, r, none, no
<1>10. /\ Emptied(buf', b, none)
       /\ buf'[b].blk = bufs[b].blk /\ buf'[b].flags = bufs[b].flags
       /\ buf'[b].data = bufs[b].data /\ buf'[b].pages # 0
       /\ proc'[p] = [at |-> "got", want |-> k, bp |-> b, wchan |-> NONE]
       /\ \A q \in Proc \ {p} : ProcKept(q)
  BY <1>2, <1>5, <1>6, <1>7, <1>8, <1>9, ReturnData
<1>11. /\ \A x \in Buf \ {b} : Clean(x)' /\ \A j \in Block : Unmoved(x, j)
       /\ \A q \in Proc \ {p} : Wanted(q)'
  BY <1>2, <1>7, <1>8, <1>10, TakingData
<1>12. Same(b)
  BY <1>3, <1>4, <1>8, <1>10 DEF Same
<1>13. Clean(b)'
  BY <1>2, <1>7, <1>10, <1>12, CleanKept, KeptStays, FreeIsNobodys
<1>14. Wanted(p)'
  BY <1>2, <1>3, <1>4, <1>10 DEF Wanted
<1>15. \A j \in Block : Coherent(j)'
  BY <1>8, <1>11, <1>12, SameIsUnmoved, CoherentKept, <1>2 DEF DInv
<1> QED
  BY <1>11, <1>13, <1>14, <1>15 DEF DInv

(* getblk() enters b, which has no contents, for block k.                  *)
Ready(bufs, b, W, released) ==
  /\ bufs \in [Buf -> Header] /\ Own(bufs, b, W) /\ Others(bufs, b, W, released)
  /\ Emptied(bufs, b, W) /\ Blank(bufs[b])

LEMMA EntersData ==
  ASSUME IInv, DInv, NEW p \in Proc, NEW k \in Block, NEW b \in Buf, Mine(p, b), ~Marked(b),
         NEW W \in SUBSET Delayed, io' = io \cup W, b \notin io',
         NEW bufs, NEW released \in BOOLEAN, Ready(bufs, b, W, released), bufs[b].pages # 0,
         Return(p, k, b, Entered(bufs, b, k), released),
         UNCHANGED <<disk, latest, failed>>, late \subseteq late',
         k \in late' \/ \A x \in Buf : buf[x].blk # k
  PROVE  DInv'
<1> DEFINE new == Entered(bufs, b, k)
<1> USE DEF Ready, Blank
<1>1. Got(new, b, W, released)
  BY EnteredHeaders
<1>2. /\ new[b].blk = k /\ new[b].flags = bufs[b].flags /\ new[b].pages = bufs[b].pages
      /\ \A x \in Buf \ {b} : new[x] = bufs[x]
  BY DEF Entered, With, Header
<1>3. Emptied(new, b, W)
  BY <1>2 DEF Emptied
<1> HIDE DEF new
<1>4. /\ Emptied(buf', b, W)
      /\ buf'[b].blk = k /\ buf'[b].flags = bufs[b].flags /\ buf'[b].pages # 0
      /\ proc'[p] = [at |-> "got", want |-> k, bp |-> b, wchan |-> NONE]
      /\ \A q \in Proc \ {p} : ProcKept(q)
  <2>1. Return(p, k, b, new, released)
    BY DEF new
  <2> QED
    BY <1>1, <1>2, <1>3, <2>1, ReturnData
<1>5. /\ \A x \in Buf \ {b} : Clean(x)' /\ \A j \in Block : Unmoved(x, j)
      /\ \A q \in Proc \ {p} : Wanted(q)'
  BY <1>4, TakingData
<1>6. Clean(b)' /\ ~Marked(b)' /\ ~Good(b)'
  BY <1>4 DEF Clean, Marked, Good
<1>7. Wanted(p)'
  BY <1>4 DEF Wanted
<1>8. ASSUME NEW j \in Block PROVE Coherent(j)'
  <2>1. CASE j = k
    BY <1>5, <1>6, <2>1, CoherentEntered DEF DInv
  <2>2. CASE j # k
    <3>1. Unmoved(b, j)
      BY <1>4, <2>2 DEF Unmoved
    <3> QED
      BY <1>5, <3>1, CoherentKept DEF DInv
  <2> QED
    BY <2>1, <2>2
<1> QED
  BY <1>5, <1>6, <1>7, <1>8 DEF DInv

(* getnewbuf() puts p to sleep, which has buffer b or none.                *)
LEMMA SleepData ==
  ASSUME IInv, DInv, NEW p \in Proc, NEW k \in Block, NEW b \in Buf \cup {NONE}, Mine(p, b),
         NEW W \in SUBSET Delayed, io' = io \cup W, Emptied(buf', b, W),
         b \in Buf => b \notin io' /\ ~Marked(b) /\ Blank(buf'[b]),
         NEW at, at = IF b = NONE THEN "getblk" ELSE "allocbuf",
         proc' = [proc EXCEPT ![p] = At(at, k, b, "needbuffer")],
         UNCHANGED <<disk, latest, failed, late>>
  PROVE  DInv'
<1>1. /\ proc'[p].at = at /\ proc'[p].bp = b
      /\ \A q \in Proc \ {p} : ProcKept(q)
  BY DEF At, IInv, TypeOK, ProcKept
<1>2. /\ \A x \in Buf \ {b} : Clean(x)' /\ \A j \in Block : Unmoved(x, j)
      /\ \A q \in Proc \ {p} : Wanted(q)'
  BY <1>1, TakingData
<1>3. b \in Buf => Clean(b)' /\ \A j \in Block : Unmoved(b, j)
  BY NoneIsNew DEF Blank, Clean, Unmoved
<1>4. Wanted(p)'
  <2>1. CASE b = NONE
    BY <1>1, <2>1 DEF Wanted
  <2>2. CASE b \in Buf
    BY <1>1, <2>2, NoneIsNew DEF Wanted, Blank
  <2> QED
    BY <2>1, <2>2
<1>5. \A j \in Block : Coherent(j)'
  BY <1>2, <1>3, CoherentKept DEF DInv
<1> QED
  BY <1>2, <1>3, <1>4, <1>5 DEF DInv

(* A free buffer that is not delayed has nothing to write.                 *)
LEMMA FreeIsUnmarked ==
  ASSUME IInv, NEW b \in On("AGE") \cup On("LRU"), b \notin Delayed
  PROVE  b \in Buf /\ ~Marked(b) /\ "B_DELWRI" \notin buf[b].flags /\ b \notin io
         /\ buf[b].list # NONE
<1>1. b \in Buf /\ buf[b].list # NONE /\ "B_DELWRI" \notin buf[b].flags
  BY NoneIsNew DEF On, Delayed
<1> QED
  BY <1>1, FreeIsNobodys DEF Marked

LEMMA StolenData ==
  ASSUME IInv, NEW W \in SUBSET Delayed, NEW b \in Buf,
         NEW bufs, Ready(bufs, b, W, FALSE),
         NEW n \in On("AGE") \cup On("LRU"), n \notin Delayed, n # b
  PROVE  Ready(Steal(bufs, b, n), b, W, TRUE) /\ Steal(bufs, b, n)[b].pages # 0
<1> DEFINE new == Steal(bufs, b, n)
           own == [bufs[b] EXCEPT !.pages = bufs[b].pages + 1]
           r == [Fresh(bufs[n]) EXCEPT !.pages = bufs[n].pages - 1]
<1> USE DEF Ready
<1>1. /\ n \in Buf /\ n \notin W /\ buf[n].list # NONE /\ "B_DELWRI" \notin buf[n].flags
      /\ bufs[n] = buf[n] /\ buf[n] \in Header
  BY FreeIsUnmarked DEF Others, IInv, TypeOK
<1>2. Released(r).blk = NONE /\ Released(r).flags \subseteq {"B_INVAL"}
  <2>1. bufs[n].pages - 1 \in Nat
    <3>1. buf[n].pages # 0
      BY <1>1, FreeIsNobodys DEF GoodFree, On
    <3> QED
      BY <1>1, <3>1 DEF Header
  <2>2. r \in Header /\ r.flags = {"B_BUSY"} /\ r.blk = NONE
    BY <1>1, <2>1 DEF Fresh, Header, Flag
  <2> HIDE DEF r
  <2> QED
    BY <2>2 DEF Released, Header
<1>3. own.flags = bufs[b].flags /\ own.blk = bufs[b].blk /\ own.pages # 0
  BY DEF Header
<1>4. new = [x \in Buf |-> IF x = n THEN Released(r) ELSE IF x = b THEN own ELSE bufs[x]]
  BY DEF Steal, Moved, With
<1>5. /\ new[b] = own /\ new[n] = Released(r)
      /\ \A x \in Buf \ {b, n} : new[x] = bufs[x]
  BY <1>1, <1>4
<1> HIDE DEF new, own, r
<1>6. Emptied(new, b, W)
  BY <1>1, <1>2, <1>5 DEF Emptied
<1>7. new \in [Buf -> Header] /\ Own(new, b, W) /\ Others(new, b, W, TRUE)
  BY <1>1, StolenHeaders DEF new
<1>8. Blank(new[b])
  BY <1>3, <1>5 DEF Blank
<1>9. Ready(new, b, W, TRUE) /\ new[b].pages # 0
  BY <1>3, <1>5, <1>6, <1>7, <1>8
<1> QED
  BY <1>9 DEF new

LEMMA GetblkMissData ==
  ASSUME IInv, IInv', DInv, NEW p \in Proc, NEW k \in Block, GetblkMiss(p, k)
  PROVE  DInv'
<1>1. /\ Mine(p, NONE)
      /\ \A b \in On("AGE") \cup On("LRU") : b \in Buf /\ Mine(p, b)
  BY Arrives, NoneIsNew DEF GetblkMiss, WantsBlock, On
<1>2. UNCHANGED <<disk, latest, failed, late>> /\ late \subseteq late'
  BY DEF GetblkMiss, Unchanged
<1>3. PICK W \in SUBSET Delayed :
       /\ io' = io \cup W
       /\ \/ /\ AllTaken(W, {})
             /\ needbuffer' = TRUE
             /\ buf' = WithWrites(W)
             /\ proc' = [proc EXCEPT ![p] = At("getblk", k, NONE, "needbuffer")]
          \/ \E b \in Buf :
               LET bufs == With(WithWrites(W), b, Fresh(buf[b]))
               IN /\ Takes(W, {b})
                  /\ \/ /\ bufs[b].pages >= SizeOf[k]
                        /\ Return(p, k, b, Entered(bufs, b, k), FALSE)
                     \/ /\ bufs[b].pages < SizeOf[k]
                        /\ \E n \in Buf \ {b} :
                             /\ Takes(W, {b, n})
                             /\ Return(p, k, b, Entered(Steal(bufs, b, n), b, k), TRUE)
                     \/ /\ bufs[b].pages < SizeOf[k] /\ AllTaken(W, {b})
                        /\ needbuffer' = TRUE
                        /\ buf' = bufs
                        /\ proc' = [proc EXCEPT ![p] = At("allocbuf", k, b, "needbuffer")]
  BY DEF GetblkMiss
<1>4. \A b : Emptied(WithWrites(W), b, W)
  BY DEF Emptied, WithWrites
<1>5. CASE /\ buf' = WithWrites(W)
           /\ proc' = [proc EXCEPT ![p] = At("getblk", k, NONE, "needbuffer")]
  BY <1>1, <1>2, <1>3, <1>4, <1>5, SleepData, NoneIsNew
<1>6. \A x \in Buf : buf[x].blk # k
  <2>1. \A x \in Buf : Clean(x)
    BY DEF DInv
  <2> QED
    BY <2>1 DEF GetblkMiss, incore, Clean
<1>7. ASSUME NEW b \in Buf, NEW bufs, bufs = With(WithWrites(W), b, Fresh(buf[b])),
             Takes(W, {b})
      PROVE  Mine(p, b) /\ Ready(bufs, b, W, FALSE) /\ ~Marked(b) /\ b \notin io'
  <2>1. b \in On("AGE") \cup On("LRU") /\ b \notin Delayed /\ b \notin W
    BY <1>7 DEF Takes
  <2>2. ~Marked(b) /\ b \notin io'
    BY <1>3, <2>1, FreeIsUnmarked
  <2>3. Blank(Fresh(buf[b]))
    BY <1>7 DEF Blank, Fresh, IInv, TypeOK, Header
  <2>4. bufs[b] = Fresh(buf[b]) /\ \A x \in Buf \ {b} : bufs[x] = WithWrites(W)[x]
    BY <1>7 DEF With
  <2>5. Emptied(bufs, b, W)
    BY <1>4, <2>4 DEF Emptied
  <2>6. bufs \in [Buf -> Header] /\ Own(bufs, b, W) /\ Others(bufs, b, W, FALSE)
    BY <1>7, <2>1, FreshHeaders
  <2> QED
    BY <1>1, <2>1, <2>2, <2>3, <2>4, <2>5, <2>6 DEF Ready
<1>8. ASSUME NEW b \in Buf, NEW bufs, Mine(p, b), ~Marked(b), b \notin io',
             Ready(bufs, b, W, FALSE), bufs[b].pages >= SizeOf[k],
             Return(p, k, b, Entered(bufs, b, k), FALSE)
      PROVE  DInv'
  <2>1. bufs[b].pages # 0
    BY <1>8, SizeOfType
  <2> QED
    BY <1>2, <1>3, <1>6, <1>8, <2>1, EntersData
<1>9. ASSUME NEW b \in Buf, NEW bufs, Mine(p, b), ~Marked(b), b \notin io',
             Ready(bufs, b, W, FALSE), NEW n \in Buf \ {b}, Takes(W, {b, n}),
             Return(p, k, b, Entered(Steal(bufs, b, n), b, k), TRUE)
      PROVE  DInv'
  <2>1. n \in On("AGE") \cup On("LRU") /\ n \notin Delayed
    BY <1>9 DEF Takes
  <2>2. Ready(Steal(bufs, b, n), b, W, TRUE) /\ Steal(bufs, b, n)[b].pages # 0
    BY <1>9, <2>1, StolenData
  <2> QED
    BY <1>2, <1>3, <1>6, <1>9, <2>2, EntersData
<1>10. ASSUME NEW b \in Buf, NEW bufs, Mine(p, b), ~Marked(b), b \notin io',
              Ready(bufs, b, W, FALSE), buf' = bufs,
              proc' = [proc EXCEPT ![p] = At("allocbuf", k, b, "needbuffer")]
       PROVE  DInv'
  <2>1. Emptied(buf', b, W) /\ Blank(buf'[b]) /\ b \in Buf \cup {NONE}
    BY <1>10 DEF Ready
  <2>2. "allocbuf" = IF b = NONE THEN "getblk" ELSE "allocbuf"
    BY NoneIsNew
  <2> QED
    BY <1>2, <1>3, <1>10, <2>1, <2>2, SleepData
<1>11. ASSUME NEW b \in Buf, NEW bufs, bufs = With(WithWrites(W), b, Fresh(buf[b])),
              Takes(W, {b}),
              \/ /\ bufs[b].pages >= SizeOf[k]
                 /\ Return(p, k, b, Entered(bufs, b, k), FALSE)
              \/ \E n \in Buf \ {b} :
                   /\ Takes(W, {b, n})
                   /\ Return(p, k, b, Entered(Steal(bufs, b, n), b, k), TRUE)
              \/ /\ buf' = bufs
                 /\ proc' = [proc EXCEPT ![p] = At("allocbuf", k, b, "needbuffer")]
       PROVE  DInv'
  <2>1. Mine(p, b) /\ Ready(bufs, b, W, FALSE) /\ ~Marked(b) /\ b \notin io'
    BY <1>7, <1>11
  <2> QED
    BY <1>8, <1>9, <1>10, <1>11, <2>1
<1> QED
  BY <1>3, <1>5, <1>11

LEMMA AllocbufData ==
  ASSUME IInv, IInv', DInv, NEW p \in Proc, AllocbufGoesOn(p)
  PROVE  DInv'
<1> DEFINE b == proc[p].bp
           k == proc[p].want
<1>1. /\ proc[p].at = "allocbuf" /\ proc[p].wchan = NONE
      /\ b \in Buf /\ k \in Block /\ b \notin io /\ b \notin Delayed /\ Sound(b)
      /\ buf[b].list = NONE /\ "B_ASYNC" \notin buf[b].flags
  BY NoneIsNew
  DEF AllocbufGoesOn, IInv, Placed, Waiting, Growing, Using, Transferring, Holds, Idle, Delayed, On
<1>2. Mine(p, b) /\ Blank(buf[b])
  BY <1>1 DEF Mine, IInv, OneOwns, Owns, DInv, Wanted
<1>3. GoodBusy(buf[b])
  BY <1>1, NoneIsNew DEF Sound, GoodFree, List
<1>4. ASSUME NEW W \in SUBSET Delayed
      PROVE  Ready(WithWrites(W), b, W, FALSE)
  <2>1. WithWrites(W)[b] = buf[b]
    BY <1>1, WrittenHeaders
  <2>2. Emptied(WithWrites(W), b, W)
    BY DEF Emptied, WithWrites
  <2> QED
    BY <1>1, <1>2, <1>3, <2>1, <2>2, WrittenHeaders DEF Own, Ready
<1>5. PICK W \in SUBSET Delayed :
        /\ io' = io \cup W
        /\ \/ \E n \in Buf :
                /\ Takes(W, {n})
                /\ Return(p, k, b, Entered(Steal(WithWrites(W), b, n), b, k), TRUE)
                /\ late' = IF incore(k) = {} THEN late ELSE late \cup {k}
           \/ /\ AllTaken(W, {})
              /\ needbuffer' = TRUE
              /\ buf' = WithWrites(W)
              /\ proc' = [proc EXCEPT ![p].wchan = "needbuffer"]
              /\ UNCHANGED late
  BY DEF AllocbufGoesOn
<1>6. UNCHANGED <<disk, latest, failed>>
  BY DEF AllocbufGoesOn, Unchanged
<1>7. b \notin io' /\ ~Marked(b)
  BY <1>1, <1>2, <1>5 DEF Marked, Blank
<1> HIDE DEF b, k
<1>8. ASSUME NEW n \in Buf, Takes(W, {n}),
             Return(p, k, b, Entered(Steal(WithWrites(W), b, n), b, k), TRUE),
             late' = IF incore(k) = {} THEN late ELSE late \cup {k}
      PROVE  DInv'
  <2>1. n \in On("AGE") \cup On("LRU") /\ n \notin Delayed /\ n # b
    BY <1>1, <1>8, NoneIsNew DEF Takes, On
  <2> DEFINE new == Steal(WithWrites(W), b, n)
             yes == TRUE
  <2>2. Ready(new, b, W, yes) /\ new[b].pages # 0 /\ yes \in BOOLEAN
    <3> DEFINE bufs == WithWrites(W)
    <3>1. Ready(bufs, b, W, FALSE)
      BY <1>4
    <3> HIDE DEF bufs
    <3>2. Ready(Steal(bufs, b, n), b, W, TRUE) /\ Steal(bufs, b, n)[b].pages # 0
      BY <1>1, <2>1, <3>1, StolenData
    <3> QED
      BY <3>2 DEF bufs
  <2>3. Return(p, k, b, Entered(new, b, k), yes)
    BY <1>8
  <2>4. late \subseteq late' /\ (k \in late' \/ \A x \in Buf : buf[x].blk # k)
    <3>1. incore(k) = {} => \A x \in Buf : buf[x].blk # k
      BY <1>1 DEF incore, DInv, Clean
    <3> QED
      BY <1>8, <3>1
  <2> HIDE DEF new, yes
  <2> QED
    BY <1>1, <1>2, <1>5, <1>6, <1>7, <2>2, <2>3, <2>4, EntersData
<1>9. CASE /\ buf' = WithWrites(W)
           /\ proc' = [proc EXCEPT ![p].wchan = "needbuffer"]
           /\ UNCHANGED late
  <2>1. proc' = [proc EXCEPT ![p] = At("allocbuf", k, b, "needbuffer")]
    <3>1. [proc[p] EXCEPT !.wchan = "needbuffer"] = At("allocbuf", k, b, "needbuffer")
      BY <1>1 DEF At, IInv, TypeOK, Process, b, k
    <3> QED
      BY <1>9, <3>1
  <2>2. "allocbuf" = IF b = NONE THEN "getblk" ELSE "allocbuf"
    BY <1>1, NoneIsNew
  <2>3. Emptied(buf', b, W) /\ Blank(buf'[b])
    BY <1>4, <1>9 DEF Ready
  <2>4. b \in Buf \cup {NONE} /\ k \in Block
    BY <1>1
  <2> QED
    BY <1>2, <1>5, <1>6, <1>7, <1>9, <2>1, <2>2, <2>3, <2>4, SleepData
<1> QED
  BY <1>5, <1>8, <1>9

-----------------------------------------------------------------------------
(* brelse(): an invalid buffer loses its contents, another keeps them.     *)
LEMMA ReleasedData ==
  ASSUME NEW r \in Header
  PROVE  IF Invalid(r) THEN Released(r).blk = NONE /\ Released(r).flags = {"B_INVAL"}
         ELSE /\ Released(r).blk = r.blk /\ Released(r).data = r.data
              /\ Released(r).pages = r.pages
              /\ \A f \in Content : f \in Released(r).flags <=> f \in r.flags
<1>1. CASE Invalid(r)
  BY <1>1 DEF Released, Header
<1>2. CASE ~Invalid(r)
  BY <1>2 DEF Released, Header, Content
<1> QED
  BY <1>1, <1>2

(* What the process that releases its buffer b leaves alone.               *)
LEMMA GivesUpData ==
  ASSUME IInv, DInv, NEW p \in Proc, proc[p].at \in {"got", "bread", "bwrite"},
         NEW b, b = proc[p].bp, NEW r, Brelse(p, b, r), UNCHANGED io
  PROVE  /\ buf'[b] = Released(r)
         /\ \A x \in Buf \ {b} : Same(x) /\ Clean(x)'
         /\ \A q \in Proc : Wanted(q)'
<1>1. b \in Buf /\ \A q \in Proc \ {p} : ~Owns(q, b)
  BY HasBuffer
<1>2. buf'[b] = Released(r) /\ \A x \in Buf \ {b} : buf'[x] = buf[x]
  BY <1>1 DEF Brelse, IInv, TypeOK
<1>3. \A x \in Buf \ {b} : Same(x)
  BY <1>2 DEF Same
<1>4. proc' = Awake([proc EXCEPT ![p] = Idle], WokenBy(b))
  BY DEF Brelse
<1>5. proc'[p].at = "user" /\ \A q \in Proc \ {p} : Stays(q)
  <2> DEFINE idle == [proc EXCEPT ![p] = Idle]
  <2>1. idle[p] = Idle /\ \A q \in Proc \ {p} : idle[q] = proc[q]
    BY DEF IInv, TypeOK
  <2> HIDE DEF idle
  <2>2. \A q \in Proc :
          proc'[q] = IF q \in WokenBy(b) THEN [idle[q] EXCEPT !.wchan = NONE] ELSE idle[q]
    BY <1>4 DEF Awake, idle
  <2>3. \A q \in Proc \ {p} : proc'[q] = proc[q] \/ proc'[q] = [proc[q] EXCEPT !.wchan = NONE]
    BY <2>1, <2>2
  <2>4. proc'[p].at = "user"
    BY <2>1, <2>2 DEF Idle
  <2>5. proc \in [Proc -> Process]
    BY DEF IInv, TypeOK
  <2> QED
    BY <2>3, <2>4, <2>5 DEF Stays, Process
<1>6. \A x \in Buf \ {b} : Clean(x)'
  BY <1>3, <1>5, CleanKept DEF DInv, Owns
<1>7. ASSUME NEW q \in Proc PROVE Wanted(q)'
  <2>1. CASE q = p
    BY <1>5, <2>1 DEF Wanted
  <2>2. CASE q # p
    BY <1>1, <1>3, <1>5, <2>2, WantedKept DEF DInv, Owns
  <2> QED
    BY <2>1, <2>2
<1> QED
  BY <1>2, <1>3, <1>6, <1>7

(* A buffer whose owner uses it is valid.                                  *)
LEMMA UsedIsClean ==
  ASSUME IInv, DInv, NEW p \in Proc, proc[p].at = "got"
  PROVE  "B_ERROR" \notin buf[proc[p].bp].flags /\ ~Invalid(buf[proc[p].bp])
         /\ buf[proc[p].bp].blk = proc[p].want /\ proc[p].bp \in Buf /\ proc[p].bp \notin io
         /\ "B_INVAL" \notin buf[proc[p].bp].flags /\ buf[proc[p].bp].pages # 0
         /\ proc[p].want \in Block /\ buf[proc[p].bp] \in Header
<1>1. /\ proc[p].bp \in Buf /\ proc[p].bp \notin io /\ buf[proc[p].bp].blk \in Block
      /\ \A q \in Proc \ {p} : ~Owns(q, proc[p].bp)
      /\ proc[p].want \in Block /\ buf[proc[p].bp] \in Header
  BY HasBuffer DEF Using
<1>2. Clean(proc[p].bp) /\ buf[proc[p].bp].blk = proc[p].want
  BY <1>1 DEF DInv, Wanted
<1> QED
  BY <1>1, <1>2 DEF Clean, Invalid

LEMMA GiveBackData ==
  ASSUME IInv, IInv', DInv, NEW p \in Proc, GiveBack(p)
  PROVE  DInv'
<1>0. PICK b : b = proc[p].bp
  OBVIOUS
<1>1. /\ proc[p].at = "got" /\ Brelse(p, b, buf[b])
      /\ UNCHANGED <<io, disk, latest, failed, late>>
  BY <1>0 DEF GiveBack, Unchanged
<1>2. b \in Buf /\ buf[b] \in Header /\ ~Invalid(buf[b]) /\ "B_ERROR" \notin buf[b].flags /\ Clean(b)
  BY <1>0, <1>1, UsedIsClean DEF DInv
<1>3. /\ buf'[b] = Released(buf[b])
      /\ \A x \in Buf \ {b} : Same(x) /\ Clean(x)'
      /\ \A q \in Proc : Wanted(q)'
  BY <1>0, <1>1, GivesUpData
<1>4. Same(b)
  BY <1>1, <1>2, <1>3, ReleasedData DEF Same
<1>5. Clean(b)'
  BY <1>2, <1>4 DEF Clean, Same, Content
<1>6. \A j \in Block : Coherent(j)'
  BY <1>1, <1>3, <1>4, SameIsUnmoved, CoherentKept DEF DInv
<1> QED
  BY <1>3, <1>5, <1>6 DEF DInv

(* A process that wrote block k into its buffer b.                         *)
LEMMA ModifiesData ==
  ASSUME IInv, DInv, NEW p \in Proc, Modifies(p), NEW b, b = proc[p].bp
  PROVE  /\ b \in Buf /\ b \notin io /\ buf[b].blk \in Block /\ ~Invalid(Changed(p))
         /\ buf[b].blk = proc[p].want /\ Changed(p).pages = buf[b].pages
         /\ Changed(p).data = latest'[buf[b].blk]
         /\ \A j \in Block \ {buf[b].blk} : latest'[j] = latest[j]
<1>1. proc[p].at = "got"
  BY DEF Modifies
<1>2. /\ b \in Buf /\ b \notin io /\ buf[b].blk \in Block /\ ~Invalid(buf[b])
      /\ buf[b].blk = proc[p].want /\ buf[b] \in Header
  BY <1>1, UsedIsClean
<1>3. /\ Changed(p).data = latest[proc[p].want] + 1 /\ Changed(p).pages = buf[b].pages
      /\ Changed(p).flags = buf[b].flags
  BY <1>2 DEF Changed, Header
<1>4. latest' = [latest EXCEPT ![proc[p].want] = latest[proc[p].want] + 1]
  BY DEF Modifies
<1>5. /\ latest'[buf[b].blk] = latest[proc[p].want] + 1
      /\ \A j \in Block \ {buf[b].blk} : latest'[j] = latest[j]
  BY <1>2, <1>4 DEF IInv, TypeOK
<1> QED
  BY <1>2, <1>3, <1>5 DEF Invalid

LEMMA bdwriteData ==
  ASSUME IInv, IInv', DInv, NEW p \in Proc, bdwrite(p)
  PROVE  DInv'
<1> DEFINE r == [Changed(p) EXCEPT !.flags = @ \cup {"B_DELWRI", "B_DONE"}]
<1>0. PICK b : b = proc[p].bp
  OBVIOUS
<1>1. Modifies(p) /\ Brelse(p, b, r) /\ UNCHANGED io
  BY <1>0 DEF bdwrite
<1>2. /\ Changed(p) \in Header /\ Changed(p).blk = buf[b].blk /\ Changed(p).flags = buf[b].flags
      /\ proc[p].at = "got" /\ UNCHANGED <<disk, failed, late>>
  BY <1>0, <1>1, ChangedHeader
<1>3. /\ b \in Buf /\ b \notin io /\ buf[b].blk \in Block /\ ~Invalid(Changed(p))
      /\ Changed(p).data = latest'[buf[b].blk]
      /\ \A j \in Block \ {buf[b].blk} : latest'[j] = latest[j]
  BY <1>0, <1>1, ModifiesData
<1>4. /\ r \in Header /\ r.blk = buf[b].blk /\ r.data = Changed(p).data
      /\ r.pages = Changed(p).pages /\ "B_DELWRI" \in r.flags
      /\ \A f \in {"B_INVAL", "B_ERROR"} : f \in r.flags <=> f \in Changed(p).flags
  BY <1>2 DEF Header, Flag
<1> HIDE DEF r
<1>5. ~Invalid(r)
  BY <1>3, <1>4 DEF Invalid
<1>6. /\ buf'[b] = Released(r)
      /\ \A x \in Buf \ {b} : Same(x) /\ Clean(x)'
      /\ \A q \in Proc : Wanted(q)'
  BY <1>0, <1>1, <1>2, GivesUpData
<1>7. /\ buf'[b].blk = buf[b].blk /\ buf'[b].data = latest'[buf[b].blk]
      /\ buf'[b].pages = r.pages
      /\ \A f \in Content : f \in buf'[b].flags <=> f \in r.flags
  BY <1>3, <1>4, <1>5, <1>6, ReleasedData
<1>8. Clean(b)' /\ Marked(b)'
  BY <1>1, <1>3, <1>4, <1>5, <1>7 DEF Clean, Marked, Content, Invalid
<1>9. ASSUME NEW j \in Block PROVE Coherent(j)'
  <2>1. CASE j = buf[b].blk
    BY <1>2, <1>3, <1>6, <1>7, <1>8, <2>1, CoherentChanged DEF DInv, Same
  <2>2. CASE j # buf[b].blk
    <3>1. Unmoved(b, j)
      BY <1>7, <2>2 DEF Unmoved
    <3> QED
      BY <1>2, <1>3, <1>6, <2>2, <3>1, SameIsUnmoved, CoherentKept DEF DInv
  <2> QED
    BY <2>1, <2>2
<1> QED
  BY <1>6, <1>8, <1>9 DEF DInv

(* The owner p of b hands it to the driver: everybody else is left alone.  *)
HandsOver(p, b, r) ==
  /\ buf' = [buf EXCEPT ![b] = r] /\ io' = io \cup {b}
  /\ r.blk = buf[b].blk /\ r.pages = buf[b].pages
  /\ "B_INVAL" \in r.flags => "B_INVAL" \in buf[b].flags
  /\ "B_ERROR" \notin r.flags /\ "B_DELWRI" \notin r.flags
  /\ \A q \in Proc \ {p} : proc'[q] = proc[q]
  /\ \/ /\ proc'[p].at \in {"bread", "bwrite"}
        /\ proc'[p].bp = b /\ proc'[p].want = proc[p].want
     \/ proc'[p].at = "user"

LEMMA TransferData ==
  ASSUME IInv, DInv, NEW p \in Proc, proc[p].at = "got", NEW b, b = proc[p].bp,
         NEW r \in Header, HandsOver(p, b, r)
  PROVE  /\ buf'[b] = r /\ \A x \in Buf : Clean(x)'
         /\ \A x \in Buf \ {b} : Same(x)
         /\ \A q \in Proc : Wanted(q)'
<1> USE DEF HandsOver
<1>1. /\ b \in Buf /\ buf[b].blk = proc[p].want /\ Clean(b)
      /\ \A q \in Proc \ {p} : ~Owns(q, b)
  BY UsedIsClean, HasBuffer DEF DInv
<1>2. buf'[b] = r /\ \A x \in Buf \ {b} : buf'[x] = buf[x]
  BY <1>1 DEF IInv, TypeOK
<1>3. \A x \in Buf \ {b} : Same(x)
  BY <1>2 DEF Same
<1>4. \A q \in Proc \ {p} : Stays(q)
  BY DEF Stays
<1>6. ASSUME NEW x \in Buf PROVE Clean(x)'
  <2>1. CASE x = b
    BY <1>1, <1>2, <2>1 DEF Clean
  <2>2. CASE x # b
    BY <1>3, <1>4, <2>2, CleanKept DEF DInv, Owns
  <2> QED
    BY <2>1, <2>2
<1>7. ASSUME NEW q \in Proc PROVE Wanted(q)'
  <2>1. CASE q = p
    BY <1>1, <1>2, <2>1 DEF Wanted
  <2>2. CASE q # p
    BY <1>1, <1>3, <1>4, <2>2, WantedKept DEF DInv, Owns
  <2> QED
    BY <2>1, <2>2
<1> QED
  BY <1>2, <1>3, <1>6, <1>7

LEMMA bwriteData ==
  ASSUME IInv, IInv', DInv, NEW p \in Proc, bwrite(p)
  PROVE  DInv'
<1>0. PICK b : b = proc[p].bp
  OBVIOUS
<1>1. /\ Modifies(p) /\ io' = io \cup {b}
      /\ \E async \in SUBSET {"B_ASYNC"} :
           /\ buf' = [buf EXCEPT ![b] = Writing(Changed(p), async)]
           /\ \/ proc' = [proc EXCEPT ![p].at = "bwrite", ![p].wchan = b]
              \/ proc' = [proc EXCEPT ![p] = Idle]
  <2> DEFINE c == proc[p].bp
             w(async) == Writing(Changed(p), async)
  <2>1. /\ Modifies(p) /\ io' = io \cup {c} /\ UNCHANGED needbuffer
        /\ \E async \in SUBSET {"B_ASYNC"} :
             /\ buf' = [buf EXCEPT ![c] = w(async)]
             /\ \/ async = {} /\ proc' = [proc EXCEPT ![p].at = "bwrite", ![p].wchan = c]
                \/ async # {} /\ proc' = [proc EXCEPT ![p] = Idle]
    BY Zenon DEF bwrite
  <2>2. c = b
    BY <1>0
  <2> HIDE DEF c
  <2> QED
    BY <2>1, <2>2
<1>2. PICK async \in SUBSET {"B_ASYNC"} :
        /\ buf' = [buf EXCEPT ![b] = Writing(Changed(p), async)]
        /\ \/ proc' = [proc EXCEPT ![p].at = "bwrite", ![p].wchan = b]
           \/ proc' = [proc EXCEPT ![p] = Idle]
  BY <1>1
<1> DEFINE r == Writing(Changed(p), async)
<1>3. /\ Changed(p) \in Header /\ Changed(p).blk = buf[b].blk /\ Changed(p).flags = buf[b].flags
      /\ proc[p].at = "got" /\ UNCHANGED <<disk, failed, late>>
  BY <1>0, <1>1, ChangedHeader
<1>4. /\ b \in Buf /\ b \notin io /\ buf[b].blk \in Block /\ Changed(p).pages = buf[b].pages
      /\ Changed(p).data = latest'[buf[b].blk]
      /\ \A j \in Block \ {buf[b].blk} : latest'[j] = latest[j]
  BY <1>0, <1>1, ModifiesData
<1>5. r \in Header
  BY <1>3, <1>4, WritingIsBusy
<1>6. /\ r.blk = buf[b].blk /\ r.pages = buf[b].pages /\ r.data = Changed(p).data
      /\ \A f \in {"B_READ", "B_ERROR", "B_DELWRI"} : f \notin r.flags
      /\ "B_INVAL" \in r.flags => "B_INVAL" \in buf[b].flags
  BY <1>3, <1>4 DEF Writing, Header
<1>7. /\ buf' = [buf EXCEPT ![b] = r]
      /\ \A q \in Proc \ {p} : proc'[q] = proc[q]
      /\ \/ proc'[p].at \in {"bread", "bwrite"} /\ proc'[p].bp = b /\ proc'[p].want = proc[p].want
         \/ proc'[p].at = "user"
  BY <1>0, <1>2 DEF IInv, TypeOK, Process, Idle
<1> HIDE DEF r
<1>8. /\ buf'[b] = r /\ \A x \in Buf : Clean(x)'
      /\ \A x \in Buf \ {b} : Same(x)
      /\ \A q \in Proc : Wanted(q)'
  <2>1. HandsOver(p, b, r)
    BY <1>1, <1>6, <1>7 DEF HandsOver
  <2> QED
    BY <1>0, <1>3, <1>5, <2>1, TransferData
<1>9. Marked(b)'
  BY <1>1, <1>6, <1>8 DEF Marked
<1>10. ASSUME NEW j \in Block PROVE Coherent(j)'
  <2>1. CASE j = buf[b].blk
    BY <1>3, <1>4, <1>6, <1>8, <1>9, <2>1, CoherentChanged DEF DInv, Same
  <2>2. CASE j # buf[b].blk
    <3>1. Unmoved(b, j)
      BY <1>6, <1>8, <2>2 DEF Unmoved
    <3> QED
      BY <1>3, <1>4, <1>8, <2>2, <3>1, SameIsUnmoved, CoherentKept DEF DInv
  <2> QED
    BY <2>1, <2>2
<1> QED
  BY <1>8, <1>10 DEF DInv

LEMMA StartReadData ==
  ASSUME IInv, IInv', DInv, NEW p \in Proc, StartRead(p)
  PROVE  DInv'
<1>0. PICK b : b = proc[p].bp
  OBVIOUS
<1>1. /\ proc[p].at = "got" /\ ~Valid(b) /\ io' = io \cup {b}
      /\ UNCHANGED <<disk, latest, failed, late>>
  BY <1>0 DEF StartRead, Unchanged
<1>2. b \in Buf /\ b \notin io /\ buf[b] \in Header /\ "B_ERROR" \notin buf[b].flags
  BY <1>0, <1>1, UsedIsClean
<1> DEFINE s(async) == [buf[b] EXCEPT !.flags = @ \cup {"B_READ"} \cup async]
<1>3. PICK async \in SUBSET {"B_ASYNC"} :
        /\ buf' = [buf EXCEPT ![b] = s(async)]
        /\ \/ async = {} /\ proc' = [proc EXCEPT ![p].at = "bread", ![p].wchan = b]
           \/ async # {} /\ proc' = [proc EXCEPT ![p] = Idle]
  <2>1. CASE /\ buf' = [buf EXCEPT ![b].flags = @ \cup {"B_READ"}]
             /\ proc' = [proc EXCEPT ![p].at = "bread", ![p].wchan = b]
    <3>1. buf' = [buf EXCEPT ![b] = s({})]
      BY <2>1
    <3> HIDE DEF s
    <3> QED
      BY <2>1, <3>1
  <2>2. CASE /\ buf' = [buf EXCEPT ![b].flags = @ \cup {"B_READ", "B_ASYNC"}]
             /\ proc' = [proc EXCEPT ![p] = Idle]
    <3>1. buf[b].flags \cup {"B_READ", "B_ASYNC"} = buf[b].flags \cup {"B_READ"} \cup {"B_ASYNC"}
      OBVIOUS
    <3>2. buf' = [buf EXCEPT ![b] = s({"B_ASYNC"})]
      BY <2>2, <3>1
    <3> HIDE DEF s
    <3> QED
      BY <2>2, <3>2
  <2> QED
    BY <1>0, <2>1, <2>2 DEF StartRead
<1> DEFINE r == s(async)
<1>4. /\ r \in Header /\ r.blk = buf[b].blk /\ r.pages = buf[b].pages /\ r.data = buf[b].data
      /\ \A f \in {"B_DONE", "B_ERROR", "B_DELWRI"} : f \notin r.flags
      /\ "B_READ" \in r.flags
      /\ "B_INVAL" \in r.flags => "B_INVAL" \in buf[b].flags
  BY <1>1, <1>2 DEF Header, Flag, Valid
<1> HIDE DEF s
<1>5. /\ buf' = [buf EXCEPT ![b] = r]
      /\ \A q \in Proc \ {p} : proc'[q] = proc[q]
      /\ \/ proc'[p].at \in {"bread", "bwrite"} /\ proc'[p].bp = b /\ proc'[p].want = proc[p].want
         \/ proc'[p].at = "user"
  BY <1>0, <1>3 DEF IInv, TypeOK, Process, Idle
<1> HIDE DEF r
<1>6. /\ buf'[b] = r /\ \A x \in Buf : Clean(x)'
      /\ \A x \in Buf \ {b} : Same(x)
      /\ \A q \in Proc : Wanted(q)'
  <2>1. HandsOver(p, b, r)
    BY <1>1, <1>4, <1>5 DEF HandsOver
  <2> QED
    BY <1>0, <1>1, <1>4, <2>1, TransferData
<1>7. ~Marked(b) /\ ~Marked(b)' /\ ~Good(b)'
  BY <1>1, <1>2, <1>4, <1>6 DEF Marked, Good, Valid
<1>8. \A j \in Block : Unmoved(b, j)
  BY <1>4, <1>6, <1>7 DEF Unmoved
<1>9. \A j \in Block : Coherent(j)'
  BY <1>1, <1>6, <1>8, SameIsUnmoved, CoherentKept DEF DInv
<1> QED
  BY <1>6, <1>9 DEF DInv

(* biowait() returns: to bread()'s caller with a valid buffer, or else the *)
(* buffer is released, and lost if its transfer failed.                    *)
LEMMA BiowaitData ==
  ASSUME IInv, IInv', DInv, NEW p \in Proc, Biowait(p)
  PROVE  DInv'
<1>0. PICK b : b = proc[p].bp
  OBVIOUS
<1>1. /\ proc[p].at \in {"bread", "bwrite"} /\ proc[p].wchan = NONE
      /\ UNCHANGED <<io, disk, latest, failed, late>>
  BY DEF Biowait, Unchanged
<1>2. /\ b \in Buf /\ buf[b] \in Header /\ b \notin io /\ "B_DONE" \in buf[b].flags
      /\ \A q \in Proc \ {p} : ~Owns(q, b)
  BY <1>0, <1>1, HasBuffer, NoneIsNew DEF Transferring
<1>3. buf[b].blk = proc[p].want /\ "B_DELWRI" \notin buf[b].flags /\ Clean(b)
  BY <1>0, <1>1, <1>2 DEF DInv, Wanted
<1>4. CASE /\ proc' = [proc EXCEPT ![p].at = "got"] /\ UNCHANGED buf
           /\ "B_ERROR" \notin buf[b].flags
  <2>1. \A x \in Buf : Same(x)
    BY <1>1, <1>4 DEF Same
  <2>2. /\ proc'[p].at = "got" /\ proc'[p].bp = b /\ proc'[p].want = proc[p].want
        /\ \A q \in Proc \ {p} : Stays(q)
    BY <1>0, <1>4 DEF Stays, IInv, TypeOK, Process
  <2>3. ASSUME NEW x \in Buf PROVE Clean(x)'
    <3>1. CASE x = b
      BY <1>1, <1>3, <1>4, <3>1 DEF Clean
    <3>2. CASE x # b
      BY <1>0, <2>1, <2>2, <3>2, CleanKept DEF DInv, Owns
    <3> QED
      BY <3>1, <3>2
  <2>4. ASSUME NEW q \in Proc PROVE Wanted(q)'
    <3>1. CASE q = p
      BY <1>3, <1>4, <2>2, <3>1 DEF Wanted
    <3>2. CASE q # p
      BY <2>1, <2>2, <3>2, WantedKept DEF DInv
    <3> QED
      BY <3>1, <3>2
  <2>5. \A j \in Block : Coherent(j)'
    BY <1>1, <2>1, SameIsUnmoved, CoherentKept DEF DInv
  <2> QED
    BY <2>3, <2>4, <2>5 DEF DInv
<1>5. CASE Brelse(p, b, buf[b])
  <2>1. /\ buf'[b] = Released(buf[b])
        /\ \A x \in Buf \ {b} : Same(x) /\ Clean(x)'
        /\ \A q \in Proc : Wanted(q)'
    BY <1>0, <1>1, <1>5, GivesUpData
  <2>2. Clean(b)' /\ \A j \in Block : Unmoved(b, j)
    <3>1. CASE Invalid(buf[b])
      <4>1. buf'[b].blk = NONE /\ buf'[b].flags = {"B_INVAL"}
        BY <1>2, <2>1, <3>1, ReleasedData
      <4> QED
        BY <1>1, <1>2, <1>3, <4>1, NoneIsNew DEF Clean, Unmoved, Marked
    <3>2. CASE ~Invalid(buf[b])
      <4>1. Same(b)
        BY <1>1, <1>2, <2>1, <3>2, ReleasedData DEF Same
      <4>2. Clean(b)'
        BY <1>3, <3>2, <4>1 DEF Clean, Same, Content, Invalid
      <4> QED
        BY <1>2, <4>1, <4>2, SameIsUnmoved
    <3> QED
      BY <3>1, <3>2
  <2>3. \A j \in Block : Coherent(j)'
    BY <1>1, <2>1, <2>2, SameIsUnmoved, CoherentKept DEF DInv
  <2> QED
    BY <2>1, <2>2, <2>3 DEF DInv
<1> QED
  BY <1>0, <1>2, <1>4, <1>5 DEF Biowait

-----------------------------------------------------------------------------
(* vinvalbuf(): a buffer of block k is waited for, or given up with what   *)
(* was written to it.                                                      *)
LEMMA vinvalbufData ==
  ASSUME IInv, IInv', DInv, NEW p \in Proc, NEW k \in Block, vinvalbuf(p, k)
  PROVE  DInv'
<1> DEFINE ofFile == BuffersOf(k)
<1>1. /\ proc[p].bp = NONE /\ UNCHANGED <<io, disk, failed, late>>
  BY Arrives DEF vinvalbuf
<1>2. ASSUME \A x \in Buf : Same(x), \A q \in Proc \ {p} : Stays(q), UNCHANGED latest,
             proc'[p].at \in {"user", "vinvalbuf"}
      PROVE  DInv'
  <2>1. \A x \in Buf : Clean(x)'
    BY <1>1, <1>2, CleanKept, NoneIsNew DEF DInv, Owns
  <2>2. \A q \in Proc : Wanted(q)'
    BY <1>2, WantedKept DEF DInv, Wanted
  <2>3. \A j \in Block : Coherent(j)'
    BY <1>1, <1>2, SameIsUnmoved, CoherentKept DEF DInv
  <2> QED
    BY <2>1, <2>2, <2>3 DEF DInv
<1>3. CASE /\ ofFile = {} /\ proc' = [proc EXCEPT ![p] = Idle]
           /\ UNCHANGED <<buf, needbuffer, latest>>
  <2>1. \A x \in Buf : Same(x)
    BY <1>1, <1>3 DEF Same
  <2>2. (\A q \in Proc \ {p} : Stays(q)) /\ proc'[p].at = "user"
    BY <1>3 DEF Stays, IInv, TypeOK, Idle
  <2> QED
    BY <1>2, <1>3, <2>1, <2>2
<1>4. ASSUME NEW b \in ofFile,
             buf' = [buf EXCEPT ![b].flags = @ \cup {"B_WANTED"}],
             proc' = [proc EXCEPT ![p] = At("vinvalbuf", k, NONE, b)],
             UNCHANGED <<needbuffer, latest>>
      PROVE  DInv'
  <2>1. buf' = [buf EXCEPT ![b] = Marks(b)]
    BY <1>4 DEF Marks
  <2>2. \A x \in Buf : buf'[x] \in {buf[x], Marks(x)}
    BY <2>1 DEF IInv, TypeOK
  <2>3. \A x \in Buf : Same(x)
    BY <1>1, <2>2, KeptIsSame DEF BufKept
  <2>4. (\A q \in Proc \ {p} : Stays(q)) /\ proc'[p].at = "vinvalbuf"
    BY <1>4 DEF Stays, IInv, TypeOK, At
  <2> QED
    BY <1>2, <1>4, <2>3, <2>4
<1>5. ASSUME NEW b \in ofFile, ~IsBusy(b),
             buf' = [buf EXCEPT ![b] = Released([buf[b] EXCEPT !.flags = @ \cup {"B_INVAL"}])],
             proc' = Awake([proc EXCEPT ![p] = IF ofFile = {b} THEN Idle
                                               ELSE At("vinvalbuf", k, NONE, NONE)],
                           WokenBy(b)),
             latest' = [latest EXCEPT ![k] = disk[k]]
      PROVE  DInv'
  <2> DEFINE r == [buf[b] EXCEPT !.flags = @ \cup {"B_INVAL"}]
             next == IF ofFile = {b} THEN Idle ELSE At("vinvalbuf", k, NONE, NONE)
             moved == [proc EXCEPT ![p] = next]
  <2>1. b \in Buf /\ buf[b] \in Header /\ buf[b].list # NONE /\ buf[b].blk = k
    <3>1. b \in Buf /\ Sound(b) /\ buf[b] \in Header /\ buf[b].blk = k
      BY <1>5 DEF BuffersOf, IInv, TypeOK
    <3> QED
      BY <1>5, <3>1, NoneIsNew DEF IsBusy, Sound, GoodBusy, GoodFree, List
  <2>2. r \in Header /\ Invalid(r)
    BY <2>1 DEF Header, Flag, Invalid
  <2>3. /\ buf'[b].blk = NONE /\ buf'[b].flags = {"B_INVAL"}
        /\ \A x \in Buf \ {b} : buf'[x] = buf[x]
    <3> HIDE DEF r
    <3>1. buf'[b] = Released(r) /\ \A x \in Buf \ {b} : buf'[x] = buf[x]
      BY <1>5, <2>1 DEF IInv, TypeOK, r
    <3> QED
      BY <2>2, <3>1, ReleasedData
  <2>4. \A x \in Buf \ {b} : Same(x)
    BY <1>1, <2>3 DEF Same
  <2>5. (\A q \in Proc \ {p} : Stays(q)) /\ proc'[p].at \in {"user", "vinvalbuf"}
    <3>1. next \in Process /\ next.at \in {"user", "vinvalbuf"}
      BY DEF Process, Place, Idle, At
    <3> HIDE DEF next
    <3>2. moved[p] = next /\ \A q \in Proc \ {p} : moved[q] = proc[q]
      BY DEF IInv, TypeOK
    <3>3. \A q \in Proc :
            proc'[q] = IF q \in WokenBy(b) THEN [moved[q] EXCEPT !.wchan = NONE] ELSE moved[q]
      BY <1>5 DEF Awake, next
    <3> HIDE DEF moved
    <3>4. proc \in [Proc -> Process]
      BY DEF IInv, TypeOK
    <3>5. proc'[p].at \in {"user", "vinvalbuf"}
      BY <3>1, <3>2, <3>3 DEF Process
    <3>6. \A q \in Proc \ {p} : proc'[q] = proc[q] \/ proc'[q] = [proc[q] EXCEPT !.wchan = NONE]
      BY <3>2, <3>3
    <3> QED
      BY <3>4, <3>5, <3>6 DEF Stays, Process
  <2>6. b \notin io /\ \A q \in Proc : ~Owns(q, b)
    BY <2>1, FreeIsNobodys
  <2>7. ASSUME NEW x \in Buf PROVE Clean(x)'
    <3>1. CASE x = b
      BY <1>1, <2>3, <2>6, <3>1, NoneIsNew DEF Clean
    <3>2. CASE x # b
      BY <1>1, <2>4, <2>5, <3>2, CleanKept, NoneIsNew DEF DInv, Owns
    <3> QED
      BY <3>1, <3>2
  <2>8. ASSUME NEW q \in Proc PROVE Wanted(q)'
    <3>1. CASE q = p
      BY <2>5, <3>1 DEF Wanted
    <3>2. CASE q # p
      BY <2>4, <2>5, <2>6, <3>2, WantedKept DEF DInv, Owns
    <3> QED
      BY <3>1, <3>2
  <2>9. ASSUME NEW j \in Block PROVE Coherent(j)'
    <3>1. CASE j = k
      <4>1. latest'[k] = disk'[k]
        BY <1>1, <1>5 DEF IInv, TypeOK
      <4>2. buf'[b].blk # k
        BY <2>3, NoneIsNew
      <4> QED
        BY <1>1, <2>1, <2>4, <3>1, <4>1, <4>2, CoherentDropped DEF DInv, Same
    <3>2. CASE j # k
      <4>1. latest'[j] = latest[j]
        BY <1>5, <3>2 DEF IInv, TypeOK
      <4>2. Unmoved(b, j)
        BY <2>1, <2>3, <3>2, NoneIsNew DEF Unmoved
      <4> QED
        BY <1>1, <2>4, <4>1, <4>2, SameIsUnmoved, CoherentKept DEF DInv
    <3> QED
      BY <3>1, <3>2
  <2> QED
    BY <2>7, <2>8, <2>9 DEF DInv
<1> QED
  BY <1>3, <1>4, <1>5 DEF vinvalbuf

-----------------------------------------------------------------------------
(* biodone(): the disk has what the buffer had, or the buffer what the     *)
(* disk has, unless the transfer failed.                                   *)
LEMMA TransferredData ==
  ASSUME IInv, NEW b \in io, NEW ok \in BOOLEAN
  PROVE  /\ Transferred(b, ok).pages = buf[b].pages
         /\ "B_INVAL" \in Transferred(b, ok).flags <=> "B_INVAL" \in buf[b].flags
         /\ ~ok => "B_ERROR" \in Transferred(b, ok).flags
         /\ ok => Transferred(b, ok).data =
                    IF "B_READ" \in buf[b].flags THEN disk[buf[b].blk] ELSE buf[b].data
<1> DEFINE r == [buf[b] EXCEPT !.flags = @ \cup {"B_DONE"} \cup (IF ok THEN {} ELSE {"B_ERROR"})]
<1>1. buf[b] \in Header
  BY DEF IInv, TypeOK
<1>2. /\ r \in [blk : Block \cup {NONE}, flags : SUBSET Flag, pages : Nat,
                list : List \cup {NONE}, data : Nat]
      /\ r.blk = buf[b].blk /\ r.pages = buf[b].pages /\ r.data = buf[b].data
      /\ \A f \in {"B_READ", "B_INVAL"} : f \in r.flags <=> f \in buf[b].flags
      /\ ~ok => "B_ERROR" \in r.flags
  BY <1>1 DEF Header, Flag
<1>3. Transferred(b, ok) = IF ok /\ "B_READ" \in r.flags THEN [r EXCEPT !.data = disk[r.blk]] ELSE r
  BY DEF Transferred
<1> HIDE DEF r
<1> QED
  BY <1>2, <1>3

(* What becomes of b, with its block k, when its transfer has ended.       *)
Ended(b, ok) ==
  /\ buf'[b].blk \in {buf[b].blk, NONE}
  /\ buf'[b].blk = buf[b].blk =>
       /\ "B_DELWRI" \notin buf'[b].flags
       /\ ~ok => "B_ERROR" \in buf'[b].flags
       /\ ok => buf'[b].data = IF "B_READ" \in buf[b].flags THEN disk[buf[b].blk] ELSE buf[b].data

LEMMA EndedIsCoherent ==
  ASSUME IInv, DInv, NEW b \in Buf, NEW ok \in BOOLEAN, biodone(b, ok), Ended(b, ok),
         \A x \in Buf \ {b} : Same(x)
  PROVE  \A j \in Block : Coherent(j)'
<1>0. PICK k : k = buf[b].blk
  OBVIOUS
<1>1. /\ b \in io /\ io' = io \ {b} /\ UNCHANGED <<latest, late>>
      /\ disk' = IF "B_READ" \notin buf[b].flags /\ ok THEN [disk EXCEPT ![k] = buf[b].data]
                 ELSE disk
      /\ failed' = IF "B_READ" \notin buf[b].flags /\ ~ok THEN failed \cup {k} ELSE failed
  BY <1>0 DEF biodone
<1>2. k \in Block /\ "B_DELWRI" \notin buf[b].flags
  BY <1>0, <1>1, TransferredHeader DEF DInv, Clean
<1>3. ASSUME NEW j \in Block, j # k PROVE Coherent(j)'
  <2>1. disk'[j] = disk[j] /\ failed \subseteq failed'
    BY <1>1, <1>3 DEF IInv, TypeOK
  <2>2. Unmoved(b, j)
    BY <1>0, <1>2, <1>3, NoneIsNew DEF Ended, Unmoved
  <2> QED
    BY <1>1, <2>1, <2>2, SameIsUnmoved, CoherentKept DEF DInv
<1>4. Coherent(k)'
  <2>1. ASSUME buf'[b].blk = k
        PROVE  /\ ~Marked(b)'
               /\ Good(b)' /\ k \notin failed' =>
                    buf'[b].data = IF "B_READ" \in buf[b].flags THEN disk[k] ELSE buf[b].data
    BY <1>0, <1>1, <2>1 DEF Ended, Marked, Good
  <2>2. k \notin failed' =>
          disk'[k] = IF "B_READ" \in buf[b].flags THEN disk[k] ELSE buf[b].data
    BY <1>1, <1>2 DEF IInv, TypeOK
  <2>3. failed \subseteq failed' /\ Coherent(k) /\ \A x \in Buf \ {b} : buf'[x].blk = buf[x].blk
    BY <1>1, <1>2 DEF DInv, Same
  <2> QED
    BY <1>0, <1>1, <1>2, <2>1, <2>2, <2>3, CoherentDone
<1> QED
  BY <1>3, <1>4

LEMMA biodoneData ==
  ASSUME IInv, IInv', DInv, NEW b \in Buf, NEW ok \in BOOLEAN, biodone(b, ok)
  PROVE  DInv'
<1> DEFINE r == Transferred(b, ok)
           k == buf[b].blk
<1>1. b \in io /\ io' = io \ {b}
  BY DEF biodone
<1>2. /\ r \in Header /\ r.blk = k /\ k \in Block
      /\ "B_DELWRI" \in r.flags <=> "B_DELWRI" \in buf[b].flags
  BY <1>1, TransferredHeader
<1>3. /\ r.pages = buf[b].pages
      /\ "B_INVAL" \in r.flags <=> "B_INVAL" \in buf[b].flags
      /\ ~ok => "B_ERROR" \in r.flags
      /\ ok => r.data = IF "B_READ" \in buf[b].flags THEN disk[k] ELSE buf[b].data
  BY <1>1, TransferredData
<1>4. "B_DELWRI" \notin r.flags /\ "B_INVAL" \notin r.flags /\ r.pages # 0
  BY <1>1, <1>2, <1>3 DEF DInv, Clean
<1> HIDE DEF r
<1>5. CASE /\ "B_ASYNC" \in buf[b].flags
           /\ buf' = [buf EXCEPT ![b] = Released(r)]
           /\ proc' = Awake(proc, WokenBy(b))
  <2>1. buf'[b] = Released(r) /\ \A x \in Buf \ {b} : buf'[x] = buf[x]
    BY <1>5 DEF IInv, TypeOK
  <2>2. \A x \in Buf \ {b} : Same(x)
    BY <1>1, <2>1 DEF Same
  <2>3. \A q \in Proc : Stays(q) /\ ~Owns(q, b)
    BY <1>5, AwakeProcesses, Sleepers DEF Wakes, Stays, IInv, TypeOK, Process
  <2>4. Clean(b)' /\ Ended(b, ok)
    <3>1. CASE Invalid(r)
      <4>1. buf'[b].blk = NONE /\ buf'[b].flags = {"B_INVAL"}
        BY <1>2, <2>1, <3>1, ReleasedData
      <4> QED
        BY <1>1, <1>2, <4>1, NoneIsNew DEF Clean, Ended
    <3>2. CASE ~Invalid(r)
      <4>1. /\ buf'[b].blk = k /\ buf'[b].data = r.data /\ buf'[b].pages = r.pages
            /\ \A f \in Content : f \in buf'[b].flags <=> f \in r.flags
        BY <1>2, <2>1, <3>2, ReleasedData
      <4> QED
        BY <1>1, <1>3, <1>4, <3>2, <4>1 DEF Clean, Ended, Content, Invalid
    <3> QED
      BY <3>1, <3>2
  <2>5. ASSUME NEW x \in Buf PROVE Clean(x)'
    <3>1. CASE x = b
      BY <2>4, <3>1
    <3>2. CASE x # b
      BY <2>2, <2>3, <3>2, CleanKept DEF DInv
    <3> QED
      BY <3>1, <3>2
  <2>6. \A q \in Proc : Wanted(q)'
    BY <2>2, <2>3, WantedKept DEF DInv, Owns
  <2>7. \A j \in Block : Coherent(j)'
    BY <2>2, <2>4, EndedIsCoherent
  <2> QED
    BY <2>5, <2>6, <2>7 DEF DInv
<1>6. CASE /\ "B_ASYNC" \notin buf[b].flags
           /\ buf' = [buf EXCEPT ![b] = [r EXCEPT !.flags = @ \ {"B_WANTED"}]]
           /\ proc' = Awake(proc, {p \in Proc : proc[p].wchan = b})
  <2> DEFINE own == [r EXCEPT !.flags = @ \ {"B_WANTED"}]
  <2>1. /\ own.blk = k /\ own.data = r.data /\ own.pages = r.pages
        /\ \A f \in Content : f \in own.flags <=> f \in r.flags
    BY <1>2 DEF Header, Content
  <2> HIDE DEF own
  <2>2. buf'[b] = own /\ \A x \in Buf \ {b} : buf'[x] = buf[x]
    BY <1>6 DEF IInv, TypeOK, own
  <2>3. \A x \in Buf \ {b} : Same(x)
    BY <1>1, <2>2 DEF Same
  <2>4. \A q \in Proc : Stays(q)
    <3>1. \A q \in Proc : proc'[q] = IF proc[q].wchan = b THEN Wakes(q) ELSE proc[q]
      BY <1>6, AwakeProcesses
    <3> QED
      BY <3>1 DEF Wakes, Stays, IInv, TypeOK, Process
  <2>5. PICK p \in Proc : Owns(p, b) /\ proc[p].at \in {"bread", "bwrite"}
    BY <1>1, <1>6 DEF IInv, Sound, Transfers
  <2>6. \A q \in Proc \ {p} : ~Owns(q, b)
    BY <2>5 DEF IInv, OneOwns
  <2>7. proc'[p].at \in {"bread", "bwrite"} /\ proc'[p].bp = b /\ proc'[p].want = proc[p].want
    BY <2>4, <2>5 DEF Stays, Owns
  <2>8. ASSUME NEW x \in Buf PROVE Clean(x)'
    <3>1. CASE x = b
      BY <1>1, <1>4, <2>1, <2>2, <2>7, <3>1 DEF Clean, Owns, Content
    <3>2. CASE x # b
      BY <2>3, <2>4, <3>2, CleanKept DEF DInv
    <3> QED
      BY <3>1, <3>2
  <2>9. ASSUME NEW q \in Proc PROVE Wanted(q)'
    <3>1. CASE q = p
      <4>1. buf[b].blk = proc[p].want
        BY <2>5 DEF DInv, Wanted, Owns
      <4> QED
        BY <1>4, <2>1, <2>2, <2>7, <3>1, <4>1 DEF Wanted, Content
    <3>2. CASE q # p
      BY <2>3, <2>4, <2>6, <3>2, WantedKept DEF DInv, Owns
    <3> QED
      BY <3>1, <3>2
  <2>10. Ended(b, ok)
    BY <1>3, <1>4, <2>1, <2>2 DEF Ended, Content
  <2>11. \A j \in Block : Coherent(j)'
    BY <2>3, <2>10, EndedIsCoherent
  <2> QED
    BY <2>8, <2>9, <2>11 DEF DInv
<1> QED
  BY <1>5, <1>6 DEF biodone, r

-----------------------------------------------------------------------------
(* Every step keeps the contents in order.                                 *)
LEMMA NextDInv == IInv /\ IInv' /\ DInv /\ [Next]_vars => DInv'
<1> SUFFICES ASSUME IInv, IInv', DInv, [Next]_vars PROVE DInv'
  OBVIOUS
<1>1. ASSUME NEW p \in Proc, Runs(p) PROVE DInv'
  BY <1>1, GetblkBusyData, GetblkHitData, GetblkMissData, AllocbufData, GiveBackData,
     StartReadData, bdwriteData, bwriteData, BiowaitData, vinvalbufData
  DEF Runs
<1>2. ASSUME NEW b \in Buf, NEW ok \in BOOLEAN, biodone(b, ok) PROVE DInv'
  BY <1>2, biodoneData
<1>3. CASE UNCHANGED vars
  BY <1>3 DEF vars, DInv, Clean, Wanted, Coherent, Alone, Kept, Blank, Marked, Good, Owns
<1> QED
  BY <1>1, <1>2, <1>3 DEF Next

THEOREM BufCacheDInv == Spec => [](IInv /\ DInv)
<1>1. Init => IInv /\ DInv
  BY InitIInv, InitDInv
<1>2. IInv /\ DInv /\ [Next]_vars => (IInv /\ DInv)'
  BY NextIInv, NextDInv
<1> QED
  BY <1>1, <1>2, PTL DEF Spec

(* Two processes that miss block k at once do not both enter a buffer for  *)
(* it: getblk() looks and enters without a sleep in between, except where  *)
(* allocbuf() had to wait for pages.                                       *)
THEOREM BufCacheSecondBufferIsLate == Spec => []SecondBufferIsLate
<1>1. DInv => SecondBufferIsLate
  <2> SUFFICES ASSUME DInv, NEW k \in Block \ late
      PROVE  Cardinality(BuffersOf(k)) <= 1
    BY DEF SecondBufferIsLate
  <2>1. \A a, b \in BuffersOf(k) : a = b
    BY DEF DInv, Coherent, Alone, BuffersOf
  <2>2. CASE BuffersOf(k) = {}
    BY <2>2, FS_EmptySet
  <2>3. ASSUME NEW b \in BuffersOf(k) PROVE Cardinality(BuffersOf(k)) <= 1
    <3>1. BuffersOf(k) = {b}
      BY <2>1, <2>3
    <3> QED
      BY <3>1, FS_Singleton
  <2> QED
    BY <2>2, <2>3
<1> QED
  BY <1>1, BufCacheDInv, PTL

(* What bdwrite(), bwrite() or bawrite() was given last is what the next   *)
(* reader of the block gets, and getnewbuf(), brelse() and biodone() drop  *)
(* no buffer that is the only one to have it.                              *)
THEOREM BufCacheLastWriteIsKept == Spec => []LastWriteIsKept
<1>1. IInv /\ DInv => LastWriteIsKept
  <2> SUFFICES ASSUME IInv, DInv, NEW k \in Block \ (late \cup failed)
      PROVE  /\ \A b \in BuffersOf(k) : Readable(b) \/ Marked(b) => buf[b].data = latest[k]
             /\ disk[k] = latest[k] \/ \E b \in BuffersOf(k) : Marked(b)
    BY DEF LastWriteIsKept
  <2>1. Kept(k)
    BY DEF DInv, Coherent
  <2>2. ASSUME NEW b \in BuffersOf(k), Readable(b) PROVE Good(b) \/ Marked(b)
    <3>1. "B_ERROR" \notin buf[b].flags
      BY <2>2 DEF Readable, DInv, Clean, Owns, BuffersOf
    <3> QED
      BY <2>2, <3>1 DEF Readable, Valid, Good, Marked
  <2> QED
    BY <2>1, <2>2 DEF Kept, BuffersOf
<1> QED
  BY <1>1, BufCacheDInv, PTL
=============================================================================
