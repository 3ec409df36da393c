# TLA+ models of the NetBSD kernel in this repository

`src/` holds a NetBSD source tree (kernel under `src/src/sys`). These modules
model the parts of the kernel where correctness depends on the order of events:
locks and sleep queues, timers, signals against sleeps, the buffer cache, record
locks, listening sockets, and the TCP receiver.
Every action is one stretch of kernel code that nothing else can interrupt in a
way that matters, named after the function it stands for.

Paths below are relative to `src/src/sys`.

## 1. Inventory

The kernel is for one processor. A process in the kernel is never preempted; it
gives the processor up only in `mi_switch()`, that is inside `sleep()`,
`tsleep()`, `thread_sleep()`, `issignal()`, or on its way to user mode. What
interleaves with it is interrupts (devices, `hardclock()`, software interrupts
for the clock and the network) between two `spl` sections, and other processes
at every sleep. So the hazards are: a condition tested before a sleep and
trusted after it, a wakeup or timeout that arrives for a sleep that is already
over, handlers that run in an order nobody expected, tables that run full,
messages lost, repeated and reordered by the network, and arithmetic modulo
2^32.

| Component | State | Operations | Interacts with | What makes it correct |
|---|---|---|---|---|
| Sleep lock, `vm/kern_lock.c` | `struct lock`: `want_write`, `want_upgrade`, `waiting`, `read_count`, `thread`, `recursion_depth` | `lock_write/read/done`, upgrade, downgrade, try variants, recursion | callers in `vm_map.c`; `thread_sleep()`/`thread_wakeup()` | writers exclude everybody; `lock_done()` releases what its caller holds; no lost wakeup; no deadlock |
| Sleep queues, `kern/kern_synch.c`; signals to sleepers, `kern/kern_sig.c` | `slpque`, `p_wchan`, `p_stat`, `p_flag`, `p_siglist`, pending `endtsleep()` | `sleep`, `tsleep`, `wakeup`, `unsleep`, `endtsleep`, `setrunnable`, `psignal`, `issignal` | callout queue, scheduler, every driver and protocol | queue and `p_wchan` agree; no timeout or signal outlives its sleep; the result says what ended the sleep |
| Callout queue, `kern/kern_clock.c` | `calltodo`, `callfree`, `c_time` deltas | `timeout`, `untimeout`, `hardclock`, `softclock` | everything that waits | each timer runs once, not early, in order, unless cancelled; no entry of the table is lost |
| TCP, `netinet/tcp_*.c` | `struct tcpcb`, reassembly queue, timers | `tcp_input`, `tcp_output`, `tcp_usrreq`, `tcp_slowtimo/fasttimo` | IP below, sockets above | what is read is a prefix of what was sent; the advertised window is never taken back nor exceeds the buffer; the end of file comes at the FIN |
| Sockets, `kern/uipc_socket*.c` | `sockbuf`, `so_state`, `so_q`, `so_q0` | `sosend`, `soreceive`, `sbwait`, `sb_lock`, `sonewconn`, `soisconnected` | protocols, system calls | data is not lost or reordered between two sleepers on one buffer; a connection is on one listen queue |
| IP, `netinet/ip_*.c` | fragment queues with their time to live | `ipintr`, `ip_reass`, `ip_slowtimo` | drivers, TCP, UDP | a datagram is put together only from its own fragments, and is freed in the end |
| ARP, `netinet/if_ether.c` | cache entries, `la_hold`, retry counts | `arpresolve`, `in_arpinput`, `arptimer` | routing table, drivers | at most one held packet per entry, sent or freed |
| Buffer cache, `kern/vfs_bio.c`, `kern/vfs_subr.c` | hash and free queues, `b_flags`, pages per header, `needbuffer` | `getblk`, `getnewbuf`, `allocbuf`, `bread(n)`, `b(d,a)write`, `brelse`, `biowait`, `biodone`, `vinvalbuf`, `vflushbuf` | file systems, drivers (`biodone()` at interrupt level), sleep queues | one buffer per block, one owner per buffer, no lost wakeup, no lost write, no lost page |
| Record locks, `kern/vfs_lockf.c`, `kern/kern_descrip.c` | per file a list of locks, each with a list of blocked requests | `lf_setlock`, `lf_clearlock`, `lf_split`, `lf_wakelock`, called by `fcntl`, `flock`, `closef` | sleep queues, signals | granted locks do not conflict; a call changes its own bytes only; waiters wait for a reason; a cycle of waiters is refused |
| Vnodes and VFS, `kern/vfs_*.c` | vnode lists, use counts, name cache | `getnewvnode`, `vget`, `vgone`, `cache_*` | file systems | no vnode is recycled in use |
| Processes, `kern/kern_{fork,exit,exec,proc}.c` | process tree, `p_stat` | `fork1`, `exit1`, `wait4`, `execve` | signals, VM | each child is reaped once |
| System V IPC, `kern/sysv_*.c` | semaphores, messages, undo lists | `semop`, `msgsnd`, ... | sleep queues | an undo list restores what its process did |
| Terminals, `kern/tty*.c` | character queues, flow control bits | `ttyinput`, `ttwrite`, `ttstart` | drivers, signals | output restarts after a stop |
| mbufs; malloc and resource maps; routing and `radix.c`; interfaces; UDP, ICMP, IGMP, raw IP; Unix-domain sockets; file systems; NFS; VM; OSI, X.25 and XNS; machine-dependent code and drivers; user programs | see `PROJECT.json` | | | |

`PROJECT.json` lists each of them under `components` with its status and the
reason for it, and under `hazards` what can go wrong at which line.

## 2. Modules

    KernLock ---- KernLockProofs          Timers
       |                                    ^  (Callout implements Timers)
    MCKernLock                            Callout ---- CalloutProofs
                                             |
    SleepQueue -- SleepQueueProofs        MCCallout
       |
    MCSleepQueue                          TcpReceive -- MCTcpReceive
                                             |
                                          TcpReceiveProofs

    ByteLocks ---- ByteLocksProofs        BufCache -- MCBufCache
       ^  (LockF implements ByteLocks)       |
     LockF ---- LockFProofs               BufCacheProofs
       |
    MCLockF

    ListenQueue -- ListenQueueProofs
       |
    MCListenQueue

A `MC*` module only gives the constants of its module values for TLC.
Operators whose comment begins "Faulty variant" are plausible mistakes in the
operator after them. Nothing refers to them; they are there to show that each
property notices the mistake it is meant for (`mutants` in `PROJECT.json`).

### KernLock (`vm/kern_lock.c`)

The six variables of `lockVars` are the fields of `struct lock`. `reads`, `excl`
and `nest` are what each process believes it holds; the code keeps no such
record, and `lock_done()` guesses what to release from the lock's own counts.
`asleep` and `pc` are the thread queue of the lock's address and the loop the
sleeper is in. An action is the code from a routine's entry, or from the return
of `thread_sleep()`, to the next `thread_sleep()` or the routine's return
(`lock_write`, `WriteResume`, `DrainResume`, `lock_read`, `ReadResume`,
`lock_read_to_write`, `UpgradeResume`, `lock_done`, ...). As built here
`simple_lock()` is empty, `lock_wait_time` is 0 (the spin loops are dead code)
and every lock is made with `can_sleep = TRUE`.

`AnyWriterRecurses` lets a holder by upgrade call `lock_set_recursive()`, which
no caller does; it is FALSE in the run, and the proofs hold for both values.

`MayRead`, `MayWrite` and `MayUpgrade` say what callers do, after `vm_map.c`: a
process takes the lock only when it holds none of it, unless it made itself its
recursive holder, and it clears recursion before its last unlock. `MaxReads`
and `MaxDepth` bound nesting.

### SleepQueue (`kern/kern_synch.c`, `kern/kern_sig.c`)

`stat`, `wchan`, `flag`, `siglist` are fields of `struct proc`; `slpque` is the
hash table of sleep queues; `callout[p]` counts the pending timeouts that will
call `endtsleep(p)`; `call[p]` holds the arguments, the locals and the result of
`p`'s `tsleep()`, and `cause`, a history variable: why `p` left the queue. `pc`
says in which `mi_switch()` a process is. Interrupt-level code (`wakeup`,
`endtsleep`, a terminal's `psignal`) may come between any two steps, and so may
the same calls by the running process.

`tsleep()` is cut where it can be interrupted with effect: up to `mi_switch()`;
after a stop in its first `CURSIG` (`StoppedInFirstCursig`); from `resume:`
(`Resume`); its second `CURSIG` (`SecondCursig`, `StoppedInSecondCursig`).
`userret()` handles signals on the way to user mode. `SignalSleeper` and
`SignalStopped` are the cases of `psignal()` for a sleeping and a stopped process.

Not in the model: tracing (`P_TRACED`), `vfork` (`P_PPWAIT`), orphaned process
groups, swapping, priorities, `SIGCHLD` and the parent's wait, CPU-limit signals
that `mi_switch()` sends the running process, changes of handlers and masks
while running (`Caught[p]` and `Blocked[p]` are constants). `SIGCONT` and
`SIGKILL` are sent by processes, the other signals also by interrupts.

### Timers and Callout (`kern/kern_clock.c`)

`Timers` is the promise: an armed timer has a key and a number of ticks left; it
may fire only at or after its deadline, due timers in the order of their
deadlines; cancelling takes the first with its key. `Callout` is the code: one
delta list `calltodo`, the free list `callfree`, `c_time` per entry,
`hardclock()` counting down the head of the list, `softclock()` as one action
per turn of its loop because it lowers the level around each call, so that
`timeout()`, `untimeout()` and further ticks come between. `Armed` is the
refinement mapping (sums of the deltas), and `KeepsPromise` states that
`Callout` implements `Timers`.

### TcpReceive (`netinet/tcp_input.c`, `tcp_output.c`, `tcp_timer.c`, `tcp_usrreq.c`)

The receiving half of a connection from `ESTABLISHED` on. The network is a set:
at any time any segment the peer may ever send can arrive, which covers loss,
delay, repetition and reordering. A segment keeps apart what its header says
(`seq`, `len`, `fin`), what its mbuf chain holds (`m`), and the two copies of
the FIN flag (`fin` is `ti->ti_flags`, `tifin` the local `tiflags`), because the
code updates them one at a time. `tcp_input(s)` is one step: header prediction
(`AppendPredicted`), `TrimFront`, `TrimBack`, `DropAfterAck`,
`DropDuplicateAck`, the ACK of our FIN, `TCP_REASS` and `tcp_reass`, the FIN,
and the call of `tcp_output()`. `tcp_output` is its window side: whether it
sends, and what `rcv_adv` becomes; it may fail for lack of an mbuf. All sequence
arithmetic is modulo `SeqSpace`, signed or unsigned as in the C code. Each loop of
`tcp_reass()` over the queue is an operator: `Predecessor` looks for the segment
before the new one, `CoveredAtFront` and `Successors` drop and trim the ones
after it, `Presentable` counts what has become in sequence; `Leading` is how far
such a loop gets.

`got` and `overran` are history variables: all bytes ever appended to the socket
buffer, and whether the peer has sent past its window.

Not in the model: SYN, RST, URG, timestamps and PAWS, `SYN_RECEIVED`, the reset
of a connection nobody reads any more (lines 757-762), `SHUT_RD`, the
`TIME_WAIT` timer, mbuf accounting, and the send side except that the peer may
acknowledge our FIN. Two details the model shows: a zero-length duplicate of a
FIN is queued each time it arrives out of order (hence the bound `MaxQueued`),
and `TCPS_HAVERCVDFIN` is true only from `TIME_WAIT` on.

### ByteLocks and LockF (`kern/vfs_lockf.c`, `kern/kern_descrip.c`)

`ByteLocks` is the promise: for each owner and each byte of a file, no lock, a
read lock or a write lock; a call changes a range of one owner's bytes, and a
lock is granted only if no other owner has an incompatible one there. `LockF` is
the code for one file: `locks` is the list with `lf_id`, `lf_type`, `lf_start`,
`lf_end` and, as a sequence, the requests on `lf_block`. `request` and `status`
are what each owner sleeps for in `lf_setlock()`. `LocksHeld` is the refinement
mapping.

An action is a call up to its `tsleep()` or its return: `SetLockWait`,
`SetLock`, `Unlock` (also `closef()`); `Resume` goes round the loop after a
wakeup; `Interrupted` is the error path of `tsleep()`. The six cases of an
overlap are one formula, `Replaced`: what is left before and after the new lock
(`HeadOf`, `TailOf`), and who of the waiters moves to it (`HandedOver`) or is
woken. The exceptions the code makes are kept: an overlap that contains the lock
and has its type changes nothing, except when the lock reaches to the end of the
file, and a lock of the same range changes its type in place.

`stale` is the set of sleepers whose `lf_next` points to a lockf that was freed:
case 3 moves the waiters and not their pointers. Reading through such a pointer
is undefined, so the search for deadlocks may say anything (`"unknown"`). An
interrupted sleeper that starts from there has three outcomes. It reaches the
request before its own and leaves the list. It does not find itself, and the
kernel panics (`lost = "panic"`). Or it finds itself in the freed memory, whose
`lf_block` nobody cleared, unlinks itself there only, and frees a request that is
still on the list of a lock (`lost = "freed"`). While the freed memory is as it
was (`free()` overwrites only its beginning, `kern/kern_malloc.c:301-346`), the
first of the waiters that were handed over meets the third and the others the
first; once it is used again, anything may come. The model does not say what the
memory holds and lets each stale sleeper meet each. After a panic and after a
freed request is left on a list, whose next use writes to memory that is no
lockf any more, the model stops; the properties are about what comes before.
`OwnLocksInOrder` is the order of one owner's locks that `lf_findoverlap()` stops
by.

Left out: `F_GETLK`, which changes nothing; errors for bad ranges; `FHASLOCK`;
a sleep in `MALLOC()`.

### BufCache (`kern/vfs_bio.c`, `kern/vfs_subr.c`)

`buf[b]` is a header: the block it is associated with (`b_vp`, `b_lblkno`), its
flags, its pages (`b_bufsize`), the free list it is on and a version number for
its contents. `io` are the buffers the driver has, `disk` what is on the disk.
`proc[p]` says in which sleep or between which calls a process is, with the
local variables that survive it. An action is the code between two sleeps:
`GetblkBusy`, `GetblkHit` and `GetblkMiss` are `getblk()` up to its sleep or its
return, with `incore()`, `getnewbuf()`, `allocbuf()` and `bgetvp()`;
`AllocbufGoesOn` is the rest after a sleep for pages; `StartRead`, `bwrite`,
`bdwrite`, `GiveBack` and `Biowait` are what the caller does; `vinvalbuf` drops
a file's buffers; `biodone` is the interrupt, with success or failure. In
`getnewbuf()` the set `W` of delayed writes it starts on its way is chosen with
the buffer it returns, since the order within a list is left open.

`latest`, `failed` and `late` are history variables: the version written last
(reset to what the disk has when `vinvalbuf()` gives a file's contents up), the
blocks a write of which failed, and those that got a second buffer.

Left out: `geteblk()`, `B_LOCKED`, `B_NOCACHE`, `B_CALL`, `v_numoutput` with
`vflushbuf()`, `V_SAVE`, clustering, interrupted sleeps. `VOP_STRATEGY()` does
not sleep and does not complete before it returns. A process holds one buffer
at a time; `breadn()`, which holds its first while it gets others, is a read
ahead and a read one after the other. Because `allocbuf()` waits while it holds
a buffer, as many processes as headers can all be caught in it: instances have
more headers than processes.

### ListenQueue (`kern/uipc_socket2.c`, `kern/uipc_socket.c`, `kern/uipc_syscalls.c`)

One listening TCP socket and what becomes of the connections made to it. `so` is
the memory of the sockets: which are allocated, whether they have a control
block and in which state (`pcb`), `SS_NOFDREF` (`nofdref`), `so_head` (`head`),
and the listener's queues `so_q0` and `so_q` with their counts. `listener` is
the rest of the listening socket; `proc[p]` says where in `accept1()` a process
is and which socket it has taken; `files[p]` are the descriptors it got.

The network delivers a SYN (`SynArrives`: `sonewconn1()` and the passive open),
the ACK of ours (`AckArrives`: `soisconnected()` moves the socket to `so_q` and
wakes), a FIN, or whatever ends a connection (`ConnectionEnds`: `tcp_close()`,
`in_pcbdetach()`, `sofree()`). `TimerDrops` is the KEEP or REXMT timer of a
connection not yet made. All of this is at `splnet()`, so a process in
`accept1()` is cut only where it sleeps: for a connection (`AcceptSleeps`), in
`falloc()` (`AcceptAllocates`, then `AcceptTakes`), and in `m_get(M_WAIT)` with
the socket already off its queue (then `soaccept`). Either of the last two
sleeps can end with no socket to use: another process has accepted the one
there was, or a reset has freed it. `broken` records that, and the model stops:
nothing is said of what the kernel does with such a pointer. `soclose()` of the
listener is a step per turn of its loops, in which nothing else happens
(`SocloseAborts`, `SocloseEnds`).

Three things in the code that the model shows and that are not as one might
expect: a SYN that carries a FIN takes its embryo to `CLOSE_WAIT` without
`soisconnected()`, so that it stays on `so_q0` until it is reset or the listener
closes; `shutdown(SHUT_RD)` of a listener wakes nobody in `accept()`; and
`SocloseAborts` relies on every queued socket having a control block, or its
loops would not end.

Left out: `SO_LINGER` other than zero, non-blocking `accept()`, `select()`,
descriptor passing, other protocols than TCP, `m_get()` at interrupt level.

## 3. Runs

| Run | Instance | What it shows |
|---|---|---|
| `kernlock` | 3 processes, 2 nested reads, 1 nested write, with fairness (1,742 states) | `MutualExclusion`, `CountsAgree`, `SleepsForAReason`, `NoDeadlock`; and `SleepersWake` |
| `sleepqueue` | 2 processes, 2 channels in one bucket; SIGTERM, SIGTSTP, SIGCONT; one process catches SIGCONT, the other holds it (685,378 states) | `QueuesAgree`, `TimeoutsBelong`, `NoSignalLeftBehind`, `StoppedStaysStopped` |
| `sleepqueue_live` | 1 process, default actions, SIGKILL too, with fairness (1,889 states) | `ZeroMeansWakeup`, `TimedSleepEnds`, `KillEndsSleep` |
| `callout` | 3 table entries, 2 keys, delays 0 to 3, softclock up to a tick late, with fairness (68,880 states) | `TableIsKept`, `KeepsPromise` (refinement of `Timers`), `TimersFire` |
| `tcp_receive` | 7 bytes through a 5-byte buffer, segments of 3, at most 3 queued; the peer may overrun, `tcp_output()` may fail; sequence numbers wrap (24,019 states) | `StreamInOrder`, `AcksWhatArrived`, `PromiseFits`, `NoTextAfterFin` |
| `tcp_receive_live` | 4 bytes through 3, a conforming peer, with fairness (226 states) | `StreamArrives` |
| `lockf` | 3 processes and 1 open file, ranges over bytes 0, 1 and "beyond", at most 4 locks, `maxlockdepth` 2 (141,717 states) | `OwnLocksInOrder`, `SleepsForAReason`, `DeadlocksAreFound`, `KeepsPromise` (refinement of `ByteLocks`) |
| `bufcache` | 2 processes, 3 headers with 4 pages, 2 small blocks and a large one that is written (317,648 states up to symmetry) | `OneOwner`, `NoWaiterForgotten`, `PagesAreKept`, `SecondBufferIsLate`, `LastWriteIsKept` |
| `listenqueue` | 2 processes, 3 sockets, `so_qlimit` 1, with fairness (237,343 states) | `QueuesAgree`, `NothingLeaks`, `NoAcceptorForgotten`, `ConnectionsProceed` |
| `tcp_fin_past_window`, `lockf_lost`, `bufcache_twice` | small instances, or those above | three violations, see section 6 |

Why these bounds are enough to be interesting:

* `kernlock`: three processes give a writer, a second writer and a reader, or
  two upgraders and a reader, so that both of `lock_write()`'s loops, the losing
  upgrade and a wakeup of several sleepers happen. The theorems of section 5
  cover the rest.
* `sleepqueue`: two channels in one bucket make `wakeup()` skip a process in the
  middle of its search; two processes give one that sleeps while the other
  stops, continues or wakes it. SIGKILL is left to the smaller run: it
  multiplies the states without touching the queues differently from a signal
  that is not caught.
* `callout`: three entries allow insertion and removal at the head, in the
  middle and at the end, and a full table (the panic). A delay of 3 leaves room
  for two smaller deltas before it.
* `tcp_receive`: the stream is longer than the buffer, so the window closes and
  opens; three segments fit the queue, so one can fill a gap and cover part of
  its neighbours on both sides; `irs = 60` with `SeqSpace = 64` makes the
  numbers wrap in the middle of the stream. The silly-window rule of
  `tcp_output()` would need a buffer of eight bytes or more.
* `lockf`: three owners are needed for a circle that the search must follow over
  two steps; with `maxlockdepth` 1 such circles of sleepers do occur, with 2 none
  does. `p1` asks for ranges that meet its own locks in all six cases; a lock can
  have something left on both sides. The fourth owner uses `flock()`, whose
  locks the search stops at. `MaxLocks` lets every owner have one, or one owner
  three pieces.
* `bufcache`: `getblk()` must grow a buffer with none free and see its block
  entered meanwhile, which takes three blocks, three headers and a page to spare
  (with three pages the second buffer is always stolen again). Headers and
  pages differ as `bufinit()` leaves them when `nbuf` does not divide
  `bufpages`. The large block is the one that is written, because it is the one
  whose buffer grows.

* `listenqueue`: a limit of 1 lets two connections be queued at a time
  (`(3 * Qlimit) / 2 + 1`), on one queue or on both; the third socket is one that
  was accepted or is being taken meanwhile. Two processes find one connection
  between them, sleep in `falloc()` for the same one, and close the listener one
  after the other. The theorems of section 5 cover the rest.

Deadlock is checked everywhere but in the TCP, lock and listen runs: a closed
connection whose data has been read may stop, `LockF` stops when a sleeper is
lost, and `ListenQueue` when everything is closed or `broken`. In `Callout` ticks
go on until a panic of the full
table, in which `hardclock` is no longer enabled; its configuration says so.

## 4. Fairness

* `KernLock`: weak fairness of the step after a wakeup (a runnable process is
  run) and of `lock_done()`; strong fairness of the `lock_done()` that gives up
  the last hold and of `lock_clear_recursive()`: a process that can stop
  recursing and can release again and again does, for no caller in `vm_map.c`
  keeps a map locked for ever. Acquiring is never fair, and `SleepersWake` says
  that a sleeper is made runnable, not that it gets the lock: the lock favours
  nobody, and a writer can be overtaken for ever.
* `SleepQueue`: strong fairness of `cpu_switch(p)` and `Preempt(p)` (priorities
  decay in `schedcpu()`, `roundrobin()` takes the processor away every 100 ms);
  weak fairness of kernel code that is running and of `endtsleep(p)`. No
  fairness of `wakeup()` or of signals: nobody owes them.
* `Callout`: weak fairness of ticks, of the soft interrupt and of the loop in
  `softclock()`.
* `ListenQueue`: weak fairness of a call of `accept1()` that is under way (a
  process that was woken runs, one in `malloc()` gets its memory; nobody has to
  call `accept()`, and nothing has to end its sleep, no signal either), of the timers of connections not yet made (KEEP, REXMT), and of the
  loops of `soclose()`. No fairness of the network nor of closing.
  `ConnectionsProceed` does not rest on the peer: an embryo is completed or timed
  out, and a made connection is accepted while somebody accepts.
* `TcpReceive`: strong fairness of the arrival of the segment the receiver waits
  for (the peer retransmits, and not every copy is lost), weak fairness of the
  reading process and of the fast timer. No fairness of `PRU_SHUTDOWN`.

## 5. Proofs

`KernLockProofs` proves, for any finite set of processes and any bounds, of
`Spec` (that is, of both values of `AnyWriterRecurses`):

* `TypeCorrect`: `Spec => []TypeOK`
* `WriteExcludes`: `Spec => []MutualExclusion`
* `CountsCorrect`: `Spec => []CountsAgree`
* `NoLostWakeup`: `Spec => []SleepsForAReason`
* `DeadlockFree`: `Spec => []NoDeadlock`

The assumptions are those `KernLock` states for its constants: `Proc` is finite,
`NoThread` is no process, the bounds are natural numbers,
`AnyWriterRecurses` is a Boolean.

`MutualExclusion` is not inductive. `lock_done()` tests `read_count`,
`recursion_depth` and `want_upgrade` and asks nobody who he is, so exclusion
after it holds only if those counts tell the truth. The invariant is

    IInv == TypeOK /\ OneOwner /\ WaitersHoldNothing /\ WritersExclude
            /\ OneRecursive /\ ReadsCounted

* `OneOwner`: each of `want_write` and `want_upgrade` is set exactly when there
  is a process that has it, holding or draining, and there is one at most;
* `WaitersHoldNothing`: who waits in a loop holds none of the lock;
* `WritersExclude`: a holder for write excludes other holders and readers;
* `OneRecursive`: `recursion_depth` is the nesting of the recursive holder;
* `ReadsCounted`: `read_count` is the number of tokens, one per read lock held.
  The sum over processes is stated as the cardinality of a set of pairs so that
  the library's theorems on finite sets apply: adding or dropping one read adds
  or removes one pair.

`InitIInv` and `NextIInv`, one step per action of `Next`, give `Inductive`;
`SleepInv` (the sleepers and what they wait for) is then proved on top of it in
`NextSleepInv` and `InductiveSleep`, and the five theorems follow. `NoDeadlock`
follows from the two together: whatever a sleeper waits for has an owner, and an
owner holds the lock or is on its way to it.

`ByteLocksProofs` proves `LocksNeverConflict`, `Spec => []NoConflict`, for any
set of owners and any number of bytes, from no assumption: a granted range is
compatible with every other owner where it lies, and nothing changes elsewhere
(`ChangeIsCompatible`); `NoConflict` is inductive (`NoConflictIsKept`).

`LockFProofs` proves, for any owners, ranges, requests and `maxlockdepth`, of
`Spec`:

* `LockFTypeOK`: `Spec => []TypeOK`
* `LockFOrderKept`: `Spec => []OwnLocksInOrder`
* `LockFNobodyForgotten`: `Spec => []SleepsForAReason`
* `LockFCirclesFound`: `Spec => []DeadlocksAreFound`
* `LockFKeepsPromise`: `Spec => KeepsPromise`, that is, `LockF` implements
  `ByteLocks`
* `LockFNoConflict`: `Spec => []Bytes!NoConflict`, the exclusion `vfs_lockf.c`
  promises

from the assumptions of `LockF`: the owners are finitely many and either
processes or open files (`OwnersDiffer`), the bounds are numbers (`BoundsAreNat`),
and a flock asks for the whole file only (`AsksType`). The invariant is

    IInv == TypeOK /\ Core(locks) /\ Asked(status, request)
            /\ (lost = "no" => Waits(locks, status, request, stale))

* `Core`: one owner's locks are in order (`OwnInOrder`), no lock is in the way of
  another (`NoneInTheWay`), and a flock is for the whole file (`FlocksWhole`);
* `Asked`: whoever is not running is in `lf_setlock()` for a lock it may ask for;
* `Waits`: sleepers and lists of waiters agree (`Sleepers`), an open file that
  sleeps holds no lock (`IdleFlocks`), and there is no short circle (`NoCircle`).

None of the checked invariants is inductive by itself. `DeadlocksAreFound` has to
know that sleepers and lists agree and that a sleeping flock holds nothing. That
holds because a flock gives its shared lock up before it waits for an exclusive
one, and because one that waits for a shared lock can hold none: `NoneInTheWay`
would be false of it and the lock it waits for.

Whatever its case, a call rewrites the list in the same way, `Rewritten(M, l,
from, nw)`: the locks that do not overlap and what is left of those that do, in
the order they came (`from` says from which place), and the new lock at `nw`
between its owner's. `ClearedIs`, `ReplacedIs` and `InsertedIs` show that of
`lf_clearlock()` and of the cases of `lf_setlock()`. They rest on lemmas about
`FlattenSeq`, `RemoveAt` and `FirstOf` (`FlattenSpreads`, `OffListIs`,
`FirstOfIs`) and on `PartsOfOverlap`, what is left around a lock. From `Rewritten`
alone follow the order (`RewrittenOrder`), the exclusion (`RewrittenApart`), who
waits where (`RewrittenWaiters`, `StillBlocked`, `RewrittenWaits`) and which bytes
are held (`RewrittenHeld`), so each of these is shown once and not per case.
`NoNewCircle` is the argument about deadlocks: a circle that a new sleeper `p`
closes consists of processes; among them the search looked for `p`, and what it
finds in `n` steps it also finds in `n + 1`; if it has not found `p` after
`maxlockdepth` steps, the sleepers it does not lead to `p` from are a circle
without `p` that was there before (`SearchFindsCircle`). For the refinement, every
step is one of `Changes`, and each of those is a step of `ByteLocks` or a stutter
(`ChangesAreSteps`).

`BufCacheProofs` proves, for any processes, buffers, blocks and page counts, of
`Spec`:

* `BufCacheTypeOK`: `Spec => []TypeOK`
* `BufCacheOneOwner`: `Spec => []OneOwner`
* `BufCacheNoWaiterForgotten`: `Spec => []NoWaiterForgotten`
* `BufCacheSecondBufferIsLate`: `Spec => []SecondBufferIsLate`
* `BufCacheLastWriteIsKept`: `Spec => []LastWriteIsKept`
* `BufCachePagesAreKept`: `Spec => []PagesAreKept`

from the assumptions of `BufCache`: a block needs one page or two (`SizeOfType`),
each header starts with some (`PagesType`), the bound on writes is a number
(`MaxVersionType`), `NONE` and `"needbuffer"` name no buffer (`NoneIsNew`), and the headers are
finitely many (`HeadersAreFinite`, used for the pages only).
There need not be more headers than processes: that matters for a deadlock only.

The first invariant is about control,

    IInv == TypeOK /\ (\A b : Sound(b)) /\ (\A p : Placed(p)) /\ OneOwns

`Sound` ties a header's list, flags and pages to the driver and its owner
(`B_ASYNC` only while the driver has it; what the driver has without `B_ASYNC`
has a process asleep in `biowait()` for it); `Placed` says, for each place a
process can be at, what it holds and what makes the one it sleeps for wake it.
`OneOwner` alone is not inductive: that `brelse()` of an owner frees nobody
else's buffer needs the sleepers, and that a wakeup is not lost needs the
owners. Each action is brought to one of four lemmas: `BrelseKeeps` (a buffer is
freed), `TakingKeeps` (one is taken, others are sent to the disk or robbed of
their pages), `TransferKeeps` (one goes to the driver), `OtherProcess` and
`OtherBuffer` (what a step leaves alone).

The second is about contents, and rests on the first,

    DInv == (\A b : Clean(b)) /\ (\A p : Wanted(p)) /\ (\A k : Coherent(k))

`Clean`: a buffer in the cache is valid, an error is seen only by who awaited the
transfer, and what the driver has is not delayed; `Wanted`: a process has the
block it asked for; `Coherent(k)`: `k` has one buffer (unless `late`), and, unless
a write of `k` failed, its last version is in it if it is good or marked, and
on the disk if no buffer is marked. One lemma per way a block can change
(`CoherentEntered`, `CoherentChanged`, `CoherentDropped`, `CoherentDone`) and one
for blocks a step does not concern (`CoherentKept`) carry `NextDInv`.

`PagesAreKept`, that the headers together always have the pages they had at
first, is inductive given `IInv`: the pages of all headers are the size of a set
of pairs of a header and a page of it (`PagesOf` in `BufCache`), and `MovedPages`
says that this size stays when pages go from one header to another
(`pagemove()` in `allocbuf()`).

`ListenQueueProofs` proves, for any processes and sockets and any backlog, of
`Spec`:

* `ListenQueueTypeOK`: `Spec => []TypeOK`
* `ListenQueuesAgree`: `Spec => []QueuesAgree`
* `ListenQueueNothingLeaks`: `Spec => []NothingLeaks`
* `NoAcceptorSleepsInVain`: `Spec => []NoAcceptorForgotten`

from the assumptions of `ListenQueue`: `so_qlimit` is a number (`QlimitType`),
somebody has the listener open at first (`SomebodyListens`), and `NONE` is no
socket (`NoneIsNew`). The invariant is

    IInv == TypeOK /\ Queues(so) /\ WithinLimit /\ (\A s : Kept(s))
            /\ (\A p : Placed(p)) /\ ListenerKept

`Queues` is the structure of the two queues alone; `Kept(s)` who refers to a
socket and what it may be queued as; `Placed(p)` that a process in `accept1()`
has the listener open and sleeps for a reason; `ListenerKept` that a listener
nobody has open has no control block and no queues. `QueuesAgree` alone is not
inductive: that a socket `sonewconn1()` allocates is on no queue follows from
`Kept`, and that `sofree()` finds the queue a socket is on from `Queues`. Two
lemmas on sequences without repetitions (`AppendOne`, `RemoveOne`) carry over to
`soqinsque()`, `soqremque()`, `sofree()` and `tcp_close()` (`Inserted`,
`Removed`, `DequeuedOff`, `Freed`, `Closed`), as lemmas on any state of the
sockets; then there is one lemma per action. `EndsKeeps` serves resets, timers
and the loops of `soclose()`.

`SleepQueueProofs` proves, for any processes, channels, buckets, handlers and
masks, of `Spec`:

* `SleepQueueTypeOK`: `Spec => []TypeOK`
* `SleepQueuesAgree`: `Spec => []QueuesAgree`
* `SleepTimeoutsBelong`: `Spec => []TimeoutsBelong`
* `SleepersMissNoSignal`: `Spec => []NoSignalLeftBehind`
* `SleepZeroMeansWakeup`: `Spec => []ZeroMeansWakeup`, if no process catches
  SIGTSTP or SIGCONT (section 6, item 7, says why that is needed)
* `SleepersStayStopped`: `Spec => StoppedStaysStopped`

from the assumptions of `SleepQueue`: `LOOKUP` gives a channel its bucket
(`LookupType`), the handlers and masks are sets of signals (`SigType`), and
`NONE` is no process, channel or signal (`NoneIsNew`). The invariant is

    SleepInv == TypeOK /\ QueueInv /\ \A p : ProcKept(p)

`QueueInv` says that a bucket holds, once each, the processes whose `p_wchan`
hashes to it. `ProcKept(p)` says for each place `p` can be at in `tsleep()` what
its fields may be: `PlaceKept` (`p_stat`, `p_wchan` and the flags fit the place),
`TimeoutKept` (at most one `endtsleep()` is pending, and `P_TIMEOUT` means that it
came), `AnswerKept` (what will be returned fits why the sleep ended),
`SignalsKept` (no pending signal could end an interruptible sleep, except a stop
signal while the process is stopped), and `CauseKept` (a sleep that is over has a
cause, and if that is a signal there is one to return for). None of the checked
invariants is inductive by itself: `NoSignalLeftBehind` needs to know what may be
pending while a process is stopped with its `p_wchan` set, because `SIGCONT` puts
it back to sleep without looking; `TimeoutsBelong` needs that `tsleep()` cancels
the timeout of the sleep `wakeup()` ended, which is a matter of `p_wchan`; and
`QueuesAgree` that who runs is on no queue.

`CalloutProofs` proves, for a table of any size, any delays and any lateness of
`softclock()`, of `Spec`:

* `CalloutTypeOK`: `Spec => []TypeOK`
* `CalloutTableIsKept`: `Spec => []TableIsKept`
* `CalloutKeepsPromise`: `Spec => KeepsPromise`, that is, `Callout` implements
  `Timers`

from the one assumption `BoundsAreNat`. The invariant is

    CInv == TypeOK /\ Lists /\ Noticed /\ InOrder

`Lists`: `calltodo` and `callfree` share the table; `Noticed`: when the first
entry is due, the soft interrupt is pending or `softclock()` is in its loop;
`InOrder`: no entry that is counted (`c_time > 0`) comes before an overdue one,
overdue ones are in the order of their lateness, and all deltas together are at
most `MaxTicks`. A sum of deltas is stated as the number of elements of a set of
pairs (`Ticks` in `Callout`), so that the library's facts on finite sets serve as
its laws. What is left of a timer is a sum up to its place or, when that is
zero, its own lateness; `TickKeeps`, `InsertKeeps` and `RemoveKeeps` say that
`hardclock()` takes one off what is left of every timer, and that an entry put
in or taken out leaves what is left of every other as it was. `TimeoutStep`,
`UntimeoutStep`, `HardclockStep`, `RunsStep` and `OtherStep` keep the invariant
and map each action to `Arm`, `Cancel`, `Tick` and `Fire` of `Timers`, or to a
stutter.

`TcpReceiveProofs` proves, for a stream, buffer, segments and reassembly queue of
any size, a peer that may overrun its window, and a `tcp_output()` that may fail,
of `Spec`:

* `TcpReceiveTypeOK`: `Spec => []TypeOK`
* `TcpStreamInOrder`: `Spec => []StreamInOrder`
* `TcpAcksWhatArrived`: `Spec => []AcksWhatArrived`
* `TcpPromiseFits`: `Spec => []PromiseFits`
* `TcpNoTextAfterFin`: `Spec => NoTextAfterFin`

from the one assumption `SizesFit`: the stream, the buffer and the FIN together
take less than half of the sequence space. Without it `StreamInOrder` is false (a
stream of 18 bytes in a space of 16 is enough): the network of the model delays a
segment for ever, and the code has nothing but the sequence number to tell it
from one of 2^32 bytes later; in reality a segment dies before that, and
timestamps, which are not in the model, serve fast networks. The stream may start
anywhere, so that sequence numbers wrap. The invariant is `TcpInv`, whose
core is `Kept(n, e, cc, g, closed, over, q)` of the places `n` and `e` in the
stream at which `rcv_nxt` and `rcv_adv` stand, and of the other variables:

* what was appended is the bytes `1..Len(g)`, `n` is the next, and after a FIN
  that came in its place the one after the FIN;
* what is unread and what is promised fit the buffer: `cc + (e - n) <= sb_hiwat`;
* `QueueOk(q, low, limit, last)`: each queued segment holds the bytes its header
  says (`Holds`), they do not overlap and are in order, none starts before `low`
  (which is `n + 1` until a FIN was taken), none ends past `limit`, the byte at
  which the buffer is full, and while the peer keeps to its window (`last`) only
  one that ends with the stream has a FIN.

`PromiseFits` is not inductive: that what is presented fits needs the limit of
what is queued, and `limit` is not the edge of the window, which may shrink
behind a FIN or a probe (`WindowIs`). `AcksWhatArrived` needs `low` and `last`.
The proof first goes from sequence numbers to places in the stream: `At(x, a)`
says that `x` is a number of byte `a`, whether reduced or not, and
`AtDifference` that the signed difference of two such numbers is the difference
of the bytes when that is small. Then there is one lemma per operation:
`InsertOk` (the queue with a segment put in), `PresentableIs` and `PresentOk`
(what is presented are consecutive bytes), `ReassOk`, `InSequenceOutcome` and
`ReceivedOk` (the text of a segment), `TrimFrontIs`, `TrimBackIs` and `TrimmedOk`
(trimming to the window), `OutputOk` (what `tcp_output()` may advertise), and on
top of them one per action (`PredictedKeeps`, `DropKeeps`, `AcceptKeeps`,
`ReadKeeps`, `FastTimeoutKeeps`, `ShutdownKeeps`).

Only model-checked: every liveness property (the prover has no rule for
`ENABLED` and fairness).

## 6. Where code and comments disagree

1. `netinet/tcp_input.c:802`. Text past the window is to be dropped "and PUSH
   and FIN" (764-766), but only the local copy of the flags loses the FIN, and
   the one in the header is used (97, 200). A peer that sends past its window
   ends the stream early (`tcp_fin_past_window`). `AcksWhatArrived` says that while
   the peer keeps to its window the stream ends at its FIN.
2. `kern/vfs_lockf.c:341`. A lock that replaces a smaller one takes its waiters
   and leaves their `lf_next` pointing to the freed lock, whose own `lf_block`
   still points to the first of them. "Delete ourselves from the waiting to lock
   list" (247): the first, when interrupted, deletes itself from the freed lock
   and stays, freed, on the list of the new one. "If we did not find ourselves on
   the list [...] then something is very wrong": so it is, for any of them, when
   the freed memory was used again. `lockf_lost` finds either. The search for
   deadlocks follows the same pointer, so a circle through such a waiter can go
   unseen.
3. `kern/vfs_bio.c:552`. `getblk()` is to return the buffer of a block that is in
   the cache, but sleeps in `allocbuf()` between looking and entering its own
   (`bufcache_twice`); `SecondBufferIsLate` shows that this is the only way to
   two buffers for a block.

Five more, found with the same models, for which no run is kept:

4. `kern/uipc_syscalls.c:222`. `accept1()` panics when the first of `so_q` cannot
   be removed, as if it could not happen, but it has looked at `so_qlen` before a
   sleep in `falloc()`; and in line 231 it may sleep in `m_get(M_WAIT)` with a
   socket that a reset frees (`broken` in `ListenQueue`).
5. `netinet/tcp_input.c:730`. "Any valid FIN must be to the left of the window":
   not when a segment whose data is all old carries the FIN for the first time.
   The FIN is taken later, if the peer sends it alone.
6. `netinet/tcp_input.c:524`. The window is computed with an unsigned `max()` of
   a difference that is -1 after a FIN at the edge of the window.
7. `kern/kern_synch.c:277`. "Returns 0 if awakened": it also returns 0 when a
   caught SIGTSTP ended the sleep and a SIGCONT took it back before `tsleep()`
   looked (`ZeroMeansWakeup` fails with `Caught` holding "tstp"; with default
   actions it holds). Callers that test their condition again do not notice.
8. `vm/kern_lock.c:509`. "Allow a process that has a lock for write to acquire
   it recursively": one that got it by an upgrade panics (`AnyWriterRecurses`).
   No caller in `vm_map.c` does this.

## 7. Plan

In this order, most important first; the run count stays small by joining
questions about one component in one run.

1. **Done:** KernLock, SleepQueue, Callout with Timers, TcpReceive, BufCache,
   ListenQueue, and LockF with ByteLocks, all with their proofs.
2. That `KernLock` implements an abstract readers-writer lock, as a step
   simulation from `IInv`.
3. `vflushbuf()` and `v_numoutput` in `BufCache`, and its order of writes against
   `bwrite()`.
4. `TcpConn`: handshake, FIN exchange, the REXMT, PERSIST and 2MSL timers of two
   endpoints, over an abstract connection.
5. `SockBuf`: `sb_lock`, `sbwait`, `soreceive` and `sosend` against the protocol.
6. `IpReass` and `Arp`: fragments with their time to live; the held packet.

## 8. Not modelled, and why

Kernel parts whose state is a large data structure handled sequentially (radix
tree, file system layouts, allocators), protocol families that repeat what TCP
shows (OSI, X.25, XNS), hardware-dependent code and drivers, and everything
outside the kernel. NFS with its request cache and leases and the order of
metadata writes on disk are protocols in their own right and would follow the
socket layer and the buffer cache.
