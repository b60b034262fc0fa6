# Verification of Yabause for the Wii

Yabause emulates a Sega Saturn: two SH-2 processors, a sound block, two video
processors, a CD block and the controllers between them. This directory holds
TLA+ models of parts of it, TLC configurations that check them on small
instances, and proofs of the most important results for every instance.

Everything here is translated from the code under `src/src`. `PROJECT.json` maps
each definition to the lines it stands for.

## 1. Inventory

The emulator is one process. `YabauseEmulate` (`yabause.c`) runs slices of the
processors and calls each chip's `Exec` in between; chips call each other
directly, raise interrupts through the SCU, and share memory. Only the sound
chip may run in a thread of its own, and on the Wii the audio DMA calls back
from an interrupt.

| Component | Code | State | What is hard about it |
|---|---|---|---|
| CD block: buffer and transfers | `cs2.c` | 200 blocks, 24 partitions, count of free blocks, full condition, transfer position | three actors (drive, directory commands, host) change the same arrays; positions taken at the start of a transfer and used at its end; two records of what is free |
| CD block: filters | `cs2.c` | 24 filters, connections, last destination | filters are programmed in parts, chained, and tried in a loop |
| CD block: commands and playing | `cs2.c` | registers, `_command`, status, FAD, repetition | host and drive share four registers; periods fall anywhere in a command; plays must end |
| CD block: save and load | `cs2.c` | everything above | pointers rebuilt from numbers that are not kept with them |
| CD images | `cdbase.c`, `cd-*.c` | files, devices | input and output |
| SCU: interrupts, timers | `scu.c` | mask, status, queue of 30, timer 0 | masked interrupts are queued and the status is a second record of them; a mask write hands over one; timer 0 is compared for equality |
| SCU: DMA, DSP | `scu.c` | registers, DSP memory | synchronous |
| SH-2: interrupts, timers, DMA | `sh2core.c`, `sh2int.c` | queue of 50, on-chip registers | duplicates are merged; timers set flags and raise interrupts |
| SMPC | `smpc.c`, `peripheral.c` | command, timer, INTBACK state, registers | the command is read when the timer ends; continue and break race with it |
| SCSP with a thread | `scsp2.c`, `thr-*.c` | clocks, write buffer, pending interrupt, ring of CD audio | real concurrency: sleep and wake, a one-entry buffer, a flag cleared after it is read, a ring without a lock |
| Wii sound output | `wii/sndwii.c` | ring of 12 blocks | a DMA callback moves one end of the ring |
| Main loop | `yabause.c` | slices, lines, cycle counters | order of the calls above; lines tested for equality with marks that move; a clock change in the middle of a frame |
| SH-2, 68000, DSP instructions | `sh2int.c`, `sh2_dynarec`, `c68k`, `q68` | registers, memory | data, not control |
| VDP1, VDP2: registers, timing | `vdp1.c`, `vdp2.c` | `TVSTAT`, line of V-blank | the program moves V-blank while lines are counted |
| Rendering | `vidsoft.c`, `vidogl.c`, `ygl.c`, `titan` | video memory | data, not control |
| Memory map, BIOS, cartridges, modem, movies, cheats | `memory.c`, `bios.c`, `cs0.c`, `netlink.c`, `movie.c`, `cheat.c` | | sequential, input and output |
| Front ends | `wii/`, `gtk/`, `qt/`, `windows/`, `psp/`, ... | | user interface |

How they interact, where it matters: the host (code running on an SH-2, through
`memory.c`) reads and writes the CD block's registers and data port, and SCU DMA
reads the data port in bursts (`Cs2RapidCopyT1/T2`); `Cs2Exec` is called once per
slice; the drive passes each sector to the filters and the filters to a
partition; audio sectors go to the sound chip; SMPC, SCU, sound chip and video
raise interrupts through `SendInterrupt` to `SH2SendInterrupt`; SMPC starts and
stops the slave processor and the 68000.

What makes each correct:

* buffer: no block has two owners, none is lost, the count of free blocks is
  right, the drive stalls only when it must, and a transfer reads and deletes
  what was asked for;
* filters: a sector goes where the conditions say, and the loop ends;
* commands: an answer belongs to the command given last and is not overwritten;
  plays end after the passes that were asked for;
* interrupts: one that was raised is kept until it is taken, none is made up, the
  highest goes first, an NMI is always taken;
* frames: one V-blank at its line, timer 0 counts lines;
* SMPC: a command's timer ends and SF is clear then; INTBACK returns all the
  peripheral data once and in order;
* sound thread: every register write has taken effect when its call returns, the
  thread is not using the chip while the main thread does, its clock keeps up and
  never passes its target, no wait hangs, no request is made up, shutting down
  ends, and every CD audio sample is played once, as it was stored.

## 2. Modules

| Module | Models |
|---|---|
| `CdPartitions` | abstract: what the CD block promises about partitions |
| `CdBuffer` | blocks, partitions, transfers |
| `CdFilter` | filters and the filter loop |
| `CdCommand` | abstract: what the CD block promises about commands |
| `CdDrive` | the register protocol, `Cs2Exec`, playing |
| `ScspThread` | the sound chip's thread and the main thread that talks to it |
| `CddaRing` | the ring of CD audio between the CD block and the sound thread |
| `ScuInterrupts` | the interrupt queues of the SCU and of the master SH-2 |
| `Smpc` | the steps of the system manager |
| `Frame` | the main loop with V-blank, timer 0 and, composed from `Smpc`, the system manager |
| `MCCdBuffer`, `MCCdFilter`, `MCCdDrive`, `MCScspThread`, `MCCddaRing`, `MCScuInterrupts`, `MCFrame` | values for TLC |
| `CdBuffer_proofs`, `CdPartitions_proofs`, `CdFilter_proofs`, `CdDrive_proofs`, `ScspThread_proofs`, `CddaRing_proofs`, `ScuInterrupts_proofs`, `Frame_proofs` | theorems |

The three models of the CD block cut one component along the state its parts share. `CdFilter`
hands `CdBuffer` a partition: there, `ReadFilteredSector` chooses any. `CdBuffer`
hands `CdDrive` the number of free blocks: there, `ReleaseBlock` stands for every
deletion, and a sector read takes a block or none. `CdDrive` hands the other two
the moments at which commands run: `Cs2Exec` executes a command and ends a period
one after the other, so commands and sectors are atomic with respect to each
other, and both other modules interleave them freely.

### CdPartitions and CdBuffer

A block is an index; `size[b]` is -1 when it is free. `slot[p]` is the whole
pointer array of a partition and `numblocks[p]` the number of live ones, as in
`partition_struct`. The array behind the live slots is kept because it is not
always NULL: a directory command frees the block of the sector it pushed and
leaves the pointer (`PushPop`). Each command is one action with everything it
does, `Cs2SortBlocks` and the flags included. A word of a transfer is one action
(`Cs2ReadLong`). A burst is the call (`Cs2RapidCopy`), each turn of its loop, which
copies what is left of one sector or less (`CopySector`, with the arithmetic of
`Chunk`), and what follows the loop (`EndRapidCopy`); nothing else runs in between
(`burst`). `hostxfer` is not in the code: it is the host's own knowledge that it has
opened a transfer and not ended it. `asked` and `start` are not either: they keep
what a burst was called with and from where, so that `RapidCopyAsReads` can compare
its end with as many single words (`AfterWords`).

Assumed of the host, because the code does not check it: it asks for sectors the
partition has (`SectorsThere`); it ends the transfers it opened; it does not
delete or reset the partition it is reading from (`MayRelease`); selector numbers
are below 24. `HostResetsAll` says whether it uses the reset of all partitions,
which does not restore `blockfreespace`: `FreeCount` and `StallsOnlyWhenFull` are
stated for hosts that do not. `DirReadFails` says whether the drive may fail to
read a directory sector, which leaks a block: `NoLeak` is stated without.

`CdPartitions` is the promise: each partition is a queue of blocks, no block is
in two places, sectors are added at the end, consecutive ones are taken out, and
nothing else moves. `CdBuffer` implements it (`QueuesSpec`) under the mapping of
`Queue`: the queue of a partition is the first `numblocks` pointers of its array,
and a block is taken when its size is not -1. A deletion is one removal, whatever
`Cs2SortBlocks` has to move; storing is one addition, although what stands at
`block[numblocks]` before may be a stale pointer; the push and pop of a directory
sector is no step at all, and one that fails takes a block and adds nothing
(`Lose`). The full condition and the count of free blocks do not show there.

### CdFilter

A filter is a record; masks and values of a byte are sets of bits, so that
`x & mask != val` is an intersection. A step of `FilterData` is one iteration of
the loop, with the verdict carried along as in the code. Connectors are set one
by one or both, and circles of false connectors are not refused: the code does not
refuse them. Most sectors leave a circle all the same, because its filters may
accept them, and because a filter that reverses its tests makes a false verdict true
and true false on every turn. `FilteringEnds` says exactly when the loop ends: always,
except when the verdict is false and the false connectors lead past no filter that
turns it (`Caught`). Then the loop never ends, and the emulator hangs.

### CdCommand and CdDrive

`host` is where the host is in the protocol: it clears CMOK, writes CR1 (which
sets `_command`), writes CR4 (which arms the execution), waits for CMOK, reads
CR1 and CR4 (which clears `_command`), or leaves the answer unread. CR2 and CR3
go with CR4. A call of `Cs2Exec` is `Cs2Execute`, when a command is due, followed
by `EndOfExec`, which may be the end of a period. Which call ends a period depends on
the cycle counter; the model allows any. `peri` is the report flag in the status.
`passes` and `before` are not in the code: how often a play has been repeated since
its start, and what `repcnt` was then, which some starts do not reset
(`cs2.c:2719`). A play that goes on from an earlier count is repeated less often,
and `PassCount` says how often.

A read of a sector may fail at any FAD (`ReadNothing`); the code leaves FAD alone and
tries again at the next period, without bound (`cs2.c:932`). `PlayFinishes` says what
follows if reads of the disc succeed again and again (`SF(DiscRead)`): it is an
assumption about the drive, part of the property and not of `Spec`. A buffer that is
full stops the play only if it stays full.

`CdCommand` is the promise: free, request, answer. `CdDrive` implements it under
the mapping of `Channel`: the registers hold a request from the write of CR4
until CMOK is raised and an answer until CR4 is read.

Only commands whose handlers differ in what they do to the state of this module
are in `Command`: all those of which only the answer matters behave as
`getStatus`. Commands the code does not know are never answered; the host gives
none.

### ScspThread

`main` and `thread` are the places where the two threads are; each step reads or
writes one shared variable. The shared variables are volatile, so the compiler
keeps their order; that the processor does too is assumed (it holds for one core,
as on the Wii, and for x86). The loops of `ScspWrite*`, `ScspExec` and
`ScspSyncThread` are `CheckWait` and `WakeThread`, with `why` saying which. The
thread sleeps in two steps, so that a wake-up can come in between and is lost:
that is what `pause()` does, and what the condition variable of `thr-wii.c` does
too, because `YabThreadWake` signals it without the mutex. `main = "direct"` is
the time in which the main thread works on the sound chip itself.

`applied` and `unserved` are not in the code. They record what became of the
write in the buffer, and whether a request was raised since the handler was last
called. `NoSpuriousRequest` says that none is made up; the converse, that none is
lost, fails (section 3). What an execution does to the chip is left out, except that it may raise
requests. One call of `ScspExec` adds less than 2^12 cycles, because the fraction
has 20 of 32 bits; `MaxStep` is that bound. That the thread can be started is
assumed: without it everything runs on the main thread.

### CddaRing

`in` and `out` are `cdda_next_in` (a sector) and `cdda_next_out` (here in units of
a stereo sample instead of bytes). The CD block's side is the main thread:
`Receive` looks for room and begins the copy, `CopyUnit` copies, `Publish` moves
`in`. The sound thread's side is one call of `ScspGenerateAudio` after another;
each read of `in` is a step of its own. `fresh` is not in the code: it holds the
cells whose unit was stored and not played. `filled` is not in the code either:
it records that the last sector was stored with the reader at 0. The test for
room compares `out` with the end of that sector, which is the size of the ring
and not 0, so `in` wraps to 0, meets `out`, and three full sectors look like none.
`Intact` and `BufferedIsPlayed` promise nothing from then until the next reset. Nor is every sector played that the drive delivers:
without room it is discarded, as the log says.

### ScuInterrupts

A queue is a sequence of vector and level; mask and status bit of an SCU
interrupt follow from its vector. The code appends and then sorts with two
nested loops, which do not keep the order of equal levels. `Sorted` says what
becomes of an already sorted queue, and an ASSUME of `MCScuInterrupts` compares it
with the loops themselves on every queue of up to six entries. A write of a mask
and what it hands over is one action. `HandleInterrupts` is the beginning of a
slice of the SH-2; `SetI` stands for the instructions that load SR. On-chip
modules are their vectors with any level the program can give them, 0 included.

`due` and `credit` are not in the code: which interrupts were raised and not
taken since, and how often, up to the number of queues a vector can be in. A
reset clears both; a change of the clock gives up what the SCU held. Writes of
IST clear bits and leave the queue, so an interrupt that the program acknowledged
there is handed over later all the same: `NothingLost` and `StatusIsQueued` say
what holds, the converse of the latter does not.

### Smpc and Frame

`Pass` is one turn of the loop in `YabauseEmulate`: the slice is counted, at the
last but one H-blank begins, at the last the line is counted and V-blank begins
or ends, then `SmpcExec` runs. What the program writes in its part of the slice
are actions of their own between two passes. `Smpc` has no specification: its
steps are composed in `Frame`, because `SmpcINTBACKEnd` is called by the loop at
V-blank-IN and CKCHG resets lines, video and SCU at the end of a pass.

Timer values that are not positive are one value, 0. The bytes of the ports are
numbers, in the order in which they were fetched; `stream` is the history of
those that were returned. `PortSize` is below the size of the register bank
because `PerAddPeripheral` cannot make a larger port; the copy of a larger one
would repeat its beginning (`smpc.c:393`). `steady` and `timed` are histories: the
program has not moved the line of V-blank over the current line in this frame,
and has had timer 0 on with the same compare value since V-blank-OUT.

What the model also shows: a break, or V-blank-IN, between a continue and its
response leaves the timer running, and when it ends INTBACK begins a new session,
whose first response is the rest of the last one; and two ports that fill the
bank exactly are followed by a response without data.

Fairness. `WF(FilterData)`: the loop runs to its end inside one call.
`WF(Cs2Execute)`: the main loop calls `Cs2Exec` again and again, and the timer of
a command is shorter than any slice. `SF(EndOfExec /\ Period)`: every call adds to
the cycle counter, so periods end again and again, and between two commands there
are calls without one; the strong form is needed because `executing` disables
`EndOfExec` for no longer than one call. Nothing is assumed of the host, and of the
drive only what `PlayFinishes` states itself.
`WF(MainStep)` and `WF(ThreadStep)`: the scheduler runs both threads, the loops
of the main thread yield, and executing a slice or a write ends. Raising requests
and beginning calls are under no fairness. `WF(SoundThread)`: the sound thread
generates as long as the emulation runs. `WF(HandleInterrupts)`: every slice of
the master begins with it. `WF(MainLoop)`: the loop goes on and the front end calls
it again. Nothing is assumed of what programs write, nor that interrupts come.

## 3. Runs

| Run | Checks | Instance |
|---|---|---|
| `cd_buffer` | types, transfers stay in range, no block is lost, partition sizes, deletion at the end of a transfer, refinement of `CdPartitions`, bursts as reads | 1 partition, 3 blocks of two words, bursts of 0, 1 and 3 words |
| `cd_buffer_two` | ownership, count of free blocks, full condition | 2 partitions, 2 blocks, failing directory reads |
| `cd_filter` | types, ranges do not wrap, reported destination, decision of the first filter, when the loop ends | 2 filters, with circles |
| `cd_drive` | types, registers, refinement of `CdCommand`, number of passes, plays end | 2 tracks of a sector, 3 plays, 2 files, a buffer of 2 sectors |
| `scsp_thread` | types, exclusive access, lag of the clock, synchronous writes, requests, waits end | clocks modulo 8, slices of 3, calls that add up to 2, 2 writes |
| `cdda_ring` | types, every sample played once as stored, what is stored gets played | 3 sectors of two units, calls for 1 or 3 |
| `scu_interrupts` | types, nothing lost, nothing made up, status, priority, NMI | 3 sources behind 2 mask bits, one on-chip vector, NMI |
| `frame` | types, V-blank, timer 0 | 3 slices, 4 or 5 lines, V-blank at 2, 3 or never |
| `smpc` | order of the data, timers end | bank of 4, ports of 1 or 3 bytes, 2 slices, 2 lines |
| `cd_buffer_sector_offset`, `cd_drive_track_end`, `scsp_deinit` | violated, see below | as above |

Bounds. Three blocks are enough for a partition to be empty, full, and to have a
front, a middle and an end, so that positions and holes differ; two words per
sector tell "in the middle of a sector" from "at its end". A burst of three words
ends in the middle of a sector or begins there, and goes over one or two ends of
sectors and over the end of a transfer; one of none may find the deletion due. `PartitionBound` caps
the sum of sizes, which grows without end when transfers are ended early; the
drive stops storing there. `FreeModulus` is 4 in the first instance, so that the count really
wraps after the full reset. Two partitions with two blocks are the smallest
instance in which a block can change its owner while a stale pointer to it
remains. Two filters make a chain, and a circle of one or two; the conditions, modes and sectors are chosen
so that each test passes with one and fails with the other, and so that a range
begins where another ends. The disc has a FAD before it (0), behind it (3 to 6)
and the wrap of the 32-bit sum (`Modulus` 7, a file of 6 sectors), and `RepeatCap` is 1 with plays of
0, 1 and 2 repetitions, so the cap is reached and passed. Two blocks let a play store
a sector and go on before the buffer is full, and store again once the host has
emptied it; the kept position is also a start that leaves `repcnt` alone. The clocks of the sound
chip wrap at 8; a lag of 5 takes two slices, as a lag above `SCSP_CLOCK_MAX_EXEC`
does, and 5 is above 3, so that `ScspExec` has to wait. Two writes are enough to
see the second applied for the first. Three sectors are what the code has and
the least it allows; a call for 3 units goes over the end of a sector and over
the end of the ring, and a delay of 2 is longer than a call for 1. Two sources of
one level with another below them are the smallest queue on which the exchange
sort changes the order of equals, and two of them share a mask bit as the
external interrupts do. Lines 4 and 5 end frames before, at and after every mark:
V-blank at 6 never comes, compare value 6 is never reached. Two ports of 3 bytes
need two responses, 1 and 3 fill the bank exactly, 1 and 1 fit; times are in
passes of 10, so that CKCHG, continue and peripheral data take one, two or more. Deadlock is not checked there: the system
does stop, as `scsp_deinit` shows.

What the violated runs show:

* `ReadsRequestedSectors`: reads start at the first sector of the partition
  whatever offset was asked for; the deletion does use the offset.
* `TrackPlayFinishes`: the end of the last track is computed from an empty TOC
  entry, so a play to the end of the last track does not end.
* `DeInitEnds`: `ScspDeInit` clears `scsp_thread_running`, wakes the thread once
  and joins it. If the thread has tested the variable and is about to sleep, it
  misses both and the join does not return. All the other waits wake it in a loop
  (`WaitsEnd`).

Other disagreements with comments, which the passing properties are stated
around:

* A burst of the last words of a get-then-delete transfer deletes the sectors;
  reads of the same words do not until one more read (`cs2.c:442`). The comment at
  `cs2.c:409` says a burst is as many reads; of the position, it is
  (`RapidCopyAsReads`).
* The verdict of a filter carries over to the one behind its false connector,
  which then accepts nothing unless it reverses (`cs2.c:2802`), so
  `FirstFilterDecides` is about the first of a chain.
* `scsp_main_interrupt_pending` is cleared after the handler is called, and a
  request raised in between goes with it (`scsp2.c:1401`).
* "Make sure we have room for the new sector first" (`scsp2.c:1893`) does not when
  the last sector of the ring is stored with the reader at offset 0:
  `cdda_next_in` becomes 0 too, and three sectors of sound look like none. The test
  misses it because the end of that sector is the size of the ring and not 0.

## 4. Proofs

All constants are arbitrary within the named assumptions. The argument is the
same in each module: types first, then an invariant that is inductive, then the
property.

* `CdBuffer_proofs`: `TypeCorrect`, `BlocksAreOwned`, `TransfersInRange`,
  `FreeSpaceIsCounted`, `DriveStallsWhenFull`, `SizeCovers`, `EndDeletesAll`. The heart is what `Cs2SortBlocks`
  does to an array: it is monotone on the non-NULL entries and
  keeps each of them once, shown from `Rank` as a counting function. `Ownership`
  alone is not inductive for `TransferInRange`, which needs that the host releases
  no partition it reads; `FreeCount` needs ownership, because a block that two
  slots hold would be counted twice when both are freed. `FreeSpaceIsCounted` and
  `DriveStallsWhenFull` assume a host without the full reset.
  `SizeCovers` and `EndDeletesAll` assume that all sectors in the buffer have one
  length of w long words at every moment (`[]SectorsOf(w)`, for every w above 0).
  The lengths the code can store are all multiples of 4. With mixed lengths
  neither holds: a transfer reads, and counts the bytes of, the first sectors of
  the partition, which need not be those it deletes (section 3). Their invariant
  (`SizeInv`) has to count what an open transfer has read, since its end takes
  that off the size: whole sectors, words of the current one, and none of a next
  one at the end. TLC agreed on it for w of 1 and 2 before it was proved.
  That an open transfer is inside its sector (`InSector`) is what keeps the bytes a
  turn of a burst copies positive, in this invariant and already in the types.
  `BytesOfOneLength` shows by the smallest counterexample that the sum over a set
  of slots, a recursive function, is length times number.
* `CdPartitions_proofs`: `PartitionsAreQueues`, `OrderIsKept`, `NoBlockIsLost`. Every action of `CdBuffer` is mapped to an addition, a removal,
  a loss, a clear or a stutter; that needs ownership (a block that is removed from
  one queue must not be in another) and, of `Cs2SortBlocks`, where each live
  pointer comes from (`FreeRangeMoves`). The next two theorems are then about
  queues: the order of sequences is kept by `Without` and `Append`, and a block
  leaves the taken ones only with its entry. `NoBlockIsLost` assumes that
  `DirReadFails` is FALSE; the others assume nothing. No run checks `OrderPreserved`
  by itself: it follows from `QueuesSpec`, which `cd_buffer` checks with one
  partition, where three blocks give an order to keep. Several partitions, and
  failing directory sectors, were checked once with the constants of
  `cd_buffer_two` and are part of the theorem.
* `CdFilter_proofs`: `TypeCorrect`, `RangesFit`, `DestinationIsReported`,
  `FirstFilterIsRight`. `RangesFit` is inductive once each filter's range is known
  to be either 24 bits or the reset value with FAD 0.
* `CdDrive_proofs`: `RegistersAreTheHosts`, `ChannelImplemented`,
  `PassesAreCounted`, `TypeCorrect`. `RegistersBelong` is stated for every phase of the host and
  is inductive as it stands; the refinement follows step by step from it.
  `PassesAreCounted` needs that `passes` is what `repcnt` has grown by since `before`,
  up to the cap, and that neither has passed `maxrepeat`, unless it began above.
  `TypeCorrect` needs that no entry of the TOC is 0 (the frame before it ends a
  play) and that no sector is read at the FAD of a failed seek.
* `ScspThread_proofs`: `TypeCorrect`, `AccessIsExclusive`, `ThreadKeepsUp`,
  `WritesAreSynchronous`, `RequestsAreReal`. `Exclusive` is not inductive: it
  follows from where the write under way can be (`WriteInv`), and from the slice
  being positive and no longer than the lag (`LagBounded`), which is 0 exactly when
  the clocks agree. Sums and differences modulo `Modulus` are turned into cases
  first (`Sum`, `Difference`); the rest is linear.

* `CddaRing_proofs`: `TypeCorrect`, `RingIsIntact`. The invariant says exactly which
  cells are fresh: those from the reader to the writer, around the end when the
  reader is ahead. It needs that the room found by `Receive` lasts until `Publish`,
  because the reader can only move away from the sector. Products of sector and
  size are dealt with in two lemmas.
* `ScuInterrupts_proofs`: `TypeCorrect`, `InterruptsAreKept`, `InterruptsAreReal`,
  `StatusBitsAreReal`, `HighestFirstHolds`, `QueuesFit`. All rest on `QueuesOrdered`
  (both queues ascending and without duplicates), which is inductive because
  `Sorted` is a permutation of the queue and the new entry that ascends: shown from
  where each position's entry comes from.
* `Frame_proofs`: `TypeCorrect`, `VBlankCorrect`, `Timer0Correct`, `DataReturned`. The
  four parts of the invariant are inductive one by one: what the ports still hold
  is what `stream` lacks of what was fetched, and H-blank lies between the count of
  timer 0 and that of the line, so that they differ by one in the last slice.

Only model-checked: everything under fairness (`PlayFinishes`, `FilteringEnds`,
`WaitsEnd`, `BufferedIsPlayed`, `NMITaken`, `TimerEnds` and the liveness part of
`ChannelSpec`), because the prover has no rule for fairness; and `RapidCopyAsReads`,
because it compares the loop with a recursive function of the number of words. Every
other property of a passing run is a theorem.

## 5. Not modelled

Contents of sectors and directory records; information transfers (TOC, file
information); put, copy and move of sectors (stubs in the code); MPEG card,
authentication; lengths of periods; a drive without a disc or with an open tray;
save states. Of the sound chip: registers read by the main
thread while the sound thread runs, and everything that makes sound. Of the SH-2:
the on-chip registers, timers and DMA, and the slave's queue. Of the SMPC: direct
port access and the contents of registers. The main loop without decilines. Of the rest of the emulator, what section 1 marks as data: the
instruction sets, rendering, front ends. 
Most of the repository is of that kind: of some 250,000 lines, the larger part is
instruction sets (three times, with two code generators), drawing (three times),
front ends for nine platforms and tables of fonts and menus. The mapped lines
are the part in which order and timing decide.

Two parts were read and left out because there is nothing right to state about
them:

* The save state of the CD block (`cs2.c:3688`) rebuilds each partition's pointers
  from `blocknum`, which `Cs2SortBlocks` does not compact with `block`, and does not
  restore `datatranspartition`: after deletions a load differs from what was saved.
* The ring of `wii/sndwii.c`. The position of a sample within a block is scaled
  from 44100 to 48000 Hz and used as an index of bytes; a call that
  spans two blocks is written on from the first; `SNDWiiGetAudioSpace` reads
  `soundpos` twice, so a DMA callback in between makes the difference negative;
  and equal positions are taken for a full ring although they are also an empty
  one. The emulator writes what space it is told, so the ring overruns.

Also seen: `Vdp2RestoreRegs` accepts line 270 of an array of 270 (`vdp2.c:286`).

## 6. Plan

1. The SH-2's free-running timer and watchdog, composed with `ScuInterrupts`: flags
   that are cleared by a write after a read, compare and overflow in one step.
2. The slave's queue, and the commands of the SMPC that start and stop it.
3. `CdState`: save and load of the CD block's buffer, on top of `CdBuffer`.
4. Composition of the CD block's modules with `ScuInterrupts` and `CddaRing`.
5. Proofs: `ScspThread` implements register writes that take effect at once, and
   `CddaRing` a bounded queue of samples as long as the last sector is not stored
   with the reader at 0, in the way `CdBuffer` implements `CdPartitions`.
