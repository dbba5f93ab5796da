# os-2024-sos in TLA+

A verification project for the kernel in `src/` of os-2024-sos: a 32-bit x86
teaching operating system with preemptive processes, blocking system calls,
paging, a virtual file system over FAT32, and a shell.  The modules are
translated from the C code; the code's comments and headers were used only to
find out what it was meant to promise.

Paths below are relative to `src/` of the repository.

## 1. The system

### Components

| Part | State | Operations | Modelled by |
| --- | --- | --- | --- |
| Run queue (`kernel/c/process/scheduler.c`) | `current_running`, `queue_front`, `queue_back`, the nodes | `scheduler_add`, `scheduler_remove`, `switch_next`, `scheduler_init` | `RunQueue` (abstract), `LinkedRunQueue` |
| Scheduler (same file) | states, notifiers, the loop of `switch_next_with_notifier` | preempt, block, wake, halt the CPU | `Scheduler` |
| Process life cycle (`process/process.c`) | `process_pids`, PCBs, `active_process_count` | `process_create`, `process_destroy`, sleep | `Scheduler`, `Kernel` |
| Interrupts, system calls (`cpu/interrupt.c`, `asm/intsetup.s`) | the interrupt frame, `syscall_return_value_flag` | the handlers | `Scheduler`, `Kernel` |
| Page frames (`memory/paging.c`) | `page_manager_state`, page directories, CR3 | allocate, free, check, switch | `Paging`, `Kernel` |
| Clock (`driver/time.c`) | `second_elapsed`, the calendar, `handled` | timer and RTC interrupts, `setup_time` | `Scheduler` (seconds only), `Clock`, `Devices` |
| Standard input (`filesystem/dev.c`, `driver/keyboard.c`) | ring buffer, line buffer, foreground list | keys, `stdin_open/close/read` | `Scheduler` (foreground list, whether a line is there), `FileTable` (its list by descriptor), `LineDiscipline` (abstract), `Console` |
| Descriptors and VFS (`process/file_descriptor.c`, `filesystem/vfs.c`, `proc.c`, `dev.c`) | `fd[]` of each process, the file table, mounts | open, close, clean up; stat, dirstat, mkfile, mkdir, delete by path | `FileTable`, `Vfs` |
| FAT32 (`filesystem/fat32.c`) | the FAT in memory and on disk, directories, open files | format, boot, mkfile, mkdir, delete, open, read, write | `Fat32`, `FileTree` (abstract), `Vfs` (as programs see it) |
| Heap (`memory/kmalloc.c`) | the list of blocks | `kmalloc_aligned`, `kfree` | `Heap` |
| Framebuffer (`text/framebuffer.c`) | layers, cursor | put, create and remove layers, write to a layer, scroll, clear, move the cursor | `Screen`, `FileTable` (layers), `Cursor` |
| Terminal (`driver/tty.c`) | escape sequence, line buffer | `fputc`, `fgetc` | `Cursor`, `Console` (not `fgetc`) |
| Boot (`kernel/c/kernel.c`) | | `kernel_setup` | `Devices` (from the wait for the RTC on) |
| Paths (`shared/code/path.c`, `string.c`) | `strtok`'s | `strtok`, `resolve_path`, `split_path` | `Paths` |
| Shell (`program/shell`) | working directory, open files, `find`'s rows | the commands | `Shell` |
| GDT, IDT, port I/O, disk, other programs, image inserter | | | not modelled |

### How they interact

There is one CPU and no kernel thread: kernel code runs only in interrupt
handlers, with interrupts disabled.  A system call, a page fault or the timer
enters `main_interrupt_handler` with the registers of the current process in
`frame`; a handler that switches processes copies `frame` to the context of the
process it leaves and overwrites it with the context of the one it enters, then
returns *normally*, so that the rest of the handler of the first process runs in
the name of the second.  A handler that finds nobody to run enables interrupts
and halts in the middle of the scan, so that timer and keyboard handlers nest in
it.  These two facts are where the hard behaviours come from.

### What is hard

* A second scan started inside the first; a halt while somebody could run; a
  wake-up lost between the test of a predicate and the `hlt`.
* A result written to `frame` after it was replaced by another context.
* A process that dies while it is queued, asleep, reading, or in the foreground
  list; a page directory freed while CR3 points to it.
* A global flag (`syscall_return_value_flag`) set by one system call and read by
  the recall of another.
* Pointers of doubly linked lists (run queue, foreground, heap, layers) after any
  order of operations.
* On the disk: the several writes of one operation with a power failure between
  them; two descriptors of one file; a file deleted while it is open.

* At boot, an interrupt that comes between the test of a flag and the `hlt`.
* An echo of the keyboard's handler in the middle of what a program prints.
* A command of the shell takes many system calls, and another shell makes its own
  between any two: what `VFS_STAT` said is old when `VFS_DIR_STAT` answers, a file is
  deleted while it is copied.

`PROJECT.json` lists each at its line under `hazards`.  Smaller ones are left out there: the
wrap of SLEEP's 32-bit sum, the error path of `process_create` after `vfs.open`
fails, the unlimited line of `tty.c`, ALT ending SHIFT, a write of size 0, `'\0'` on the
base layer, what `open` leaks when the path does not exist, FRAMEBUFFER_PUT_CHARS, whose counter is decremented and incremented
in the same turn, and the free-frame counter, which starts at 32 although two frames
are taken (`CounterErrorIsConstant` is the theorem).

## 2. The modules

Each module names the code it translates in its comments, and `map` in
`PROJECT.json` gives the lines of every definition.  Definitions keep the C names.
Definitions whose comment begins with "Fault:" are wrong variants of the one that
follows; no specification uses them.  They show that a property can tell the code
from a plausible bug (see `mutants`).

### The process path

`RunQueue` is the abstract run queue: a sequence `queue` and the process that holds
the CPU, with `Add`, `Start`, `Switch` and `Leave`.

`LinkedRunQueue` is the list of `scheduler.c` pointer by pointer: `front`, `back`,
`current`, and `next` and `prev` of every node.  A function of the code is an
action, because all of them run with interrupts disabled.  A freed node keeps its
fields, as it does in memory, so a pointer that still led to it would be followed.
The history variable `queue` says what the list should be; `ListIsQueue` compares.

`Scheduler` abstracts the list to a sequence (justified by `LinkedRunQueue`, and
checked again by `RefinesRunQueue`) and adds what decides who runs: the state and
notifier of each process, the timer, the keyboard, the foreground list and the
loop of `switch_next_with_notifier`.  `mode` is the program counter of the kernel:

| `mode` | where the CPU is | what may happen |
| --- | --- | --- |
| `user` | user mode | any system call, page fault, timer, keyboard |
| `scan` | at the head of the do-while | one iteration: `ScanPast`, `ScanHalt`, `Dispatch` |
| `halt` | `hlt` in the loop (scheduler.c) | timer, keyboard |
| `woken` | an interrupt ended the `hlt` | `Resume` (cli), or another interrupt |
| `return` | behind the call, in the handler that made it (`cause`) | `Return` |

`foreground` has the processes whose stdin is open, and `NoPid` for a context that is
nobody's: `cleanup_fd` closes `fd[0..15]` only, so a process that opened stdin as its
17th file leaves its context behind when it dies (`Abandoned`), and so does one that
opens another file then, which overwrites that word (`LoseStdin`).  Where a descriptor
is belongs to `FileTable`; `Scheduler` allows both outcomes at every death.

`prev` is the local variable `prev_pcb`.  That `Return` is a step of its own
matters: EXIT and page faults destroy `prev` only then, while CR3 and `current`
are already those of the next process.

`Paging` has the frames, the counter of free frames, the page directories and CR3.
`Kernel` EXTENDS `Scheduler` and `Paging`: each of its actions is one of
`Scheduler` in conjunction with what the same handler does to page directories and
to the registers.  The register that matters is `eax`, the only one a system call
writes; its values tell only whose it is.  `owed` is the history of what each
process must find there.  `process_create` is here with both its failures (no pid,
no frame).

### Files

`Fat32` is the driver.  `disk` maps a cluster to what it holds (signature, table of
chains, directory table, data), `fat` is the copy in memory, `handle` the
`VFSState` of each descriptor, with the two meanings its `current_cluster` has.
An operation that writes several clusters puts them, in the order of the code, in
`todo`; `WriteClusters` does one, and `Crash` may come between any two.  After a
crash only `disk` is left and `Boot` reads it.  `write_vfs` is one action per turn
of its loop, in four alternatives by what the cluster boundary finds.

`FileTree` is what a user is promised: a partial function from places to entries
that an operation changes in one step.  It has no crash.  `RefinesFileTree` maps
the disk to it (`TreeOnDisk`): a crash in the middle must look like the operation
or like nothing.

`FileTable` has the descriptors of each process (with the word behind `fd[]`, see
below), the file table, the foreground list by file and the layers of the screen.
`get_free_fd_of_current_process` returns the index behind the array when there is
no free one, so that word is part of the state.  `Close` and `Destroy` run the
close functions of each kind of file; files of `/proc` cannot be closed.

`Screen` has the operations on layers as operators on a record, for one cell of
the screen: its cell in every layer's buffer, and what the video memory shows.

`Heap` has the blocks of `kmalloc.c` by address: split, combined and aligned with
the code's arithmetic.  `kmalloc_aligned` does not set `prev` of the block
behind a block it splits.  A `kfree` can then combine with a block that is no
neighbour.  From there the list means nothing; the model records it in `broken` and
stops.  This is reachable, at `HeapSize` 20 by nine calls of `kmalloc` and `kfree`
(`~broken` is not an invariant).  Nothing in the repository says the contrary in
words, so it is listed under `hazards` and not under `findings`.

### Console and clock

`Cursor` has the cursor of `framebuffer.c` and the escape sequences of `tty.c` as
operators on a record: place, hardware place, the sequence that is unfinished, and
how often the screen scrolled.

`Console` EXTENDS it with what the keyboard's handler does to `stdin`: the ring
buffer, the line buffer and the echo, between any two characters a program
prints.  `start` is the history of where on the screen the typed characters begin.
`LineDiscipline` is what a reader may expect: characters are pending until Enter
makes them a line, which is taken in pieces.  `Console` refines it by what its two
buffers spell.

`Clock` is `time.c`: `setup_time` with its `hlt` as a step of its own, so that an
interrupt may come before it; the reading of the RTC register by register in all of its
formats, while it may go on; and the calendar with the widths of its fields.
`Devices` composes them as `kernel_setup` does: keys work during the boot and
may end the `hlt`, everything else begins behind it.

### The shell and what it sees

`Selections` has the elements of a sequence at some of its indices, and of a set in some
order.  `Paths` has `strtok`, `resolve_path`, `split_path` and `combine_path` on texts of symbols,
and what a path means, by which they are judged.  `Vfs` has the files as system calls
show them (`/proc` finds a process by the first number in a name, as `strtoi` does, so `/proc/x1`
is that of 1): a tree for FAT32, `/proc` and `/dev` mounted in it, chosen by the longest
mount path the text begins with, and descriptors with the position, the end and the one
cluster they hold.  A system call is a step (`Scheduler` says why: kernel code is not
interrupted), and the disk below is the business of `Fat32`.

`Shell` has the commands of `shell.c` and `delete.c`, one action per system call:
`sh[p].pc` is where shell `p` is.  Two shells can be at work, because `exec` does not
wait: the second one takes the input over when it opens `/dev/stdin`, and the first
finishes what it was told before.  `delete_recursive` keeps its calls in `work`; `find`
has the rows of `file_list`, with what an aborted `find` left in them (the stack of the
program may or may not still hold it).  `uncleared` has the rows in the stacks of shells
that are no more: a frame is not cleared when it is given to a new process
(`paging_allocate_user_page_frame`), so that `Exec` may start a shell with any of them.  Histories: `quiet` (nobody else changed
anything meanwhile), `before` (the tree when the command began) and `failed` (a write
did not fit).  `wild` ends a behaviour where the code runs into what a model cannot say.

## 3. What is checked

| Run | Size | Shows |
| --- | --- | --- |
| `run_queue` | 5 nodes | all pointers stay consistent, no node leaks, the list is a FIFO queue |
| `scheduler_liveness` | 3 pids, 3 contexts of stdin, 1 interrupt a second, 1 second | Ready processes run, sleepers and foreground readers wake |
| `kernel` | 4 pids, 5 frames, 2 contexts of stdin, 2 interrupts a second, 1 second | nobody lost, no nested scan, `hlt` only if all are blocked, foreground contexts of live processes or of nobody, nobody overtaken, EXIT works unless everyone else is blocked, frames isolated, CR3 never dangles, preemption restores registers |
| `kernel_clobber` | 2 pids, 4 frames | violation: a preempted process finds another's result in eax |
| `kernel_lost_result` | 2 pids, 4 frames | violation: a read returns its system call number |
| `fat32_files` | 5 clusters, 2 descriptors | files are disjoint, nothing leaks, sizes are covered, positions follow the chain; the disk survives crashes in writes and deletions and implements `FileTree` |
| `fat32_mkcrash` | 5 clusters, 2 descriptors | violation: a crash in mkgeneral leads to cluster 0 |
| `fat32_stale` | 5 clusters, 2 descriptors | violation: a stale descriptor gives a directory a size |
| `files` | 2 processes, 2 descriptors each, 3 files | descriptors are exclusive, leaks are known, devices follow files, the top layer shows |
| `heap` | 20 words | blocks tile the heap, pieces have blocks, free blocks are combined |
| `devices` | 2 rows of 3 cells, a ring of 3, 3 seconds | input is a line discipline, the cursor stands behind what is typed, the boot ends, the clock follows the seconds |
| `shell` | 2 shells, 7 clusters; 4 lines of 19, or 5 of 8 | listings fit their arrays, `find` and `del -r` do all of their work and no more, paths are canonical, `mv` keeps the content, commands end |

### Why the bounds are enough

* *Run queue.* Five nodes let a node be the front, the back, the only one, and one
  with two neighbours that are neither.  The theorems hold for any number.
* *Scheduler.* Three processes: the one switched from, one that is passed over and
  one that is chosen; the scan goes all the way around with two of them blocked.
  The counter of interrupts wraps late, so that the first second is longer than those
  after it, and the safety theorems hold for any numbers.  With three contexts one
  of nobody can be above or below those of two readers.
* *Kernel.* Four pids and memory for three processes: EXEC fails for want of
  memory and for want of a pid (the violation runs have memory to spare).  Seconds of
  two interrupts let a scan be entered between them, and a sleeper wait for one; of two
  contexts one can be nobody's.
* *FAT32.* With `ClusterSize` 2 and files up to 3 bytes, a write stays inside a
  cluster, ends at its boundary or crosses it.  Five clusters are two for files: two
  files of one, or one of two, and the second descriptor finds the disk full in the
  middle of a write.  Two slots a directory are enough for names that differ by their
  extension only.
* *Files.* Two descriptors a process and three entries: one process can take two
  and store a third one behind its array, or both can share the table.
* *Heap.* Twenty words with headers of one word and a smallest block of two give
  six small blocks, so that there is one before and one behind a block that is
  split.
* *Devices.* A screen of two rows with three cells is scrolled by the seventh
  character, and erased across its margin; a ring for two characters is full with the
  third.  The dates are those at which something is carried, in all formats of the RTC; in
  three seconds the carries at a minute, an hour and a day have happened.  After the boot
  the terminal and the clock share nothing and are looked at one at a time.
* *Shell.* One of two users types (`MCShell`). For the first four lines are enough to make a file, change the directory, start a second
  shell and run a command against one of the other shell, and for two commands after a
  line that uses up the disk.  The file to copy has five characters, blocks have two
  and clusters four (512 and 2048 in the code): a cluster is filled by two blocks, the
  third goes to the next one and is padded.  Of seven clusters two are free at boot: a copy
  fits, or does not when something else was made.  The write after one that failed, which
  `wild` stands for, does not happen.
* *Shell, the second user.* Four lines are the fewest by which a find meets what an earlier one left: start
  a second shell while the first searches, delete a directory from there, search again in the
  first.  With the fifth the directory is made again as a file in between, so that `ls`, `find`
  and `del -r` come to a file where a directory was; or the first shell is killed, and a third
  started where its stack was.  Such a find and the deletion of the root end in
  `wild`; those that meet rows of directories go on.

Symmetry is used in `fat32_files` (descriptors) and `files` (processes), which have no
liveness properties.  Deadlock is not checked where the model ends by design: in the two FAT32
violation runs, which stop at the violation, in `heap`, which stops at `broken`, in
`devices`, which stops at `MaxElapsed` or where the erase left the ring, and in `shell`,
which stops after the last line or at `wild`.

### Fairness

`FairSpec` assumes weak fairness of `Scan`, `Resume` and `Return`: they are the
kernel's own instructions, and the CPU executes them.  It assumes strong
fairness of `Timer`: interrupts are disabled and enabled again and again, so
the interrupt is not continuously enabled, but the PIT raises it for ever and
the interrupt controller holds it until interrupts are enabled.  Programs
may loop for ever, and nobody needs to press a key.  `ReadersWake` therefore
says only that a line that is there and stays there is delivered.

`ClockFairness` is weak fairness of the instructions of `setup_time` and of the
RTC's interrupt, which comes periodically once it is enabled; no key need be pressed.
It does not make `BootEnds` hold without its exception, and there is one: an interrupt
between the test and the `hlt` is masked and nothing else wakes the CPU.

The specification of `Shell` assumes weak fairness of each shell's `Work`: the scheduler lets
every process that is not blocked run (`ReadyRuns`).  Nobody needs to type a line.

### Abstractions and bounds

* *Scheduler, Kernel.* KILL is called with the pid of a live process, other than
  the caller; EXEC with program files; the target of SLEEP is within the clock's bound;
  a process has at most one open stdin, and there are at most `MAX_FT` contexts; at the clock's bound time stands still and
  timer interrupts go on.
* *Fat32.* Directories are made in the root only.  A descriptor is used for reading
  or for writing, since the two give `current_cluster` different meanings, and is
  not written after a write that failed.  A cluster is written entirely or not at
  all.  `delete_vfs` is called for chains that end (after
  `fat32_mkcrash` they may not, and the code loops).  Data has no value.
  Where a run states what holds *except* for a defect that another run shows, a
  constant leaves that defect out: `CrashPoints` has no `"mk"` in `fat32_files`,
  and `DeleteOpen` is FALSE.  `"format"` is in no run's `CrashPoints`: a disk whose
  format was interrupted has a signature and no table, and nothing can be said of it.
* *FileTable.* Programs close and use descriptors that VFS_OPEN gave them, and
  the table does not fill up: `register_file_table_context` then returns the index behind it.
* *Screen.* One cell; nobody prints `'\0'`.
* *Heap.* Pieces are freed once and by the address that was returned.
* *Console.* An unfinished escape sequence has at most `MaxEscape` characters; GET_CHAR is
  not called; after an erase at index 0 of the ring nothing more is typed.
* *Clock.* At most `MaxElapsed` seconds pass.  `BehindMonths` stands for the word behind
  `day_in_month`, read in December.
* *Shell, Vfs.* Files have no extension: `mkgeneral` looks for a name without its extension,
  so that `mv a.txt a.txt` makes a second `a.txt` and deletes the first.  Names are short
  enough for FAT32, directories and the tables of descriptors never fill up, `file_list` has
  a row for every directory.  The users type every argument a command needs, kill the
  other shell or nobody, execute the shell, and do not open files of `/proc` or `/dev` or
  `touch /`.  A pid is one character and in the range of `process_pids`: a number outside it, for
  which `/proc` reads behind the table, and a path like `/procx`, for which it has no name to look
  for and `strtoi` reads at address 0, are not typed.  What other programs than the shell leave in the memory of a dead process is left
  out.  What is printed is not modelled, nor `ps` and `clear`.  A write
  through a descriptor whose file is gone, the write after one that failed, an entry
  made in a file, VFS_DIR_STAT of a file (whose content `dirstat` of fat32.c takes for a
  table), a list longer than its array, the deletion of an empty root (which frees its
  cluster) and `find` in a tree with a nameless
  directory (which `mkdir /` makes) end the behaviour (`wild`).  `MaxLines` bounds the lines
  other than `exit`.

## 4. What disagrees with the repository's own words

* `kernel_clobber`: `syscall_handler` writes the result through a pointer to the
  frame that was taken before the handler ran.  EXIT and a blocking VFS_READ replace
  that frame, so that a process preempted by the timer resumes with another's eax.
* `kernel_lost_result`: `syscall_return_value_flag` is global.  SLEEP leaves it
  false, and a read that is recalled by a timer interrupt is then not given its
  result.
* `fat32_mkcrash`: `mkgeneral` writes the entry before it marks its cluster used.
  After a crash in between, the entry's chain goes on with 0, and a longer
  write overwrites the signature: the next boot formats the disk.
* `fat32_stale`: `delete_vfs` does not look for open descriptors, and `write_vfs`
  updates the entry by its position.

`findings` in `PROJECT.json` quotes the lines they disagree with.

## 5. What is proved

The theorems hold for every value of the constants under these assumptions only:
`None` is no process and the set of processes is finite (`NoneAssumption`,
`ProcessAssumption`), there is at least one pid (`MaxPidAssumption`), a second has at
least one interrupt (`ClockAssumption`), there is at least one frame besides the
kernel's two (`FrameCountAssumption`), the heap and its headers have a size
(`HeapAssumption`), a process has at least one descriptor (`FileTableAssumption`), the ring
holds a character, the number of contexts is a number (`FileTableAssumption` of
`Scheduler`), what is typed is printable and programs put the cursor at numbers
(`ConsoleAssumption`, `TypedAssumption`), a position on the screen fits into 16 bits
(`CursorAssumption`), the real-time clock shows a date (`StartupAssumption`), the set of
processes is finite and their numbers are symbols that names may have, clusters and blocks
have characters, the lines are those of the shell's commands, and the tree at boot is one
(`VfsAssumption`, `ShellAssumption`; `IsTree` says what that is, and the kernel keeps it), and
a disk has more than the three reserved clusters, which are not empty
(`Fat32Assumption`). The theorems on `Fat32` have two hypotheses besides:
`CrashPoints \subseteq {"delete", "write", "update"}` and `DeleteOpen = FALSE`. Without the
first a power failure in `mkgeneral` or in the formatting leaves a disk that is not sound
(`Fat32_mkcrash` shows it), without the second a descriptor may point into
another file (`Fat32_stale`).

* `ProofLemmas`: what several proofs need. Induction, in a form the provers can use (a
  set of numbers that has 0 and the successors of its members has all); what
  appending, rotating and removing do to a sequence without repetitions, each once,
  by index; prefixes and joined sequences; the larger of two numbers, sets of positions,
  multiples and quotients.
* `LinkedRunQueueProofs`.  The invariant has `TypeOK` and the two invariants of the run
  as its parts; together they are inductive.  `ListIsQueue` is stated for TLC by following pointers,
  which is no form to reason in; two lemmas show it equivalent to `Spells`, by
  which `next` and `prev` of the i-th element are its neighbours.  Each
  of the four actions has a lemma that shows the new pointers spell the new
  sequence, and the refinement of `RunQueue` follows from them.
* `KernelProofs`, the scheduler.  `SafeInv` has the scheduler's state invariants of the run `kernel`,
  `TypeOK` and `StatesAgree` (states, notifiers and what the CPU does).  It is inductive with one
  addition, `PrevIsLive`: the process the scan was called for
  cannot disappear during the scan, or the loop would never meet it again.  `ForegroundIsLive`
  is inductive as it stands because nobody's contexts stay nobody's: a process that is made with the
  pid of a dead one has no context, so it never gets the other's lines under its name.
  `HaltsOnlyIfBlocked` needs more: that the loop visits *everybody*
  between two visits of `prev`.  `ScanIsComplete` says where the processes
  are that it has passed (behind `prev` in the queue) and that all of them are blocked;
  nothing changes that while interrupts are disabled.  The same
  fact gives `ExitFailsOnlyIfAlone`.  The refinement of `RunQueue` and
  `NoOvertaking` are step lemmas on top of `SafeInv`.
* `KernelProofs`, the rest.  A step of the kernel is a step of the scheduler, so every theorem
  on it holds of the kernel.  `MemoryInv` adds to `SafeInv` that the
  directories are those of live processes and that CR3 is the one of `current`
  (of `prev`, while the scan runs), which is live.  `RegisterInv` says what
  each saved context holds and gives `PreemptionIsTransparent`. Before that,
  allocation and release are shown to preserve the invariant of frames (`FrameInv`), with
  the cardinalities of the counter.
* `Fat32Proofs`.  An operation changes the table in memory at once and the disk in up to
  three writes. `DiskInv` therefore speaks of `After(k)`, the disk after the
  next k writes: the last of them is sound and has the table in memory, and those where the power
  may fail are sound, too. Then a write shifts k, a crash stops at k = 0, and each
  operation shows once that the disks it leads through are sound. `Sound` is three
  things: the tables show a tree of entries whose chains have different heads, the links
  of the table are injective and every used cluster is on a chain or lost, and every
  file is covered by its chain. A chain is not counted there but characterised (`Owns`: the
  cluster is in every set that has the head and is closed under the links), so that appending,
  freeing and making can be reasoned about without induction; lemmas derive from that
  what `Chain` and `EndsInEOF` of the model compute. For descriptors the invariant tells apart
  the two meanings of `current_cluster`, `IsBuffer` for a writer's and `IsAhead`
  for a reader's; both survive a table that keeps the chain and makes it longer (`Keeps`).
  That `Fat32` implements `FileTree` is an invariant, too (`DisksTidy`): each of the writes
  to come leads from the tree of one disk to the same tree or, by *one* operation
  of `FileTree`, to another (`TreeStep`). A write of an entry is such an operation, a write
  of the table of chains or of file data changes nothing that the tree shows, and a directory's table
  shows nothing before its entry is written. The place of an entry is found
  by its directory's cluster, so the proof needs that different entries have different
  heads, on *every* disk there is, also in the middle of `mkgeneral` (`Tidy`).
* `HeapProofs`.  `HeapInv` has three layers, as the code breaks them: the list's blocks
  lie in the heap (always), they tile it and hold the pieces (until `prev` was followed
  wrongly), neighbours know each other and are combined (until `kmalloc_aligned`
  inserted a block without setting `prev`).
* `FileTableProofs`.  `FileInv` is about the descriptors (`TableInv`, with the word
  behind `fd[]`) and about the devices (`WorldInv`: foreground list, layers and video memory).
  That the loop of `cleanup_fd` closes every descriptor of its process and no other is an
  induction over the loop, each turn of which preserves the part of `WorldInv` that one call of `close` may assume.
* `DevicesProofs`.  Three invariants of one specification.  `ClockInv`: every number of
  seconds has *one* set of digits (days, hours, minutes, seconds), by which `Later`, with its
  divisions, and the carries of `time.c` can be compared; and BCD and the twelve-hour
  registers are decoded to what was encoded, but for the hour of 12.
  `ConsoleInv`: what waits in the ring is read by index (`WaitingPlace`), and each key
  changes it as the discipline says; that is `RefinesLineDiscipline`. `EchoInv` adds where
  the cursor stands when nothing is typed; rows times the width are the only products in it.
* `ShellProofs` begins with what `Paths` and `Vfs` compute, for texts and trees of any size.
  `strtok` finds the names that were joined (`WordsOfText`).  The stack of `resolve_path`
  holds, after n words, where the names begin that no ".." took away so far (`HasLeft`), which
  is what `Meaning` says of all of them: an induction over n (`ResolvePathIsMeaning`).
  `VFS_STAT` and `VFS_DIR_STAT` count the same entries in each of the three
  file systems (`ListingLength`); the mounts are counted by index, and the directory of a
  canonical path has the mounts whose `dirname` is the same text.  The reads and writes
  of a descriptor stay within a file and keep the tree a tree (`WrittenIsTree`).  The
  invariant `Inv` of the shells has `TypeOK`, what each shell has at its stage
  (`Sound`: open files, rows, items of work, only the first of which may be a
  listing), and that the entry `VFS_STAT` wrote is what it would write now (`Informed`), while
  `quiet`.  A step of another shell keeps that because it either leaves tree and
  processes alone or ends `quiet`; `Elsewhere` states this once.  `MoveInv`
  says how far `mv` is: the source, the descriptor of it and the cluster in that
  descriptor's buffer agree with what the command began with; the copy ends where
  it is written next, and it and the buffer of its descriptor agree with the source up to
  where that was read; between a read and a write so does the block, whose rest is junk only
  at the end of the source.  It is inductive for any sizes of block and cluster and gives
  `MoveKeepsContent`.  `ListingsFit` follows from `Informed` and `ListingLength` where the entry is that
  of a directory; that it is one is an invariant of its own for `ls` (`LsInv`), of
  `del -r` (`DeleteInv`) and of `find`, whose rows are directories unless some were
  left by an earlier one (`FindInv`, `TurnDirectories`).  `FindIsComplete` needs two things.  One is about the files as they are:
  a listing has every child of the directory once, mounts included, and says which are
  directories (`ListsAll`, proved by file system in `ListingComplete`).  The other, `FindInv`, is
  about the rows of `find`: every file or directory of the name is found or below a row, and
  unless it began with rows an earlier find left every row is a directory, no row is below another
  and nothing that was found is below a row.  A turn of the loop (`Turn`) takes a row `d` away and adds its directories:
  a name below `d` is a child of `d` or below a child that has others in it, which is listed as a
  directory (`NodesAreClosed`), and what is new is below `d`, where nothing else was.
  `DeletesExactlyBelow` has the invariant `DeleteInv` over the work of `del -r`: of the tree it
  began with only what lies at or below its argument is gone (`Removes`), every item of
  work is at or below it too (`WorkBelow`), what is still there is covered by an item
  (`CoversAll`), and no item lies below an earlier one, nor above one unless it only deletes
  (`InOrder`).  The call of an item replaces it by items for the same files in such an order
  (`Replaces`, `ReplacedWork`); because of the order nothing is below a directory when
  its turn comes to be deleted (`NothingBelow`), so VFS_DELETE cannot fail, and when no work is
  left neither is anything to cover.  The paths are those `delete_recursive` joins, "//x" for
  what is in the root: they mean the same and reach the same file system (`AddressedHandler`).

Some proved invariants are not run by TLC any more: `StatesAgree`, `CounterCountsKernel`,
`MemoryIsLive` and the `TypeOK` of `LinkedRunQueue` and `Scheduler`.

Only model-checked: the liveness properties (fairness is beyond the prover), and of course
the violations.

## 6. Plan

In the order of importance.

1. `GET_CHAR` in `Kernel`, the third way to wait; and `/proc` with process control
   blocks that die while their files are open.
2. *FAT32*: directories in directories, cluster by cluster; and `Vfs` shown to be what
   `Fat32` implements.

### Not modelled

The disk driver and port I/O (straight-line code that polls registers), the descriptor
tables and the saving of registers in assembly (data), what the boot does before the
wait for the RTC (sequential, before there is a process), `clock` and `ping` (the
kernel's models allow any sequence of their calls), `unmount` (never called), and the
tools that build the disk image on the host (`helper/`).
