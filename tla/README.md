# TLA+ models of Modus

Modus is a self-hosting Common Lisp system. Its compiler, collector, network
stack and library are written in the Lisp it compiles, and one source tree
builds Linux and macOS processes as well as bare-metal images. Around it stands
a set of Python programs that build it from itself, judge the result and bring
it to a board. This directory models two parts of this:

* the runtime, where several threads, or several computations on one thread,
  share state without a kernel object between them: the futex mutex, the actor
  scheduler of a hosted process and the mailboxes of its actors;
* the Python programs, each of which draws a conclusion (this build is right,
  this board runs that image) from what another machine, running at its own
  pace, happened to have done or printed by then.

Paths are relative to the repository's `src/`. Every definition that models
code is listed, with the lines it stands for, in `PROJECT.json` under `map`.

| Module | What it is |
| --- | --- |
| `FutexMutex` | the three-state mutex of `net/hosted-sync.lisp` |
| `MCFutexMutex`, `FutexMutex*.cfg` | its instances |
| `FutexMutexProofs` | mutual exclusion and who can strand a waiter, for every set of threads |
| `ActorRuntime` | the M:N actor scheduler of `net/hosted-actor-runtime.lisp` |
| `MCActorRuntime`, `ActorRuntime_*.cfg` | its instances |
| `ActorRuntimeProofs` | typing, stacks, run queue, mailboxes and the wake word, for every instance |
| `ActorMemoryProofs` | the collector's scan entries, thread windows, cells and main's wake, for every instance |
| `ActorMailbox` | the abstract mailbox: FIFO with selective receive |
| `ActorStaging` | one actor's staging area, decode and deferred list, shown to implement it |
| `MCActorStaging`, `ActorStaging*.cfg` | its instances |
| `ActorStagingProofs` | its safety and the refinement, for any messages, sizes and area |
| `ArchLadder` | `scripts/arch-ladder.py`: a rung graded by reading guest memory |
| `ArchLadderProofs` | its verdict is about the guest's answer, for every radix, magic and answer |
| `HostedLadder` | `scripts/hosted-ladder.py`: the rungs on the hosted ports, with a control |
| `NativeDiff` | `scripts/fndiff.py`, `scripts/reloproof.py`: two builds compared |
| `Uki` | `scripts/make-uki.py`: sections added to an EFI image |
| `MCTools` | these four composed |
| `ToolsProofs` | the hosted ladder's verdict and the UKI layout, for every instance |
| `Deploy` | `devices/pi-zero-2-w/deploy-kernel.py` and the UART loader |
| `Netboot` | `scripts/netboot-core-gz.py`, `docs/reel-on-zero/zlinux/netboot-linux.py` and U-Boot |
| `BoardVideo` | `docs/reel-on-zero/board-video.py`, on top of `Netboot` |
| `SelfHost` | `scripts/self-host-gen1.py` |
| `SerialPush` | `scripts/push-serial.py` |
| `CoreSave` | `docs/reel-on-zero/qsave.py` and `qcore.py` |
| `MCBoard` | these six composed |
| `MCScripts`, `MCScripts.cfg` | all ten in one instance |
| `BoardProofs` | deploy, netboot and board session, for every instance |
| `ReplProofs` | form push, self-host build and core save, for every instance |

## 1. Inventory of the system

### Hosted synchronisation (`net/hosted-sync.lisp`, `net/sb-thread-shim.lisp`)

* **Futex mutex.** State: one word, 0 free, 1 held, 2 held with possible
  waiters. Operations: `%mutex-lock` (XCHG 1; on failure a loop of XCHG 2 and
  `FUTEX_WAIT` on 2 for at most 20 ms), `%mutex-trylock` (one XCHG 1),
  `%mutex-unlock` (XCHG 0, a wake if the word was 2). Hard: every exchange
  overwrites the word unconditionally. Correct when at most one thread is inside
  and a parked thread is always owed a wake.
* **Condition variables.** State: a 32-bit sequence word. `%cond-wait` reads it
  under the mutex, unlocks and waits on that value; `%cond-signal` and
  `%cond-broadcast` bump it. Hard: signals without the mutex, wrap-around, the
  timed wait against a late signal. Correct when a signal after the read ends
  the wait.
* **sb-thread shim.** Thread objects, mutexes with owners, semaphores, condition
  queues, timed joins, built on the two above. Hard: a timeout racing a grant,
  interruption of a holder.
* **Runtime lock and lock arena.** A recursive lock (owner, depth) around the
  shared structures of the runtime; entering it also moves allocation into a
  shared arena region and leaving restores the caller's. Hard: nested entries
  while the region is being restored.
* **Native thread table.** Slots with a thread id, a pending entry and an
  acknowledgement the spawner waits for. Hard: an acknowledgement after the
  spawner gave up, double joins, reuse of a slot.
* **Stop-the-world handshake.** A stop flag, per-thread parked and safe-region
  words; part of it is emitted by the translators. Correct when the collector
  never runs beside a thread that is outside a safe region, and threads resume.

### Hosted actor runtime (`net/hosted-actor-runtime.lisp`, `net/actors.lisp`)

* **Scheduler.** State: the run queue linked through the actor structs, one spin
  lock, per-thread current actor, a context save area per actor and per thread,
  the shared wake word, the stop flag. Operations: the loop `%ar-sched-run`,
  dispatch, hand-back, `actors-start`, `actors-stop`. Correct when two threads
  never stand on one actor's stack, every ready actor is queued once and a ready
  actor is picked up.
* **Actors.** Spawn, yield, exit, link, receive with and without a timeout. An
  actor blocks inside the lock and is made ready by a post or by its deadline.
* **Messages.** Encoded by the sender into the recipient's staging area, with a
  mailbox cell from a shared pool holding the offset; decoded by the recipient
  outside the lock. Correct when the bytes are still there, the order is kept
  and space and cells come back.
* **Main thread.** Actor 1. It is not scheduled: it sleeps on a wake word of its
  own and sends from its own loop.
* **Collector interface.** A parked actor's stack is covered by a scan entry, a
  running one by its thread. Correct when no live actor is uncovered.

### Python tools

* **Answer ladders** (`scripts/arch-ladder.py`, `scripts/hosted-ladder.py`).
  State: where the script is, the emulator, the dump or the printed word, the
  control's and the cells' outcomes, the exit status. The guest writes its
  answer and then a magic word, byte by byte; the dump is taken after a fixed
  settling time. Hard: the dump at any instant, short and missing files,
  exceptions inside a pool. Correct when the exit status is about the guest's
  answer and only a control that ran licenses a grade.
* **Native comparison** (`scripts/fndiff.py`, `scripts/reloproof.py`). State:
  two symbol maps and two code files. Hard: call pads and alignment between
  functions, several definitions of one name, four-byte windows guessed around a
  difference. Correct when the verdict
  on bytes is true of what was compiled.
* **UKI sections** (`scripts/make-uki.py`). Correct when the file it writes can
  be loaded and it refuses only for want of room.
* **Kernel deploy** (`devices/pi-zero-2-w/deploy-kernel.py`). A handshake with
  a loader (ready line, magic byte, acknowledgement), the image, an 8-bit sum.
  Hard: a stale ready line, a loader that gave up, a damaged line.
* **Netboot** (`scripts/netboot-core-gz.py`,
  `docs/reel-on-zero/zlinux/netboot-linux.py`). Typed U-Boot commands, each
  judged by the text seen within a window; tries and aborts. Hard: a transfer
  that outlives its window, a marker seen late, RAM that survives the reset.
* **Board session** (`docs/reel-on-zero/board-video.py`). Netboot, tagged
  queries on the serial REPL, forms over SSH with three attempts each. Hard:
  late answers, forms that run twice.
* **Self-host build** (`scripts/self-host-gen1.py`), **form push**
  (`scripts/push-serial.py`), **core save** (`docs/reel-on-zero/qsave.py`,
  `qcore.py`). Each reads text from a pipe or a line in pieces of any length and
  goes on when a wait runs out. Hard: numbers cut by a read, prompts that come
  late.

### Around them

* **Bare-metal threads** (`net/bare-threads.lisp`): coroutine slots per core.
  **Cooperative atomics**: single-threaded stand-ins. **Main jobs**
  (`net/main-jobs.lisp`): closures handed to the main thread, with results.
* **Channels** (`net/modus-channel.lisp`): framed messages between processes.
* **TCP/IP** (`net/ip.lisp`, `net/tcp-conns.lisp`, `net/net-service.lisp`): a
  polled stack with a connection table, retransmission, a service loop shared
  between users. **SSH and isolated sessions** use it.
* **Saved images** (`lib/save-image.lisp`) and the **cabinet file system**
  (`lib/cabinet-fs.lisp`): the persistent state.
* **Collector** (`mvm/gc.lisp`), **compiler and translators**, **Common Lisp
  library**, **drivers**, **cryptography**, **boot and hosts**: sequential,
  register-level or numeric code.

The complete list, with the status of each and the reason where a part is left
out, is in `PROJECT.json` under `components`; what can go wrong and a test would
hardly reach, each at its line, is there under `hazards`.

### How they interact

The scheduler threads of the actor runtime are native threads; they park with
the same futex calls as the mutex. The runtime supplies the functions that
`net/actors.lisp` calls (`wake-idle-ap`, the context block addresses), and uses
that file's run queue, cell pool and `mailbox-enqueue-and-wake`. The spin lock
is passed through a context switch: the thread that takes it to leave an actor
releases it inside `RESTORE-CONTEXT`, once it stands on the other stack. The
collector stops all threads through safe regions and reads the scan entries the
runtime maintains.

The Python tools meet at files and lines: `fndiff.py` and `reloproof.py` read
what the build's `write-symmap` (`mvm/cross.lisp`) wrote, `board-video.py` runs
`netboot-core-gz.py` and drives the board it started, and that script starts
the core which `qsave.py` or `qcore.py` saved.

## 2. The models and the code

### FutexMutex

One action per atomic step: each XCHG, the kernel's compare-and-park, its wake,
the expiry of the timeout and the counter `%futex-timeout-bump` increments.
`word` is the mutex word, `pc[t]` where thread `t` stands. The counter is
abstracted to whether it is non-zero. `UsesTrylock` says whether any caller uses
`%mutex-trylock` (through the shim's `grab-mutex` with `:waitp nil` or a
timeout), `TimeoutNet` whether the park has a timespec: both occur.

### ActorRuntime

A thread is a scheduler loop (`pc`) that may be running an actor (`cur`), on
some stack (`stack`; `None` is its own) with FS at some window (`window`). What a
computation is doing is kept per actor (`at`), because it survives being moved
from one thread to another.

* A section under the spin lock that releases it itself is one action with the
  guard `lock = Nobody`. A section that ends in `restore-context` (dispatch,
  yield, block, exit) keeps the lock; `RestoreStack` and `RestoreRelease` are
  the two steps of the context switch, in the order in which
  `mvm/translate-x64.lisp` emits them for `+op-restore-ctx+`.
* `SchedTop` .. `SchedIdleTimeout` are `%ar-sched-run` in order: stop check,
  save the context, put FS back, stop check again, XCHG(wake, 0), expire
  deadlines and dispatch or go idle, all under the lock, then `FUTEX_WAIT` on 0
  bounded by the earliest deadline seen.
* `Yield`, `ReceiveBlock` and `ActorExit` end in `HandBack`. A blocked actor
  resumes at the top of the receive loop, a yielding one at `YieldResumed`,
  which clears the scan entry.
* `Post` is `%ar-post` with `mailbox-enqueue-and-wake`; `WakeIdle` and
  `WakeIdleAll` are the two steps of `wake-idle-ap`; `WakeMain` and
  `WakeMainAll` those of waking main. `PostRefused` covers an exhausted cell
  pool and a staging area without room. Because space only comes back when
  nothing is outstanding, any area in use may refuse.
* `SpawnRefused` is a spawn whose store into the shared function table is
  refused by the shared-store guard while the lock is held.
* Time is abstracted to whether the deadline of the receive in progress lies
  ahead or has passed (`due`); `deadline` is the word other threads see.

Abstracted: message contents and bytes (ActorStaging), the region switch and
window contents, the 10 s after which a send gives up (it may, any time it was
refused), and what an unhandled error prints. A message that does not decode ends
the actor (`ActorEnds`) or, in main and in an actor that handles the error, only the
receive (`TakeFails`); either way its staging bytes stay counted (`kept`). `Link`
takes any two ids, the caller's or not, as the code does.

### ActorStaging and ActorMailbox

`area`, `write` and `out` are the bytes and the two header words of a staging
area, `queue` the offsets in the mailbox cells. A message of n bytes is encoded
as n distinguishable bytes, so that overwriting any of them is visible; decoding
reads one byte per step outside the lock. `deferred` holds what
`actors-receive-if` set aside. A message of `Undecodable` is one whose decode
signals: it leaves `%ar-take` before the count of outstanding messages is lowered
(`DecodeFails`), and `failed` counts these. `Reuse` is the slot being claimed again.

`ActorMailbox` is the promise: a sequence from which a receive takes the first
message and a selective receive the first matching one. `IsMailbox` is that
specification under the mapping box <- the messages set aside, then the one in
hand, then those queued, each read from the staging bytes. `Capacity` bounds the
messages waiting at once.

### The Python tools

In each module the script is one sequential process, one action per wait or
call that another machine's steps can fall into, and the machine it drives is a
second one. Where that machine runs code of the repository its actions are
translated from it: the serial REPL from `lib/serial-repl.lisp`, the board's SSH
server from `net/ssh.lisp` and the overrides in `mvm/build-cl-repl-common.lisp`, the
core's restore and the end of a save from the same file and
`lib/save-image.lisp`, the layout of a build from `mvm/cross.lisp` and the
translators. What is not in the repository is marked external in the map: QEMU,
U-Boot, the UART loader, the UART, and the guest that runs `(build-image)`. Time
limits are actions that may be taken as long as the wait lasts: an answer may be
later than any limit.

* `ArchLadder`: `GuestStore` performs the eight byte stores of `payload` in
  order (`store32`, with a radix for 256); `ArchDump` takes the region at any
  instant and reads any prefix of it, since `qmp()` takes the next line for the
  reply. `word` and `Verdict` are `int.from_bytes` and the grading.
* `HostedLadder`: `run_cell` gives the cells that may follow a cell, in the two
  subprocesses it waits for; `CellStarts` is the pool; `PoolRaises` and
  `PoolUnwinds` an exception that leaves `pool.map` while other cells run.
* `NativeDiff`: a build is a list of functions, each with its required arguments
  before `&rest` and a list of instructions: direct calls, loads of a function's
  address, and bytes that refer to nothing. `native` lays them out as
  `mvm/translate-x64.lisp` and `mvm/translate-aarch64.lisp` do: before each
  function a call pad of 16 bytes, which is what direct calls enter and which
  says how many arguments come before `&rest`; then the body and its alignment;
  the runtime code last. `write_symmap` gives one row per function, from its entry
  to the next row's, so that a row ends in the next function's call pad; on
  x86-64 the entries are by name and the last definition's stands for all, on
  aarch64 they are by definition. `load`, `strip_pad`, `fndiff` and `reloproof` are
  the scripts on the resulting bytes.
* `Uki`: the section table, one action per new section; sizes and alignments
  are constants.
* `Deploy`: `dpIn` is what the board has printed, `dpWire` what is on its way to
  it; `LineFault` damages or drops a byte of the image.
* `Netboot`: a script is a list of stages (`PlainPlan`, `CorePlan`,
  `LinuxPlan`); a region of memory is old, part, whole or zero; `nbOut` holds
  the markers printed and not yet read.
* `BoardVideo`: `rpQueue` and `rpOut` are the serial REPL, `bdForm` the form the
  SSH server evaluates, for a client that may have gone. It answers an error as
  it answers a value. `sq`, `run` and what follows each
  (`AfterSerial`, `AfterRun`) are the script's functions.
* `SelfHost`, `SerialPush`, `CoreSave`: text is a sequence of characters, or of
  markers and digits where only the number of digits matters; a read takes what
  is there. In `SelfHost` the file has a state of its own (none, an earlier run's,
  part, whole) and QEMU writes it at its own pace; what `recv` returns is not
  looked at, so the script ends with status 0 whatever is at the path.
  In `SerialPush` a file is a list of pieces, a top-level form with
  the white space and comments around it, and a form a list of words:
  parentheses, atoms, white space, comments, strings. That is Lisp text as its
  reader takes it; `FileText` is its characters, and `Scan` is one turn of the
  loop of `forms` on them. The words exclude what the script does not promise to
  read: `#\(`, block comments, and atoms or strings at the top level. Runs of white
  space inside a string are excluded too, since the script shortens them.

Left out: progress messages, temporary files, the recording of a clip and the
fixed lists of forms some scripts type.

## 3. Runs

Passing runs, with deadlock checked only where the threads cannot all stop: a
runtime in which every actor waits for mail, or that was stopped, is quiet.

| Run | Instance | Shows |
| --- | --- | --- |
| `mutex` | 4 threads, trylock, timeout | exclusion; the word is 0 exactly while nobody holds; only a trylock strands a parked thread; waiting leads to somebody holding; no deadlock |
| `actors_mn` | 2 schedulers, 2 actors, a stop | stacks, run queue, mail, scan entries, cells, windows; never all schedulers asleep beside a queued actor |
| `actors_main` | 2 schedulers, 1 actor, main receives, links any two ids, gets messages that do not decode | main is owed a wake |
| `actors_live` | 2 schedulers, 1 actor, timed and untimed receives | mail ends a receive; a deadline ends a receive |
| `staging` | 4 kinds of messages, 5 bytes, 3 waiting, one kind that does not decode | bytes intact; space comes back until a decode fails; FIFO with selective receive |
| `scripts` | radix 4, 5 answers; 2 architectures, 2 rungs; 161 builds in pairs; 960 PE images with payloads; one fault on the line, two tries of each loop, two clips, files of up to three forms, sizes of 7 and 3 digits | a graded answer is the guest's; exit 0 means graded under a control that ran; the comparison's verdicts are true of what was compiled; a written UKI loads; only whole, checked images are started; a logged answer is the one asked for; counts and cores say what happened; every script ends |

Violations, each a disagreement between the code and what it says of itself
(`findings` quotes the lines):

| Run | Shows |
| --- | --- |
| `mutex_trylock` | a failed trylock writes 1 over 2 and the next unlock wakes nobody; the comment's argument for "no waiter sleeps against a word that will not be woken" leaves trylock out. Only the 20 ms net recovers it (`mutex`) |
| `actors_spawn_closure` | a refused spawn leaves the scheduler lock held |
| `actors_pool_leak` | reusing a slot drops the cells of its unread mail; the pool can run empty with every mailbox empty |
| `actors_lost_stop` | a scheduler between its second stop check and XCHG(wake, 0) never hears of the stop |
| `actors_lost_wake` | the wake word is one for all schedulers: the XCHG(wake, 0) of one erases the wake meant for the other, which sleeps beside a queued actor with nobody on the way; the comment's argument is for one scheduler |
| `staging_kept` | after one message that does not decode the area is never rewound again, although nothing in it is unread |

Observations without a run of their own, each found by TLC or while modelling:

* The wake word does promise less: until `actors-stop` the schedulers never all
  sleep beside an actor that could run (`NotAllAsleep`). The one whose XCHG erased
  the wake looks at the queue next. What the other loses is parallelism, until the
  next post or hand-back.
* An idle scheduler that found no deadline sleeps without a limit while an actor
  on the other one publishes one. The other scheduler, which that actor hands
  its thread back to, sees it, so timed receives still return
  (`TimedReceiveReturns`).
* FS leaves an actor's window only after the lock is released, so for a moment
  two threads share one; `WindowOverlapIsTransient` states what does hold.
* `deploy-kernel.py` stops at RDY and may read its newline for the
  acknowledgement (a good loader is given up); it ends with status 0 when the
  loader answered ER or nothing.
* `netboot-core-gz.py` starts the image after `ok=False`, with part of a core
  behind a valid magic word; `board-video.py` then looks for CORE-RESTORED only.
* `board-video.py` ignores the answers of its two re-link queries, so a lost or
  late line leaves a session with a core that was never re-linked. The board's
  `rh-load` answers a failed fetch too, and line 92 tests for no answer only: the
  clip before, or the page of an HTTP error, is then recorded under the new name.
  `PlaysTheAskedClip` says so and excepts exactly the clips whose load failed.
* `self-host-gen1.py` reads the digits of the size with at most five reads and
  gives up at the first tenth of a second without output; a size cut there is
  saved as a success. Its QMP exchange (lines 73-80) looks at nothing that `recv`
  returns: after an error reply, an event that came first or a QEMU that is gone
  it kills QEMU and exits 0 with part of an image, or an earlier run's at the
  default path. Status 0 therefore says that the guest built (`SuccessMeansBuilt`)
  and nothing of the file. An exception in the exchange leaves QEMU running.
* `qsave.py` takes `CORE-END=` with one digit for the whole number; `qcore.py`
  waits for the character after it, but takes a cut number when its wait ends.
  It then adds the core's base to it: line 46 says that `CORE-END` is sometimes a byte
  count, but `%core-close` always prints an address, and a number below the
  base is one that was cut.
* `reloproof.py` looks for functions at the targets of the references it decodes. A
  direct call lands on its callee's call pad, 16 bytes before the callee's row, so
  a moved direct call is never proved and only loaded addresses are, against lines
  5-9 of its header; on aarch64 it knows no reference at all.
* `fndiff.py` compares the n-th definition of a name with the n-th. On aarch64,
  where one build has a definition more, it exits 0 although callers now get
  another; on x86-64 the bytes of a definition that was replaced are charged to
  the row before it, or to none when it is the first. Since a row ends in the next
  function's call pad, or in the runtime code, `strip_pad` finds no padding to
  strip, and a changed `&rest` pad is reported of the function before.
* `make-uki.py` refuses every image with a section that has no data in the file,
  whose PointerToRawData is 0.
* `push-serial.py` takes any `>` that ends what it has read for the prompt: one in
  the echo of a form, one at the end of a value, the prompt of a form that the REPL
  was still at when the script came. Each makes it count one form too many, and no
  more than one (`CountedWereEvaluated`).

### Bounds

Two schedulers are the least with which anything can happen to an actor on
another thread, and the properties of the scheduler relate two threads; two
actors let one be posted to while the other is switched, and become ready one
after the other. Mailboxes of one
message and a pool of two cells make refusals, exhaustion and reuse happen.
`MainOps` and `ActorOps` choose which calls the program makes, so that each
run asks one question: every call occurs in some run. In `staging`, five bytes
hold the longest message and one other, so that an area fills, is partly read
and refuses; messages of length 1, 2 and 3 leave every gap. Schedulers, and the
mutex's threads, are symmetric in the runs without liveness.

In `scripts`, a byte of the ladders has four values and the answers are chosen for
what can go wrong with them: zero, which is also the cleared memory, one and two
non-zero bytes, a negative one and one wider than the word. The proofs remove the
bound. Builds have up to three functions, enough for a moved callee between two
users and for three definitions of one name, one of which is replaced; one body is
longer than the 16 bytes functions are aligned to, so that what follows moves.
`FnAlign`, 16, is the alignment of functions and the length of a call pad. The PE
images have tables that
end before, at and behind where two more rows would reach. Two tries
are enough for an answer to the first to arrive during the second; a second
fault on the line could cancel the first in a sum of eight bits, and
`LoaderStartsWhatWasSent` is stated for one. `Strays`, 2, bounds the `>` the REPL
prints that are no prompts, `UpRounds` and `Probes` the rounds of two long waits.
The scripts of one run do not act at
the same time (`board-video.py` and the netboot script it waits for excepted): a
behaviour is one invocation.

### Fairness

* `FutexMutex`: a thread that has started to lock or unlock goes on (weak
  fairness of its steps), and a critical section ends. Nobody need start one.
* `ActorRuntime`: native threads are scheduled by the kernel, and `spin-lock`
  retries until it gets the lock, which no holder keeps for ever: a step that is
  enabled again and again is taken (strong fairness of each scheduler's and each
  computation's steps). Time passes. An actor's function goes on making calls
  that give its thread back, since scheduling is cooperative and a loop without
  one would starve everybody by design. Main owes nothing.
* `MCScripts`: the scripts' own steps are weakly fair, since each of their waits
  ends at a time limit, and so are those of the hosted ladder with its
  subprocesses, which end by themselves or by their timeouts. Nothing is assumed
  of the board, QEMU or the line.

## 4. Proofs

TLAPS proves the following for every value of the constants. The assumptions
say that the constants have their types and that thread names are distinct. Three
say a little more: `MagicAssumption`, that the ladder's magic has a top byte that
is not zero; `DeployAssumption`, that what the old program prints is made of the
texts the script tells apart; and `UkiFilesAssumption`, that the PE files given to
`make-uki.py` could be loaded before (sections inside the file, apart from each
other). TLC evaluates all of them in the runs.

**FutexMutexProofs.**
`MutexExcludes`: `Spec => [](TypeOK /\ MutualExclusion)`, for any set of
threads, with or without trylock and timeouts. Exclusion is not inductive by
itself: a thread whose XCHG reads 0 becomes the holder, so one must know that
the word is 0 only while there is none. `ExclusionInv` adds `WordTracksHolder`
and is inductive; `MutexTyped` and `WordTellsHolder` state its other two parts.
`LockUnlockNeverStrands`: `~UsesTrylock` implies `Spec => []NoStrandedWaiter`.
The step lemma needs the exclusion invariant; with trylock the statement is
false (`mutex_trylock`). `OnlyTrylocksStrand` says of every caller where: the one
step after which a parked thread may be owed nothing is the exchange of a trylock.

**ActorRuntimeProofs.**
`RuntimeTyped`: `Spec => []TypeOK`. The typing says more than types: mailboxes
stay within their bound, the cell pool is never overdrawn, the run queue and
the stacks never hold the main thread's id. It is inductive only together with
`MainStaysMain`: main is never blocked, ready or dead, stays on its own thread
and at its own program points, so that a post to it never queues it.

`StacksAreExclusive`, `QueueIsExact` and `NobodySleepsOnMail` come from one
inductive invariant, `SafeInv`:

* `SwitchHoldsLock`: a thread in a context switch holds the lock, so at most
  one is;
* `PlaceTellsStack`: a thread that executes an actor stands on its stack, one in
  the loop on its own, and one in a switch on the old or the new stack according
  to the step;
* `CurrentRuns`: a current actor is running, and current on one thread only;
* `LeftBehind`: a thread in a hand-back stands on the stack of an actor that no
  other thread has made current yet, since that takes the lock;
* `Queues`: `RunQueueExact` and `NoSleepOnMail`, which need each other: a post
  queues its recipient because it is blocked, and a blocked actor is not in the
  queue.

The argument is the one the source makes in prose ("off the old stack first,
then release"): an actor becomes dispatchable under the lock, and the thread
that made it so keeps the lock until it has left the stack. The proof has one
lemma per group of actions (`QuietSafe` for those that touch none of this,
`DispatchSafe`, `PostSafe`, `LeaveSafe`, `SpawnSafe`, ...) and lemmas on
sequences without repetition (`AppendOnce`, `ConcatOnce`, `TailOnce`) and on the
enumeration of expired actors (`EnumerationFacts`).

`SchedulersDoNotAllSleep`: with any number of schedulers and actors, whatever is
called, `NotAllAsleep` holds, provided there is a scheduler at all. `AwakeInv`: while
all schedulers are past their look at the queue (`AtRest`: idle or parked) and the
queue is not empty, a wake word of 0 means that somebody is still to store 1, and
if all are parked, somebody is still to call `FUTEX_WAKE`. A scheduler that
erases the word looks at the queue next, so it leaves `AtRest`, or has just found the
queue empty under the lock; and what comes into the queue after that is
queued by main, since at rest nobody else computes. That a single scheduler does
not sleep beside work while another runs is not true (`actors_lost_wake`).

**ArchLadderProofs.** `MagicMeansAnswer`, `VerdictMeansAnswer`,
`LeavesNoEmulator` and `LadderTyped`, for every radix, magic, answer and expected
value. `ArchInv` says that the memory is the first k bytes of the payload and
zero behind them (`MemIsPrefix`), that the bytes read are the memory's and the
memory no longer changes (`RawIsMem`), and that where the script is tells whether
there is an emulator (`PcTellsQemu`). The argument is the one `payload`'s comment
makes: the magic is written last. A word whose top byte is zero is smaller than
the magic (`SmallWord`), so a dump that shows the magic has its eighth byte, and
then all eight stores have happened (`MagicIsLast`). That the four bytes read back
are the answer modulo a word (`WordOfStores`) needs that dividing twice is dividing
by the product (`DivideTwice`), from the uniqueness of quotient and remainder.

**ActorMemoryProofs**, on top of `SafeInv`.

* `CollectorMissesNobody`: `WaitingScanned` (a ready or blocked actor has its scan
  entry) and `RunningFound` (a running one has it, or a thread executes it). An
  actor clears its entry only while it runs, and sets it before it leaves.
* `WindowsAreTheirOwn`: `WindowFollows` ties a thread's window to its current
  actor except between the hand-back and `%ar-set-fs`; two threads never have one
  current actor.
* `CellsAreConserved`: inductive by itself, from lemmas on the cardinality of the
  cells in use when one mailbox grows, shrinks or is emptied by the reuse of a
  slot.
* `MainIsWoken`: `MainOwed` follows the wake from the post to the futex: while main
  waits with mail, somebody is before the store of the wake word, or the word is
  set and main has not parked, or the waker is at its `FUTEX_WAKE`. `SlotPoints`
  says that a claimable slot is not that somebody.
* `OnlyClosuresLeakTheLock`: without spawns of closures by actors, user code never
  runs with the lock held by its thread (`HolderSwitches`: who holds the lock is
  in a switch). With them it does: `actors_spawn_closure`.

**ActorStagingProofs.** `StagingTyped`, `NoTornMessage`, `OnlyErrorsKeepSpace`,
`SpaceIsGivenBack` and `StagingImplementsMailbox`: `Spec` implies `Mailbox!Spec`, for
any messages, sizes, area and set of wanted messages. `StagingInv`: queued messages
are whole, lie below the write offset and one behind the other in queue order
(`QueuedInOrder`); the one being decoded lies before them and what has been read of
it are its own bytes (`DecodingFirst`), and what is released has decoded
(`ReleasesDecoded`); the outstanding count is what is queued, in hand and, for
ever, what has failed to decode, at most the write offset, and 0 exactly when that
is (`Counted`), which is why a rewind to 0 never happens under an unread message and
why an area whose messages have all been read is empty as long as none has failed;
a receive in progress wants none of the messages set aside (`SetAsideUnwanted`),
which is why it may pass over them. `SpaceIsGivenBack` is the docstring's claim
outright, under the hypothesis that every message decodes; `staging_kept` is the run
without it. The abstract mailbox is the deferred messages, the one in hand and the
queued ones, in this order; each step maps to a post, a receive or a stutter.

**BoardProofs.** Each script's specification by itself, then `BoardRunsScripts`:
the composed run refines every one of them. `DeployTyped`, `NetbootTyped` and
`VideoTyped` are the typing of the three.

* `ImageReachesLoader`. `DeployInv`: until the magic is sent the wire is empty and
  the loader waits, and an acknowledgement in the buffer means that the loader has
  taken the magic. A stale RDY can therefore not bring the script past `ack`.
* `SumCatchesAFault`. `LineInv`: what the loader has taken and what is on the wire
  are together what was sent (`Undamaged`), or that with one byte of the image
  damaged (`Damaged`) or missing (`Missing`). A missing byte leaves the loader
  waiting for a sum that it took for the image; a damaged one changes a summand by
  less than 256 and so the sum modulo 256 (`OneByteChangesSum`, by induction over
  the prefixes, stated with a set: `SetInduction`). With two faults it is false.
* `WholeImageStarts` and `CoreOkIsTrue`. `NetInv` says for each stage of the plan
  (`AtStage`) what U-Boot may be busy with, what a marker in the buffer is about
  (it may be an earlier try's, of the same region) and what memory holds by then.
* `RelinkIsReal`. `SerialInv`: every line typed or printed has a tag at most the
  current one, those with the current tag are the current query's, and a printed
  answer to `(jit-eager)` means that it was evaluated.
* `ClipIsTheAskedOne`. `ClipInv`: while a play is asked for or served, the clip
  loaded is the one that the form names or a load of that one has failed, since a
  load is answered before its play is sent and no load runs beside it.

**ReplProofs.**

* `CountIsBacked`. `PushInv`: forms counted, plus the prompt still unread, plus the
  value printed without its prompt, are at most the forms evaluated, the stray `>`
  printed, and one if the prompt of an earlier form was late.
* `FormsAreRead`: for every file, whatever its length, what is typed is its forms,
  in order, each as `OneLine` defines it. `Runs(a, t, b)` says that the text t
  takes the scan from state a to state b, with the forms found on the way; it is
  witnessed by the state at every position, so that it composes (`RunsThen`) and lifts
  from each text of a list to their concatenation (`JoinsUp`). With it each
  kind of word is followed through `Scan` (`StringRuns`, `CommentRuns`, `OpenRuns`,
  ...), then a form (`FormRuns`: the depth the scan keeps is the number of words
  that open minus those that close), a piece and a file (`FileRuns`). `Flatten` of
  the raw form is then `OneLine` of its words (`FlattenReads`), because white space
  stands only at the ends of gaps or alone inside strings. The invariant `PushReads`
  carries it through the steps: what is left of the file brings the scan to the
  file's forms. Wherever the argument goes by induction over a text, the induction
  is over a set of positions.
* `SuccessIsReal`. `BuildInv`: a digit anywhere between the guest and the script
  means that the image is built; the script connects only with digits in hand, and
  QEMU touches the file only when it was asked to.
* `CoreIsTheSession`. `CoreInv`: what was typed is evaluated or still in the REPL's
  queue (`TypedKept`); the save is the last line of the queue (`SaveLast`); once it
  has been evaluated, what was read, what was printed and what is still to be
  printed are together some values, the mark, all the digits and a newline
  (`EndAt`). A buffer with the newline in it therefore has all the digits.
* `ScriptsTellTheTruth`: the composed run has all nine properties. `BoardTyped`:
  it has `BoardTypeOK`, from the typing of the six scripts (the other three are
  `SelfHostTyped`, `PushTyped` and `CoreTyped`); `PushTyped` needs `FormsAreRead`,
  since that a form is one line is a fact about `Flatten`.

**ToolsProofs.** `HostedTyped` and `ZeroMeansGraded`. `HostedInv`: a cell that
passed printed its rung's number (`CellSound`), and the architectures before the
current one had their control rejected and, while nothing is counted, all their
cells passed (`Graded`); that the count stays zero only then is a fact about
cardinality (`CountedRight`). `UkiTyped` and `WrittenFileLoads`. `UkiLaidOut`: the
sections added so far lie behind the image, in memory and in the file, and apart;
the table with all the rows that are still to come ends before the first
section's data. That the least and the greatest of the table exist is proved by
induction, stated with a set (`NatSetInduction`). `ToolsRunAlone` carries both to
the composed run.

**Only model-checked.** Liveness (`WaitersMakeProgress`, `MailEndsReceive`,
`TimedReceiveReturns`, `ScriptsEnd`) is outside this prover. `LockNotLeaked`,
`RefusedOnlyWhileUndrained`, `StopIsHeard` and `IdleFindsNoWork` are what their runs
refute; so are `NoStrandedWaiter` and `SpaceComesBack`, each proved under the
hypothesis that excludes the case.

`FndiffExact`, `DifferencesAreRelocation` and `RelocationIsProved` of `NativeDiff`
are checked on the builds of `scripts` and are not theorems for every build. Four
bytes inside an instruction without a reference may be the offset of some
function's entry; a source name may look like the name the scripts give to a
second definition; an offset may leave the range of 32 bits; the last body of
an aarch64 build may end in the bytes of a no-op. A theorem would need hypotheses
that exclude
all of this, of which the scripts check none. The counts in `NativeTypeOK`
rest on folds over sequences. `ToolsTypeOK` is therefore model-checked as a whole; its
parts for the two ladders and `make-uki.py` are proved (`LadderTyped`,
`HostedTyped`, `UkiTyped`).

## 5. Not modelled

`PROJECT.json` gives the reason for each component. In short: drivers, display,
sockets and boot code are input and output against hardware or a kernel that is
not in the repository; cryptography is arithmetic on numbers no model checker
enumerates; the compiler, the translators, the reader, printer and CLOS are
sequential and large; the collector is mostly emitted machine code. Of the Python
programs, the one-shot measurement scripts (straight-line sequences of forms),
the generators of test programs and the clients of the servers under test are
left out.

Inside the modelled parts: returns of `FUTEX_WAIT` on a signal (every caller
looks again in a loop, as it does after a timeout; without them a lost wake
stays visible), the contents of per-actor windows
and regions, `actors-start`'s carving of memory (the models start after it), and
an error in `%ar-exit`'s notification after 10 s, which leaves the file. Of a
build, calls of the runtime code and constants moved as 64-bit immediates (bytes
like any other). Of `push-serial.py`'s board, characters lost by a UART that nobody
reads while a form is evaluated, and lines longer than the REPL's 16384 characters;
of its reader, `#\(`, block comments and runs of white space inside a string. Of
a board session, the random tags' collisions, and whether a clip was
played on a core that had been re-linked (see the observations).

## 6. Plan

The order follows what the rest is built on.

1. `CondVar`: `%cond-wait`, `%cond-wait-ms`, `%cond-signal`, `%cond-broadcast`
   over an abstract mutex, with the sequence reduced modulo a small number, and
   an abstract condition variable that the detailed one implements as long as
   the sequence does not wrap. Then the shim's semaphores and timed joins.
   Theorem: a signal between the read and the park is never slept on.
2. `RtLock`: owner, depth, saved region and arena refill. Theorem: the mutex is
   unlocked exactly by the outermost leave.
3. `ThreadTable`: pending slot, acknowledgement and its timeout, join and reuse.
4. `ActorCore`: send, receive, yield, exit and `staging-compact` of
   `net/actors.lisp` as the bare-metal images use them; a message that is 0 and
   a compaction under queued addresses are the questions.
5. `StopTheWorld`: the stop flag against safe regions. Theorem: the collector
   runs alone.
6. `MainJobs`, `Channel`, `TcpConns`: hand-over of closures, framing, and the
   connection table with lost and duplicated segments.
7. `SaveImage` and `Cabinet`: what a short write or a crash between two steps
   leaves.

Runs: one per module for its safety properties on two or three threads, one
with fairness where something must happen; the runs of section 3 that ask about
one line (`actors_spawn_closure`, `actors_lost_stop`) make way for them when the
suite would grow too long.

Proofs, after the modules: of `NativeDiff`, that `write_symmap`'s rows cover the code
behind the first entry exactly; of the modules to come, the theorems named with them.
