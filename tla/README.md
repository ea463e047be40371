# A TLA+ model of LibreSSL-portable

LibreSSL-portable carries OpenBSD's LibreSSL to other systems.  The cryptographic
code is not in the repository (`update.sh` fetches it).  What is here is the
portability layer: implementations of system calls and library functions that
Windows and older Unixes lack, locks for libcrypto, container headers, and the
build files.  This project models that layer, checks it with TLC on small
instances, and proves with TLAPS, for every size, the safety of all of it but
`getopt` and the containers.

All paths below are relative to `src/`.  `PROJECT.json` names the lines behind
every definition (`map`), the hazards each property is for, and the runs.

## 1. The system

| component | state it keeps | operations | what is hard |
|---|---|---|---|
| `crypto/compat/crypto_lock_win.c` | `locks[]`, one pointer per lock type | `CRYPTO_lock`, `CRYPTO_add_lock` | the first callers race to create a section; the table is read again after the test |
| `include/compat/pthread.h` | a pointer per mutex, a once-control | `pthread_mutex_*`, `pthread_once` | the same race; init stores the pointer before it initialises; destroy and reuse |
| `apps/openssl/compat/poll_win.c` | locals of one call; kernel state | `poll` | two kinds of objects waited for in turns; time cut into passes; sets that `select` destroys |
| `apps/nc/compat/readpassphrase.c` | `signo[]`, dispositions, terminal | `readpassphrase`, `handler` | a signal between any two statements; restart after a stop |
| `crypto/compat/getopt_long.c` | `optind`, `place`, block of non-options | `getopt`, `getopt_long`, `getopt_long_only` | permutation in blocks over several calls; restarts |
| `include/compat/sys/tree.h` | links and colours in the elements | `RB_*`, `SPLAY_*` | a wrong case shows only after a long history |
| `include/compat/sys/queue.h` | `next`, `prev`, `last` pointers | `SLIST_*`, `LIST_*`, `SIMPLEQ_*`, `XSIMPLEQ_*`, `TAILQ_*` | the pointer to the last pointer; removal inside a loop |
| `crypto/compat/posix_win.c`, `tests/compat/socketpair.c`, `pipe2.c`, `mkstemp.c` | the C runtime's table, Winsock's sockets | `posix_open/close/read/write`, `socketpair`, `pipe2`, `mkstemp` | two number spaces that overlap; a rendezvous that others can join; ten ways to fail |
| `crypto/compat/posix_win.c` (sockets) | `errno`; the connection in the kernel | `posix_connect/read/write/getsockopt/close` | callers decide by `errno` whether to wait, retry or give up; lengths that an int cannot say |
| `tls/compat/pread.c`, `pwrite.c` | the offset of the open file | `pread`, `pwrite` | the offset is moved and moved back around a transfer, and every call may fail |
| `apps/openssl/apps_win.c` | `speed_thread`, `speed_lapse`, `speed_schlock` | `speed_alarm`, `speed_timer`, `speed_alarm_free` | a handshake by polling; a thread that is terminated or has just rung |
| `crypto/compat/getdelim.c`, `getline.c`, `bsd-asprintf.c` | the caller's buffer and its size | `getdelim`, `getline`, `vasprintf`, `asprintf` | growth at the edge of the buffer and of the size type; failed allocations |
| `include/compat/endian.h` | none | `htobe*`, `htole*`, `be*toh`, `le*toh` | definitions for hosts that nobody tests on must agree with all others |
| `include/compat/dirent_msvc.h` | a search handle, an entry read ahead, a pattern | `opendir`, `readdir`, `rewinddir`, `closedir` | handles closed early and handed out again; a name looked up twice |
| `crypto/compat/ui_openssl_win.c` | `console_mode`, `tty_in`, `CRYPTO_LOCK_UI` | open, write, read, close of a session | threads share a console and static variables; failures between echo off and echo on |

The components meet in few places.  `CRYPTO_lock` is called by all of libcrypto;
here its one caller is `ui_openssl_win.c`, and `UiConsole` uses the abstract lock
table that `CryptoLock` is proved to implement.  `FileOffset` and `Descriptors`
share what `posix_open` tags.  `CRYPTO_lock` and
`pthread_mutex_lock` are built on the same Win32 services, and `pipe2` on
`socketpair` and `posix_close`.  The rest are separate libraries for separate
callers; `Shims`, `Libc` and `MCLibrary` put them side by side.

What makes each correct: locks exclude, never touch a dead section and lose no
memory; `poll` waits as long as asked and tells the truth; `readpassphrase` and
the console interface leave terminal and signals as found; `getopt` keeps every
argument and its order; containers stand for the set or sequence that the calls
describe; descriptors and handles act on what they were handed out for, and none
is lost; a positioned transfer leaves the offset alone; the caller of a socket is told
what is so, in POSIX's terms; an alarm rings for its own measurement; buffers hold
what their size says; hosts agree about bytes.

### Not modelled

With the reason, also in `PROJECT.json`:

* of `posix_win.c`: `posix_rename` is one call of `MoveFileEx` and a table of errors
  that nothing in the repository tests; `posix_fopen` adds a letter to a mode;
  `posix_fgets` replaces two characters in a buffer it has just filled;
  `gettimeofday` is arithmetic on one reading of the clock;
* of `apps_win.c`: `app_timer_real` and `app_timer_user` subtract two readings;
  `setup_ui` and `destroy_ui` set up a table of functions;
* of `endian.h`: the definitions that only name the system's own (macOS, Solaris,
  the BSDs);
* `accept4.c` and `socket.c`: two calls in a row, and what is exposed between them
  depends on `fork` and `exec`, which nothing here calls;
* `b_win.c`: a flag around `WSAStartup`, which counts its calls, so that a second
  one by a racing thread changes nothing;
* `clock_gettime_osx.c`: linked only into `openssl(1)`, which has one thread;
* CPU capabilities and the other one-line shims keep no state; build files and tests
  have no program logic.

## 2. Modules

**`CriticalSection`** (external).  `malloc`/`free` and the four critical section
calls as the shims use them.  An address is free, raw, live or dead, and the calls
do not test which: meeting a live section is the callers' obligation.

**`LockTable`** (abstract).  A table of recursive locks that exist from the start,
as `held`, how often each thread has each lock.

**`CryptoLock`**.  `CRYPTO_lock`, one action per access to shared memory: range
test, test for NULL, allocation (or exit), initialisation, compare-and-exchange,
deletion and freeing by the loser, enter or leave.  `locks` is `locks[]`, `lcs` the
local, `call` the arguments, `held` the callers' own count.  Callers are
libcrypto's macros: they unlock what they hold and take several types in
increasing order.

**`AddLock`**.  `CRYPTO_add_lock` under a reference count: threads copy, pass on
and give up references; the exchange and the computation of the result are
separate steps.

**`PthreadWin`**.  The mutexes of `pthread.h` with static and dynamic
initialisation, `pthread_once`, destruction and reuse, on the same
`CriticalSection`.  A program uses a dynamic mutex after its own `pthread_once`
has returned and destroys a mutex nobody uses.

**`Poll`**.  The whole of `poll`: argument tests, the two passes over `pfds`, the
wait/select loop, `revents`, between steps of a kernel in which sockets become
ready, handles are signaled and console records arrive.  Time is counted in units
of which a pass has `LoopCap`.

**`ReadPassphrase`**.  Each system call of `readpassphrase`, and each of the
statements around the restoring of the terminal (lines 178 to 185), is a step.  Every
signal of the list, SIGTTIN and SIGTTOU included, may arrive from outside between any
two, and the job is moved to the background and back.  From the background a read raises
SIGTTIN, `tcsetattr` raises SIGTTOU, and so may the writes of the prompt and of the
newline (where TOSTOP is set); all of them go through the same `handler`.  `intr` says
that the system call that is being made fails with EINTR.  Ghosts: `caught` and `resent`
are the signals that the handler saw and those that were sent on, `late` says that
SIGTTOU was caught only where `signo[SIGTTOU]` is about to be put back, and `gaveUp`
that `tcsetattr` has failed with `signo[SIGTTOU]` set.

**`Getopt`**.  `getopt_internal`, `parse_long_options` and `permute_args`.  An
argument is a number of dashes and a sequence of letters; `optarg`, `optind`, the
scanning pointer and the block of skipped non-options are state that survives
calls.  Messages, `optopt` and stores through `flag` are left out.

**`RBTree`, `SplayTree`, `Queue`**.  The macros as assignments to pointers.  The
mirrored halves of a macro are one definition with a side as parameter, and the
five kinds of list one with the pointers the kind keeps.  The pointers of an XSIMPLEQ
are stored under the cookie of their head, and only the same head's cookie brings them
back.  The loops of `RB_INSERT_COLOR` and `RB_REMOVE_COLOR` take one step per round.

**`Descriptors`**.  The C runtime's table of descriptors, Winsock's handles, the
tag that `posix_open` adds (as arithmetic on an int of a small width), and one
`socketpair` or `pipe2` call, statement by statement, with the recursion of
`create_issue_1069_sentinels` as an explicit stack.  Other threads open and close
files and sockets; another process may connect first.

**`WinSocket`**.  The socket side of the same file: a connection in the kernel, the
five calls with the table of errors, `connect`'s exception from it and the conversion
of lengths, and a caller (external) that does what POSIX programs do: it waits on
EINPROGRESS, retries on EAGAIN and EINTR, and gives up on everything else.  The
network makes, refuses, delays and breaks connections.

**`PositionedFile`** (abstract) and **`FileOffset`**.  What `pread` and `pwrite`
promise, a transfer at an offset that does not move the file's own, and how they do
it, `lseek`, transfer, `lseek` back, each a step that may fail and that may change
`errno`.  What a caller is told of a failure is `errno` as the call leaves it, so it
must be the transfer's and not the last `lseek`'s.  During the call the abstract offset is
the one in the local `cpos`.  Only a
file that refuses the last `lseek` loses its offset (`stuck`).

**`SpeedAlarm`**.  The timer threads of `openssl speed` and the thread that measures,
one step per access to the shared variables, through any number of alarms.  The
measuring loop is `patches/speed.c.patch`'s.

**`Getdelim`, `Asprintf`**.  A buffer that grows by doubling, character by character,
with sizes modulo a small width; and the two attempts of `vasprintf`, a string being
its length.  Every allocation may fail.

**`ByteOrder`**.  The definitions for Windows and for AIX (with both bodies of
`htole64`) as shifts and masks of bytes, between a host that sends a number and one
that receives it.

**`Dirent`**.  Streams with their three allocations and search handles, over
directories whose content and whose role as working directory change.

**`UiConsole`**.  Sessions of `UI_process` (external) in several threads: the lock,
the console mode, `fgets` in chunks, verification.

**`Shims`** (composition).  The small parts, which share no state, side by side:
`FileOffset`, which it extends, and instances of `AddLock`, `SpeedAlarm`,
`WinSocket`, `Getdelim`, `Asprintf`, `ByteOrder` and `Queue`.  A variable `use`, chosen
in the initial state, says which of them the program uses.  The module states what each
part must fulfil under one name, for the run and for the theorems.

**`Libc`** (composition).  The two functions of OpenBSD's libc side by side:
`ReadPassphrase`, which it extends, and an instance of `Getopt`.  Its specification is
a program that calls one of them (`called`); the other one's variables stay as they were
initially.

The `MC*` modules give constants their values.  `MCLibrary` extends `Shims` with the
trees, and `MCLibc` extends `Libc`; both evaluate the assumptions that the parts state
about their constants.  The others extend one component.

Eight modules hold theorems: `CryptoLockProofs`, `PthreadWinProofs`, `PollProofs`,
`DescriptorsProofs`, `DirentProofs` and `UiConsoleProofs` about the component they
are named after, `LibcProofs` about the two parts of `Libc`, and `ShimProofs` about
the parts of `Shims`.

Definitions introduced by "A mutation" are plausible slips in the code.  Each
property is shown to be violated when the definition that follows is replaced by
its mutation.

## 3. Runs

| run | shows | bounds |
|---|---|---|
| `crypto_lock` | no use of a dead section, no leak, entries written once, refinement of `LockTable`, calls return | two threads, one type, two levels |
| `pthread` | the same, but for the return of calls, through init, once, destroy and reuse | three threads, one mutex of each kind |
| `poll` | time, causes of failure, answers, termination, no key press starved | arrays of up to three descriptors of all kinds, six timeouts, two kernel events |
| `poll_handles` | violation, see 5 | standard input alone |
| `libc` (`readpassphrase`) | dispositions restored, echo restored unless `tcsetattr` failed with a SIGTTOU caught, no stop or death while prompting, no signal lost but a SIGTTOU first caught in the loop around `tcsetattr`, the call ends | two signals of any kind from outside, one move to the background, 3 sets of dispositions, 4 of flags |
| `libc` (`getopt`) | a stable partition, arguments stay with their options, no empty block exchanged, the scan ends | two arguments of 15 shapes in every mode, three with every function, five of four shapes; one restart |
| `readpassphrase_fd0` | violation, see 5 | standard input closed |
| `readpassphrase_ttou` | violation, see 5 | one signal, always in the foreground |
| `library` | containers: the set or sequence, the shape, and loops that remove; exact records and whole strings inside their buffers; agreement of hosts; one thread, the last, destroys a counted object; no alarm rings for another's measurement or sleeps another's time, and `speed_alarm` returns; `pread`/`pwrite` refine `PositionedFile`; the caller's view of a connection is true and every connection ends | ten, seven and four elements, one key twice; nine characters, buffers of 1 to 12, sizes modulo 16; bytes 0 and 1; three holders with two references; three alarms of two lapses; two files of two bytes, one tagged; a request of 9 where an int ends at 3 |
| `descriptors` | descriptors act on their own object, no socket lost on any failure, the pair is a pair, numbers stay reserved, the call returns | seven slots, four handles, two calls |
| `dirent` | handles owned by one stream, each entry once, the pattern fits its memory | two streams, two directories, two names, two changes |
| `ui_console` | nothing hidden is echoed, the console is put back, one line per answer, waiting threads get their turn | two threads, every input of up to six characters, a buffer of four |
| `ui_open_failure` | violation, see 5 | the NUL device or no input |

Each module's `TypeOK` is a conjunct of one of its properties, except that of
`CryptoLock`, which is only proved (section 4).

Why the bounds are enough.  A creation race needs a winner and a loser, each
with an address, and a third address makes reuse of a freed one a choice; more
threads only repeat it, and the theorems cover them.  The lock count wraps nowhere, so
two levels show nesting.  A pass of two units and timeouts of 0, 1, 2 and 5 give a timeout below, at and not a
multiple of a pass; `FD_SETSIZE` of 2 is exceeded by arrays of three; an int that
wraps at 6 is passed by an infinite timeout.  Two signals meet at any pair of
points, the second while the first is being handled or sent on; one of each kind
(installed unconditionally, terminating, stopping, the two from the terminal) is
there.  What the terminal raises in the background comes on top of the two.  Each
kind of signal meets each disposition but one: a caller's own handler for a stop signal,
with which the call would start over until somebody moves it to the foreground.  Five arguments of which some are words give blocks of lengths 1 to 4 with
common divisors 1 and 2.  Red-black
trees of nine elements are deep enough for removal to move its repair up more than
one level and to meet each of its cases on both sides.  Handles 3, 4, 5 lie inside and 8
beyond the table of seven, so the sentinels both reserve and reach past a number.
A path of 12 outgrows one of 3 by more than the slack.  A request of 9 with an int
that ends at 3 becomes, unclamped, 1, 0 and negative lengths on its way; a send buffer
of 2 makes every transfer partial.  One thread is enough for `FileOffset`, where a file
has one user at a time, and an offset of 2 in a file of 0 or 1 bytes leaves a gap.  A
third alarm begins after one that rang and one that was terminated.  A buffer of 4 is
doubled to 8 and not to 16 with `SIZE_MAX` 15, and buffers of 1, 2 and 3 are the
caller's own.  In `ByteOrder` every byte of a number differs from every other in some
value.  The
first read of a line takes what fits the buffer and the rest comes in chunks of three,
and inputs of six characters end before, at and after the end of a chunk.

Deadlock is checked except where the system may stop: in the two runs of
`UiConsole`, when the threads have had their sessions or wait on a lock that a
failed session keeps.

### Fairness

* `crypto_lock`: weak fairness of a thread inside a call (it is scheduled), strong
  fairness of `Enter` (Windows grants a free section to a waiter eventually), and
  strong fairness of the unlock at each depth: libcrypto pairs every lock with an
  unlock in the same function, so a thread does not come back to a depth for ever
  without leaving it.
* `poll`: weak fairness of the call and of the application's loop around it, and of
  `select` failing only when it must (empty sets, a negative time).
* `libc` (`readpassphrase`): the process runs, a stopped job is continued, and the user ends
  the line (strong: a signal may interrupt a read any number of times).
* `libc` (`getopt`): the call runs.  `descriptors`: the thread in `socketpair` runs; nobody else
  has to do anything for `accept` to return.  `ui_console`: threads run, and reading
  ends if only with the input.  Weak fairness suffices for the lock there because
  sessions are finite in number.
* `library` (sockets): the caller goes on calling, the network completes or refuses
  a connection and delivers what was sent, and, strongly, a transfer that is possible
  again and again is made: Winsock does not interrupt the same call for ever.  Nothing
  is assumed about errors, which is what the property is about.
* `library` (alarms): threads are scheduled and `Sleep` ends; the measuring loop ends,
  if only at the limit of its count.

`pthread`, `dirent` and the other parts of `library` check safety only.

## 4. Proofs

Each proof module states an inductive invariant `IInv` as a conjunction of named
parts, a lemma per action that the action preserves it, with a step per part that it
disturbs, and theorems that follow from `IInv`.  The bounds that the runs need (calls,
changes, signals) are constants there too, so the theorems hold for every value of
them.

### Locks: `CryptoLockProofs`

`CryptoLockProofs` proves, for any sets of threads and addresses, any number of
lock types and any depth, from `HeapAssumption` (NULL is neither an address nor a
thread) and `CryptoLockAssumption` (the number of locks and the bound are natural
numbers of the expected size):

* `TypeCorrect` `Spec => []TypeOK` (no run repeats it): no count goes below zero, so no unlock is
  unmatched;
* `MutexCorrect` `Spec => []MutualExclusion`;
* `SectionsLive` `Spec => []UsesLiveSection`;
* `LeakFree` `Spec => []NoLeak`;
* `Published` `Spec => PublishedStays`;
* `Refinement` `Spec => ImplementsLockTable`.

None of the properties is inductive.  Mutual exclusion of the callers' counts
follows from the owner field of a section, but only if both callers used the same
section; that needs entries to be written once; that needs the compare-and-exchange
to find NULL only in entries nobody uses, and so on.  `IInv` collects it:

* `IndexInv`: past the range test the type is valid, and where a section is used
  its entry exists;
* `TableInv`: sections in the table are initialised, and no two entries share one;
* `PrivateInv`: a section under construction belongs to one thread, is not in the
  table, and when it is about to be published is initialised and unowned.  This is
  what publishing relies on, and what makes the loser's `free` harmless;
* `HoldInv`: what callers hold is what the owner and recursion fields record;
* `UnlockInv`: a call to unlock is made by a holder, and only lock calls enter.

`LeakFree` uses `NoLeak` itself as a second inductive invariant on top of `IInv`.
Each action has a lemma that it preserves `IInv`, with one step per conjunct that it
disturbs.  `Refinement` maps `held` to itself: `Enter` is `Acquire` (no other
thread has the lock, by `HoldInv`), `Leave` is `Release`, everything else stutters.

### Mutexes: `PthreadWinProofs`

`SectionsLive` (`UsesLiveSection`), `LeakFree` (`NoLeak`) and `Refinement`
(`ImplementsLockTable`), for any threads, mutexes and addresses.  `PthreadAssumption`
only keeps static and dynamic mutexes, and the values of a once-control and the
threads, apart.  Besides the parts known from `CryptoLock`, `IInv` has:

* `OnceInv`: one thread is in a callback, the pointer is NULL until it has allocated,
  and whoever may use the mutex comes after it;
* `RetiredInv`: a mutex being destroyed is used by its destroyer alone;
* `ReachInv`: an address that is not free is reached from a mutex or being made.

Here a pointer may be to memory that is not yet a section (init stores it first), that
is deleted, or that was freed and may have been handed out again (destroy clears it
last).  `Raw`, `Dead` and `Dangling` name these three windows, and `TableInv` and
`PrivateInv` hold outside them; that no other thread looks at the pointer inside them
is what `OnceInv` and `RetiredInv` are for.

### Polling: `PollProofs`

`Waits` (`WaitsExactly`) and `Answers` (`AnswersTrue`), for every array of
descriptors, every timeout of an int and every length of a pass.  Assumed: sockets
are neither handles nor closed descriptors, and twice `FD_SETSIZE` fits an int, since
`poll` returns the sum of two counts.  The properties are about returned calls; `IInv`
adds what the two passes rely on: what was taken from the time so far (`TimeInv`: the
time waited is the time booked plus what is used of the current pass), that a handle
found signaled stays signaled until it is reported (`WaitInv`), and that `select` is
handed the sets as they were filled (`SetsInv`).  Lemma `SameHandle` says that the
second pass over `pfds`, which counts handles again, arrives at the handle whose index
`WaitForMultipleObjects` returned.

### Passphrases: `LibcProofs`

`Restores` (`DispositionsRestored`), `EchoBack` (`EchoRestored`), `Shielded`
(`ProtectedWhilePrompting`) and `SentOn` (`NoSignalLost`), for any list of handled
signals without repetition in which SIGTTIN and SIGTTOU differ, any dispositions of
the caller, and any number of signals and moves to the background.  `DispInv` says how
far the loops that install and restore have come, which is what a signal between two
`sigaction` calls meets.  `EchoInv` says that, as long as `tcsetattr` has not given up,
`oterm` echoes and the echo is on or the call knows that it must put it back; the loop is
left only when it has, or has given up.  `CaughtInv` says what `signo[]` is: what was caught
since the last restart, but for SIGTTOU after line 185, which is there if it was caught
before line 179, and for which the local `sigttou` is the witness in between.  A SIGTTOU
may arrive at any step, so both theorems name what the code does with it: `EchoBack`
excepts a loop that gave up, `SentOn` a SIGTTOU that was first caught in the loop, and
never one from before it.

### Options: `LibcProofs`

`StablePartitionHolds` (`StablePartition`) and `ArgFollowsOptionHolds`
(`ArgFollowsOption`), for vectors of any length, any options, each function and prefix
and any number of resets, from what `OptionsAssumption` says of the tables; and
`BlocksExchanged`, on which both rest: `permute_args` exchanges two adjacent blocks of
any lengths and moves nothing else.

`BlocksExchanged` is a piece of arithmetic.  `gcd` returns a number that divides both
lengths and is a sum of multiples of them (`IsGcd`), of which there is only one
(`GcdUnique`); no lowest argument for which `gcd` fails exists (`GcdIsGcd`), which
takes the place of an induction over it.  From that, with `ncycle` and `cyclelen` as
the code computes them, a walk by the length of the second block comes back after
`cyclelen` steps and not before (`WalkRound`, `WalkOnce`), and it comes to the
positions that are a multiple of `ncycle` away (`WalkReaches`).  `Moved` says what the
vector is after each round of the inner loop, `AfterCycles` after each of the outer
one; after the last, every position holds the element that belongs there
(`permute_argsRotates`).

`ScanInv` is the invariant of a scan.  `Partway`: before `optind` everything is taken
but the block of non-options, both parts have kept their order, and behind `optind` the
vector is as the scan found it.  That is why the argument of an option is the element
that followed it in the program's vector, and it is kept when the scan takes elements
(`PartwayTake`), passes over one (`PartwaySkip`) and exchanges the block with what was
taken after it (`PartwayExchange`).  `BlockInv` and `AheadInv` say which blocks there
are and that none is empty, and `ControlInv` how a reset goes on.  Between a reset and
the next call (`Stale`) `nonopt_start` and `nonopt_end` are of the scan before and mean
nothing; the invariant says so, and `ForgetBlock` is what it needs then.

### Descriptors: `DescriptorsProofs`

`Accounted` (`NothingLost`) and `Reserved` (`NumbersReserved`), for any table, any
handles and any width of an int that holds them.  `HeldInv`: what is open is the
program's or, a socket only, the call's, and never both.  `CallInv`: which sockets the
call has at each of its steps, so that its one error path closes exactly those.
`SentinelInv`: every frame of `create_issue_1069_sentinels` has a sentinel of its own,
and no frame that is still to return closes one that reserves a number of the pair.

### Directories: `DirentProofs`

`Owned` (`HandlesOwned`) and `EntriesOnce` (`EveryEntryOnce`), for any streams,
directories, names and handles.  Assumed: the slack in the allocation of the pattern
is more than 1 wide character (16 bytes in the code; `opendir` appends a backslash, a
star and a NUL to a path that is shorter than `n`), and the value for "none" is no
name, directory or handle.  `StageOk` says what a stream has
allocated at each stage of `opendir` and of its error paths, `EntryOk` that the entries
returned are those the search has yielded, but for the one read ahead, and `SearchInv`
that open searches and streams with a handle correspond.

### Console: `UiConsoleProofs`

`Hidden` (`HiddenWhileReading`), `Restored` (`EchoRestored`), `OneLine`
(`OneLineEach`) and `OneSession`, for any number of threads, any input and any buffer.
Assumed: inputs and scripts are sequences, and the buffer has more than two characters.
`LockInv` gives mutual exclusion from the abstract lock table that `CRYPTO_lock` is
proved to implement; `ModeInv` says that the mode a session will put back is the one
the program found, which fails if two sessions overlap.

`OneLine` needs what `read_till_nl` computes for a line of any length, a recursion over
chunks.  The function "the rest of the line" solves the equation of the recursion, so
a solution exists; and if another solution differed from it, it would differ at a last
position, which the equation excludes (`ReadsRest`).  Only the fact that a set of
numbers has a least element is used, in place of an induction rule.  `FlowInv` adds
that an answer is accepted in `read_string_inner` alone and that sessions have no more
answers than strings.

### The small parts: `ShimProofs`

What a part assumes of its constants is a hypothesis here.

* `Positioned` (`ImplementsPositioned`): `pread` and `pwrite` refine `PositionedFile`.
  `FileInv`: an open file has one call at a time, from the first `lseek` on `cpos` is
  the offset to be restored, and there is an outcome only after the transfer.  A
  first or second `lseek` that succeeds is not seen, and one that fails is the abstract
  refusal; the transfer and the last `lseek` are the abstract transfer and return.
* `LastDestroys` (`DestroyedByLast`): the count is the number of references, which is a
  sum over threads and would need induction.  Each reference is a token instead
  (`Tokens`), a step adds or removes at most one, and the count is the cardinality.
* `AlarmsOwned` (`AlarmOwn`): the static variables are about the current alarm, and a
  handle is closed only when its thread can no longer ring.
* `ViewsTrue` (`ViewTrue`): what has arrived, what was read and what is to come add up
  to the answer, and a length clamped to an int keeps its value (`ClampedLength`).
* `BuffersHold` (`BuffersExact`): inside the loop of `getdelim` the buffer begins with
  the characters read and has room for one more and the NUL (`LineInv`), which doubling
  keeps because a size that doubling would wrap is refused (`Doubling`); the second
  attempt of `vasprintf` has the room the first asked for (`StringInv`).  Assumed:
  `SIZE_MAX > 2`, `BUFSIZ` between 2 and `SIZE_MAX`.
* `HostsAgree` (`WireAgrees`): each body of `endian.h` is the identity or reverses the
  bytes, whatever their values, and the two hosts choose accordingly.
* `ListsRepresented` (`RepresentsLists`): for any number of heads and elements, from
  `QueueAssumption` (heads, elements and NULL differ, and no pointer under a cookie is
  one of them).  `ListInv` says what every pointer is: `next` of the cell in front of
  element k + 1 leads to it (under the cookie, for an XSIMPLEQ), `prev` is that cell,
  `last` the last cell, no element is in two places, and the pointers of an element
  outside every list are NULL (`Pointed`); and where a loop stands: the elements before
  a forward loop are the last of its list, before a backward one the first (`Looping`).
  The sequence is a variable of the model, so no induction over it is needed.  What a
  change between two cells makes of the pointers is stated once for an insertion, a
  removal, a replacement and a concatenation (`AfterInsert` and the like), with a lemma
  that the pointers are then those of the changed list, and each macro is shown to make
  such a change.  LIST_REPLACE and TAILQ_REPLACE are an insertion behind the element
  and its removal.

### What is only model-checked

* **Liveness** (`LockReturns`, `PollReturns`, `KeyReported`, `CallEnds`, `Terminates`,
  `PairReturns`, `OpenReturns`, `MeasurementEnds`, `ConnectionEnds`): fairness and
  `ENABLED` are out of the prover's reach.
* **`RedBlackTree`, `SearchTree`**: the set that a tree of pointers stands for is
  defined by recursion over it, and `SplayTree` declares a RECURSIVE operator, which
  keeps the prover's SMT backend away.

## 5. Findings

* **`poll` on handles alone fails at once** (`poll_handles`).  With no socket among
  the descriptors the first `select` (`poll_win.c:319`) is given three empty sets,
  which Winsock refuses with WSAEINVAL.  The comment at line 262 explains why a later
  pass must not do that.
* **`readpassphrase` with standard input closed echoes** (`readpassphrase_fd0`).
  `open("/dev/tty")` returns 0, and line 119 takes that for "not the terminal".
* **A SIGTTOU in the foreground leaves the echo off** (`readpassphrase_ttou`).  The
  loop at `readpassphrase.c:182` gives up when `tcsetattr` is interrupted and
  `signo[SIGTTOU]` is set.  That is meant for a process in the background (line 181), but
  a SIGTTOU that another process sent, before the loop or in it, sets it too.  If it came
  before the loop, `need_restart` is set and the next round takes the mode without echo for
  the terminal's own.  The comment at line 136 says what the handlers are for: the user
  must not "end up with echo turned off in the shell".
* **A failed `open_console` keeps `CRYPTO_LOCK_UI`** (`ui_open_failure`).
  `ChangeLog:194` announces the unlock on this path.  `UI_process` is not in the
  repository; if it closes a session that did not open, the lock is released there,
  and the run shows only that `open_console` itself does not.

Known limits that are by design or beyond the code:

* a signal between `tcsetattr` and the last `sigaction` leaves echo off; a background
  process cannot restore the terminal.  `EchoRestored` excepts a call whose `tcsetattr`
  has failed with SIGTTOU caught (`gaveUp`): in the background that is by design, in the
  foreground it is the finding above;
* line 185 drops a SIGTTOU that came from another process between lines 179 and 185
  together with the one that `tcsetattr` raised: the code cannot tell them apart.
  `NoSignalLost` excepts a SIGTTOU first caught there (`late`); one that was caught
  before, such as that of a prompt written in the background, must be sent on;
* `OpenReturns` supposes that the sessions in front were opened; what a session that could
  not be opened does to those that wait is `ui_open_failure`'s;
* when the search of a directory itself fails (`misread` in `Dirent`), the entries that it
  did not yield are not required;
* when `select` fails while a handle is signaled, sockets are reported from sets nobody
  filled (`AnswersTrue` asks for the handle there and not for the sockets);
* `pread` and `pwrite` are not atomic for threads that share an open file: between the
  two `lseek` calls the offset is wrong.  They also do not know the numbers that
  `posix_open` tags, and refuse them;
* an alarm that rings before the measuring loop has set `run` is lost, and the loop
  then ends at the limit of its count;
* `XSIMPLEQ_XOR` goes through `unsigned long`, which on 64-bit Windows does not hold a
  pointer; nothing in the repository uses these macros there;
* `sys/stat.h` says of `S_ISLNK`, `S_ISSOCK` and `S_ISBLK` that they are always false;
  as defined they are true of mode 0.

## 6. Abstractions

Characters, names, paths and descriptors are members of small sets; a conversion is
modelled where a property depends on it (the tag of `posix_open`, the eighth bit and
case in `readpassphrase`, wrap-around of `timespent_ms`).  `posix_fgets` turns a CRLF at
the end of a line into a newline; a line's end is one character here.  POLLRDNORM and
POLLWRNORM are merged with POLLIN and POLLOUT.  `is_socket` is stable during a call
of `poll`.  The fields of a directory entry other than its name, and all output,
are left out.

## 7. Plan

Done: the inventory, the fifteen components above, and proofs of every safety property
of a run except those listed at the end of section 4.  Of the model, only what section
1 lists under "Not modelled" is left out.

Next:
1. `RedBlackTree`: that one rotation and one step of the repair keep the order and the
   colours of a tree of any shape, stated with the set of elements below each pointer as
   a variable of the model, as `Queue` does with its sequences.
