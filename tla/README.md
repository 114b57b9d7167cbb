# A TLA+ model of openkal-musl's port layer

openkal-musl is musl 1.2.5 whose system calls are answered by openkal, a kernel
abstraction of plain functions that a host, an emulator or a bare machine
supplies. What is specific to it is the port layer, `src/port/src/`: descriptors,
locks, threads, processes, readiness, mappings, sockets and names, all kept inside
the program and built from operations that do less than a kernel does. Most of
these are small protocols between contexts of one program, or between the
program and the environment beneath it. This project models them. musl itself
(`src/musl/`) is vendored upstream; it is modelled only where it depends on what
the port layer answers: the mutex and the condition variable, the groups of the
allocator, the destructors of thread-specific data.

"The environment" below is whatever supplies openkal; its operations are modelled
from how the port layer uses them, and are the definitions marked external in
`PROJECT.json`.

## Inventory

| part | source (`port/src/`) | state | operations | what is hard | module |
|---|---|---|---|---|---|
| lock word | `okm_fd.c` | a word: free, held, held and waited for | lock, unlock | lost wakeups, overtaking | `OkmMutex` |
| descriptor table | `okm_fd.c`, `okm_syscall.c` | descriptors, counted descriptions, names of directories, what waits to be closed | open, pipe, socket, close, dup, dup2, exec's release, lockless reads | closing outside the lock, reuse, full tables | `FdTable` |
| context table | `okm_context.c` | open-addressed slots keyed by the environment's identity | set and get the thread pointer, release, rebind | lock-free claims, retired slots | `ContextTable` |
| threads | `okm_thread.c` | the list of started tasks | clone, reap, end | who waits for whom, freed records | `Threads` |
| words waited on | `okm_thread.c`; musl's mutex and condition variable | words, a list of waiters | futex wait, wake, requeue; lock, wait, signal, broadcast | wakes that stand for moves, nodes on a stack | `CondVar` |
| started programs | `okm_syscall.c`, `okm_fork.c` | the child table, numbers, units | fork, record, wait | waits without the lock, a copy of the table | `Children` |
| starting a program | `okm_spawn.c` | three streams, files opened for the call | file actions, start, release | order, partial failure, the handle zero | `Spawn` |
| readiness | `okm_poll.c`, `okm_syscall.c` | one item kept per descriptor, an end mark | poll, read, accept, recv | an enquiry that consumes | `Readiness` |
| mappings | `okm_region.c`, `okm_map.c`, `okm_syscall.c` | ordered ranges, file mappings | mmap, munmap, madvise | acting outside the lock, reused addresses | `Memory` |
| sockets | `okm_net.c` | slots, their states, what each holds | socket, bind, listen, connect, accept, send, receive, dup, close, enquire | states that do not exist beneath, who closes | `Sockets` |
| names | `okm_fd.c`, `okm_syscall.c` | supplied directories, current directory, names of open ones | resolve, open, chdir, fchdir | names that go stale, prefixes | `Names` |
| listing | `okm_syscall.c` | an iterator, the entry held back | getdents | lost or repeated entries | `Listing` |
| transfers at a place | `okm_syscall.c` | a file's position | pread, pwrite, copy_file_range | partial transfers, a position lent | `Transfers` |
| allocator caches | `mallocng/okm_malloc_tc.c` over mallocng | slots held per thread, groups of slots | take, fill, give, flush | a slot in two places | `AllocCache` |
| string functions | `okm_string.c` | none | memcpy to strcmp | loads past an end, overlaps | `Strings` |
| loaded images | `image/okm_image.c` | images and their counts | dlopen, dlclose | initialisers and finalisers outside the lock | `Images` |
| variables of an image | `image/okm_image.c` over musl's keys | a key per variable, a block per thread | first use, end of a thread | destructors that run after the storage | `ThreadVars` |

They meet in few places: everything but memory and contexts takes the table's
lock; a socket, a file and a channel are all descriptions; fork copies every
table at one instant; exec is a spawn, a release of every descriptor and a wait.

## Modules and how they correspond to the code

`LockSpec` states what a lock promises; `OkmMutex` is the word that keeps it, one
action per atomic access (`TryFast`, `Look`, `Cas`, `Exchange`, `Unlock`) or call
of the environment (`Wait`, `Wake`). Because `OkmMutex` implements `LockSpec`,
the modules below take the lock in one step.

`FdTable` has `g_fd`, the descriptions with their counts, the places for
directories' names and the list of what waits to be closed. A call is its begin, a
body under the lock, and closes after it; stores a lockless reader can see are
steps of their own (`Publish`). `FdSpec` is the promise without counts: a handle
stays open until its last name goes, and then the context that took the name away
closes it. `FdTable` implements it (`ImplementsFds`).

`ContextTable` is `find` and its four callers, one action per access to a key.
`Probe`, `Claim` and `Retire` are the three kinds of access; a context is
started, records itself, looks itself up, and retires. A program starts afresh
or from a snapshot with an entry of another context in its table.

`Readiness` is one round of `okm_poll` at a time: each descriptor is asked in
turn, an item or an end is kept, the round ends, time passes. `Read` stands
for read, accept and recv: what is kept is delivered first.

`Memory` has the ordered ranges of `okm_region.c`, the file mappings of
`okm_map.c` and the pages of the environment, each with what a program last put
there. The search by halves is translated as it is and compared with its
meaning (`SearchFinds`). Critical sections and calls of the environment are
separate actions, so an address can be reused in between.

`Threads` is `__clone` and a context's end: reap under the lock, join outside it,
a record allocated, a task started, put on the list, and the identity returned.

`CondVar` is `__okm_futex` with musl's `__timedwait`, its normal mutex and its
private condition variable above it. One action is one atomic access or one futex
call; a critical section of `_c_lock` is one action, since what others do to its
nodes meanwhile commutes with it. Nodes are the waiters' own stacks: a node of a
call that has returned is dead, and `NodesInUse` says nobody follows one. The
environment cannot move a waiter from one word to another, so `FUTEX_REQUEUE` is a
wake. Waiters take tokens and givers make them, which gives a signal a meaning.

`Sockets` has the descriptors, the slots with their states, what an enquiry took
and kept, and who holds each connection or message. `SockSpec` is what a program
may believe: queues of arrivals, of which accept and receive take the first and
asking takes nothing. `Sockets` implements it (`ImplementsSockets`).

`Names` resolves by name, as `okm_resolve` does, over places that are sequences of
components; `cwdAt` and the place a descriptor was opened at are where the handles
really lead, and `LeadsThere` compares the two. `Listing` is the iterator and
the entry held back when a buffer is full. `Transfers` is `do_transfer_at` with
and without the environment's help, and `copy_file_range`; a byte is its position
in its file, so what was moved can be compared with what was asked.

`AllocCache` is one size class: the caches of the threads above mallocng's groups,
their two masks, the list of groups and its activation. What is done under the
allocator's lock is one step; giving back without it is three.

`Strings` is one call of one function, a step per branch or turn of a loop with
the loads it makes; `StringCalls` enumerates the calls. The answers are compared
with a definition of each function, the loads with the pages the arguments reach.

`Images` has the list of placed images with its counts, and for each context
the stack of initialisers and finalisers it is inside, which call dlopen and dlclose
themselves. `ThreadVars` is `__emutls_get_address` and `tls_release` over musl's
keys and `__pthread_tsd_run_dtors`, whose rounds are walked one key at a time.

`Spawn` is one call of `__okm_spawn_common`: the three positions seeded from the
caller's descriptors, one action per file action, the null device, the
environment's capabilities, the start and the release. `Asked` is the reference:
each action applied to what those before it left.

`Children` is the child table in a program of several contexts and in the copy
fork makes of it. `Reserve` and `Commit` are shared by fork and by the recording
of what was spawned, as in the code; `WaitFind`, `WaitEnds`, `CloseHandle` and
`WaitReturns` are wait4, which takes no lock, and `WaitNoHang` its other form. The
environment's identifiers and the numbers the library reserves are not kept apart
(`g_next_pid` starts at 1000 whatever the identifiers are, `okm_syscall.c:1012`), so
two entries in use can bear one number; a behaviour ends there (`Clash`).

The `MC` modules give the small sets. `MCParts` and `MCPrograms` hold instances of
several parts that share no state; a variable `part` says which one a behaviour is
of, and a property named there is the part's own, restricted to its behaviours.
Definitions named for a variant (`CasBlind`, `PlaceKeepsNull`, `DupKeepsOld`) are
mistaken forms of the definition that follows them, used to see that a property
notices.

## What the runs show

| run | instance | what is checked |
|---|---|---|
| `mutex` | 3 contexts, 2 looks | exclusion; a sleeper is always accounted for by the word, a pending wake or an awake context; the word implements `LockSpec` with its progress; once nobody newly asks, all are served |
| `fd` | 2 contexts, 2 descriptors and descriptions, 1 place for what waits, a directory, a pipe, a socket, the null device | exact counts; lockless reads use open handles; every open handle has one keeper, failed calls included; `FdSpec` is implemented; calls return |
| `readiness` | a terminal, a channel, a file, a listener, descriptors that are closed, write-only or refused; 2 items, 1 end; waits of 0, 2 or for ever | what poll takes is delivered once and in order; what it reports stays true until it is used; a bounded poll returns; input ends a poll |
| `memory` | 2 contexts, 4 pages, lengths 1 and 2, a file of 3 pages mapped from an offset that is not aligned | the search finds; tables and environment agree; memory reads as last written or as zero where promised; whole unmaps release |
| `threads` | main and 3 tasks, 2 records | a record lives until its task has ended; each task is waited for once; `__clone` returns |
| `condvar` | 2 waiters that wait again, or 3 that wait already; a giver; one waiter with a deadline, past or still to come | the mutex excludes; no dead node is followed; a token that was signalled is taken; waits that are signalled or bounded return |
| `sockets` | 2 contexts, 3 descriptors, 2 slots, 2 arrivals | every connection has one holder, who closes it; `SockSpec` is implemented |
| `parts` | context table: 3 contexts, 3 slots, colliding and wrapping searches | a registered context finds its own entry and reads its own values |
| | names: 3 supplied directories, one in another; 2 descriptors, 1 remembered name | a name leads where walking it leads, and is refused only outside what was supplied |
| | listing: every directory of up to 3 entries, 4 buffers, failures | every entry that fits is listed once, in order |
| | transfers: 2 files, 2 threads, vectors, copies in blocks | the bytes asked for move, and positions are as before where they must be, but for a refused seek and a short write of a copy |
| | allocator: 2 threads, 2 groups of 3 slots, caches of 2 | a slot is in one place; the code's assertions hold |
| `programs` | posix_spawn: every list of up to 2 of 18 file actions, the callers' tables, the environments | what is started is as asked; nothing opened on the way is kept |
| | child table: 2 contexts and a copy, 2 entries, 3 programs, 2 identifiers, one of them a number that is also reserved | until two entries bear one number, every child can be waited for by the number told, and the entry a wait reads again is still its child's; every entry is accounted for; the copy and its maker agree on its number |
| | strings: every length past two turns of a loop, every overlap, every place in a page | the answers are those of the standard; nothing is loaded from a page the arguments do not reach |
| | images: 2 contexts, 2 images, 4 loadings, calls two deep | a handle leads to a placed image until it is closed |
| | variables: 2 threads, 2 variables, 3 keys, 4 rounds, destructors that register another twice | storage outlives the destructors that read it, and no longer |

Three runs are expected to end in a violation and state what the repository says
of itself:

* `context_refused`: two contexts that start at once may choose one slot, and the
  one that loses the exchange ends the program though the table has room.
* `threads_return`: the identity `__clone` returns is read from a record another
  context may already have freed.
* `children_any`: a wait for any child meets the entry a fork in another context
  has reserved, which has no handle yet, and is refused.

The modules reach further cases, which the passing runs keep out; TLC finds each
of these when the named constant, assumption or property is changed:

* `Memory` with `"leading_part"` in a program: munmap of the first pages of a file
  mapping releases all of it (`okm_map.c:120`, against the comment at 117-119);
  `MemoryAsExpected` fails. With `"past_end"` and an offset whose pages end the
  file, the record claims addresses the environment did not give, and a later
  mapping there is taken for it: `WholeUnmapReleases` fails, where
  `src/README.md:841-842` says "`munmap` of a whole mapping releases it".
* `Readiness`, property `EndsNotLost`: an end of input typed behind a byte that
  poll took is consumed by the read that delivers the byte (`okm_syscall.c:234`).
  `InOrder` does not notice: it says that no end is reported twice. On that the
  code and a comment differ. The read that reports a kept end clears the mark
  (`okm_poll.c:96`), as `okm.h:371-375` says ("the mark is cleared"); the comment at
  `okm_poll.c:131-133` says "the flag is not cleared by the read that observes it".
  The model and `InOrder` follow the code.
  With two contexts on one channel, which the first conjunct of
  `ReadinessAssumption` excludes, kept bytes are lost or overtaken
  (`okm_poll.c:137`); `InOrder` fails.
* `Spawn` with `Reuse = TRUE`: a dup2 whose source an earlier action replaced looks
  it up in the caller's own table (`okm_spawn.c:491`), though 474 says the actions
  are applied "IN THE ORDER THEY WERE ADDED"; `StartedAsAsked` fails.
* `Children`, invariant `~Clash`: two entries in use come to bear one number, in two
  ways. `__okm_child_reserve` takes the next number (`okm_syscall.c:1101`) although it
  may be the identifier of a child; until the new entry is settled, or for as long
  as it is in use where the environment then tells no identifier for it,
  `child_index` (1187), which takes no lock, may find the one that has no handle.
  And a wait closes the handle before it frees the entry (1400-1402), so an
  identifier the environment gives out again in between names both. The model does
  not go on from there, since calls would act on each other's entries;
  `ChildrenWaitable` and `WaitsForItsOwn` are about the states before it.
* `Children` with `AnyWaiters` all contexts: besides what `children_any` shows, two
  waits choose one entry and each closes its handle and frees it
  (`okm_syscall.c:1396`); `ChildrenWaitable` fails.
* `CondVar` with `"exact"` in `Remaining`: a deadline that is exactly now is passed
  on as zero, which is no bound (`okm_thread.c:268`; `okm_poll.c:196-210` avoids the
  same); `WaitsReturn` fails.
* `Sockets` with `Shared = TRUE`: two contexts in calls on one socket take it to two
  states; `OneHolder` fails, although `okm_fd.c:314-315` says of that table that
  this lock guards it.
* `Names` with `Alone = FALSE`: a directory is named after it is opened
  (`okm_syscall.c:427`), so a chdir in between gives it another's name;
  `LeadsThere` fails.
* `Transfers` with a copy within one description: the wrong bytes move and the
  position is not put back, against `okm_syscall.c:1576`; `TransferredExactly` fails.
* `Transfers`: `PositionsKept` says nothing of a position, until the next seek, in
  three cases the model reaches. A seek back that is refused is not looked at
  (`okm_syscall.c:336`, 1624, 1630), and a refused seek of the output of a copy
  returns with the input's position moved (1598), both against 1576, "saved and put
  back". A short write of a copy without an input offset leaves the input ahead by
  what was read and not written, where 1633-1635 says "the caller resumes from
  there".
* `FdTable`: when pipe2 finds one descriptor and not the second, the first end stays
  bound to a descriptor the caller is not told of (`okm_syscall.c:2109-2111`).
  `OneKeeper` counts that descriptor as its keeper.
* `ThreadVars` with `MaxAgain` one more than its assumption allows: a destructor
  registered in the last round reads storage already given back.

Read in the code and not run: normalising drops a leading "..", so the check at
`okm_fd.c:698-702` never refuses the name that 692-694 says is refused; chdir does
not release the handle it replaces (`okm_fd.c:752`); lseek on
a directory is refused (`okm_syscall.c:2127`), so rewinddir does not rewind; memchr
loads past its length, within the page (`okm_string.c:605-607`, where 23-25 says it
reads within it; `ReadsWithinReach` is about pages); a variable first used by a
destructor after its key was passed is never given back (`okm_image.c:442`, where
388-389 says it is); an import bound to an `RTLD_GLOBAL` image adds no count to it;
a second opener of an image has its handle before the initialisers have run, and a
path may be opened again while the image that was there is being finalised.

### Bounds

Limits of the code made small enough to be reached: `MaxFd`, `MaxDesc`, `MaxDirs`,
`SettlingMax`, `N` (slots of the context table; of a group), `MaxChild`, `MaxOpen`,
`MaxNamed`, `Slots` of sockets, `TcMax` and `TcBatch`, `Block`, `MaxEntry`, `MaxKeys`,
and `Iterations`, which is musl's own 4. So are `Records` and `Groups`, the memory
there is. Every run that has one fills it. Two contexts are enough for one
to overtake another, three for a third to be forgotten (the lock), to lie on
another's chain (the context table), or to stand between two others on a list
(the condition variable).

Caps of what is unbounded: `MaxItems`, `MaxEnds`, `MaxProg`, `MaxNumber`, `MaxOps`,
`MaxThings`, `Programs` (the calls each thread has to make), `Size` and `Wants`,
`MaxLoads`, `MaxRefs`, `MaxDepth`, `MaxAgain` and the number of pages. Each admits an
item behind an item, reuse of an entry, an identifier or an address, an action
that undoes another, and a call inside a call. Two file actions suffice since a
third meets only what the last of the two left at its position.

`Strings` keeps the proportions of the vectors, not their sizes: narrow and wide
are 4 and 4 or 4 and 8 bytes, a page is 8 vectors, and the lengths below one vector,
whose branches depend on the real 16, are run with 16. No call is near the end of
the address space: where memchr takes the highest address for the end of its range
(`okm_string.c:602`) is not reached.

What the passing runs keep out by a constant is named above: `AnyWaiters` keeps
waits for any child to the copy, where the race of `children_any` is not possible
(so `WaitAnswered` is of that run alone);
`Reuse`, `Shared`, `Alone`, `Remaining`, `Copies`.

Contexts are symmetric in `memory`, threads and groups in `parts`; neither
checks liveness. Deadlock is checked in `mutex`, `memory` and `programs` (for the
child table, whose contexts may all be done, a stuttering step stands in), and not
where every context may end or have no call left to make within the bounds. Types
are no question of a run: they are part of the invariants that are proved.

### Fairness

A context that has begun a call goes on with it (`WF` of its steps): the
environment schedules every task. Nothing is assumed of calls not yet made. For
the lock as taken by `FdTable`, fairness is that of `LockSpec`: while somebody asks,
somebody enters, not that a given one does. A bounded wait of the environment
ends (`Readiness`, `CondVar`). In `Threads` a task on its way out finishes and
ends, which is what reap waits for; a task may run for ever. The other
specifications state no fairness and no liveness.

## What is proved

TLAPS checks the following for every value of the constants that the named
assumptions allow; TLC evaluates the assumptions in the runs.

| module | theorem | from |
|---|---|---|
| `OkmMutexProofs` | `TypeCorrect`, `Exclusion`, `WakeupKept`; `RefinesLock`: the word implements the safety of `LockSpec` | `LooksAssumption`, `NoneAssumption` |
| `FdProofs` | `RefsExactAlways`, `OneKeeperAlways`, `ReadSeesOpenAlways`; `TableImplementsFds`: `FdTable` implements `FdSpec` | `SizesAssumption`, `HandlesAssumption` |
| `ReadinessProofs` | `InOrderAlways`, `ReportStaysTrueAlways` | `ReadinessAssumption`: contexts use separate descriptors |
| `SocketsProofs` | `OneHolderAlways`; `SocketsAreQueues`: `Sockets` implements `SockSpec` | `SocketsAssumption`, and `~Shared` |
| `CondVarProofs` | `MutexHeldAloneAlways` | none |
| `ThreadsProofs` | threads: `RecordKeptAlways`, `WaitedForOnceAlways` | `NamesApart` |
| | their variables: `VariablesOutliveDestructors` | `ThreadVars!Assumptions` |
| `PartsProofs` | context table: `RegisteredIsFoundAlways`, `ReadsOwnAlways` | `ContextsAssumption` |
| | listing: `EveryEntryOnce` | `Listing!Assumptions` |
| `TransferProofs` | `TransferredAlways`: `MovesTheRightBytes` and `PositionsKept` | `Transfers!Assumptions`: no copy within one description |

Each goes by an inductive invariant `IInv`, one lemma per action or per conjunct,
and a last temporal step. Why the property alone is not enough:

* The lock: a context could take a word that is 0 while another holds.
  `WordTellsHeld` says the word is 0 exactly while nobody is inside, `LooksLeft` types
  the loop's counter. `NoLostWakeup` is inductive given the types. For the
  refinement each action is a step of the abstract lock or none.
* The descriptor table: counts, keepers and readers hold up one another. A
  description is retired when its count is zero (`Counts`), what it held then
  waits with one context (`Keeping`, `Waiting`), the one store not yet made is
  counted already (`Publishing`), and a reader's description is still named
  (`Readers`). That a free descriptor comes with a free description is a
  pigeonhole argument over the counts and needs `MaxDesc >= MaxFd`, which is how
  `okm.h` chooses them. For the refinement the store of a descriptor is no
  step, because the promise counts it as made with the description.
* Poll and the reads: what is kept of a descriptor is the next item or an end and
  never both (`KeptOK`), a context's place in its call says what it found there
  (`Placed`), and what the environment still holds is all the rest, in order
  (`Rest`). An item is nobody's between the read that took it and the store that
  keeps it: `Mid` counts it there. A step of one context leaves the descriptors of
  the others alone (`OwnStep`), which is where the assumption is used.
* Sockets: a slot holds what its state allows (`SlotOK`), a call finds the slot as it
  left it (`CallOK`, `OneCall`), and numbers are given once (`Numbered`). `HeldOnce`
  is `OneHolder` without counting. For the refinement the queue a program
  sees is what the call has in hand, what the slot keeps and what waits in the
  environment (`QueueRight`): an enquiry moves an item along it and is no step.
* The condition variable's mutex: `Sound` says where a sleeper goes on when it is
  woken, so that being woken neither takes the mutex nor gives it up; the word is
  0 only while nobody has it (`HeldInv`).
* The context table: no lock guards it. `Present` says a slot once used is never
  free again and a key's chain has no free slot before it, `Searching` what a
  search has passed, `Own` that only a context writes its own key.
* Threads: `Accounted` says who is responsible for each allocated record: the list,
  or the one context that starts, links, waits for or frees it (`Held`, `NewOnce`).
* Listing: what was listed and what is held back are together what the iterator
  has given. `Assumptions` are types only.
* Variables: the header of a block counts the calls of its destructor still to
  come. `Storage` relates that count to the round and to whether the key was
  visited in it; `Runtime` bounds the rounds in which the runtime's key can still
  have a destructor. The assumption `MaxAgain + 2 <= Iterations` says how many times
  a destructor may register another; with one more the property fails.
* Transfers: `plain` is where plain reads and seeks left a position, or `None` after
  one of the three exceptions above, until the next seek (`Agrees`). A position that
  is elsewhere is one a call in progress has moved (`Moving`): a copy, whose two files are then nobody else's
  (`Separate`), or a transfer that has the lock. `TransferOK` and `CopyOK` say, at each
  place in a call, how far the position is from where the call began and that what
  was moved follows on without a gap, which is why a short transfer continues at
  the right byte and the position put back is the one that was saved.

Only model-checked: liveness (`ServesEverybody`, the progress part of
`ImplementsLock`, `CallsReturn`, `BoundedPollReturns`, `InputEndsPoll`, `CloneReturns`,
`GivenIsTaken`, `WaitsReturn`), which rests on fairness and is outside the prover's
reach; what needs induction over data, which is too: the search by halves
(`SearchFinds`), the list of waiters a signal walks (`NodesInUse`), the file actions
applied in turn (`StartedAsAsked`), normalised names (`LeadsThere`), counts that
are sums (`HandlesUsable`) and the string loops; and the other properties of `Memory`,
`AllocCache`, `Spawn` and `Children`, on the instances above.

## Not modelled

The map covers about a quarter of the lines of the port layer (`src/port/src/`,
some 12,000 lines), those where its contexts, tables and calls meet. Of all of
`src/`, some 114,000 lines, that is a few per cent: more than four fifths of them are vendored
musl, upstream's own code - stdio, locale, mathematics, time, the resolver,
headers, tables - which is sequential, does not depend on this port beyond its
system calls, and is not what this project is about. What remains of the
port layer is system calls passed on one to one, comments, formatting, tracing,
statistics, wording of diagnostics and translation of constants. The components
`PROJECT.json` lists as `not_modelled` say why: each has no state of its own, or no
interleaving.

Left out within modelled parts: the close-on-exec mark and the status flags of a
description; which directories a started program is granted
(`okm_preopen_attenuate`); the search of `PATH`; `kill`, whose look-ups are those of
`Children`; per-context state carried by a copy; a failing commit in
`MADV_DONTNEED`; several stores of one entry of the child table seen one by one;
process-shared condition variables, the other kinds of mutex, cancellation; the
options and addresses of sockets; volumes, symbolic links and the lengths of names;
the coarser classes, nested groups and large blocks of the allocator; `RTLD_GLOBAL`,
reading an image (libokld is not of this repository) and its symbol hash; string
functions a word or a byte at a time, and the choice between the vector families.
