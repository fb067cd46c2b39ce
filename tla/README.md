# jbdtool in TLA+

`jbdtool` reads and sets JBD battery management systems (BMS) over a serial
line, a TCP socket, Bluetooth LE or CAN.  One invocation locks the target,
opens a transport, makes a few register exchanges, prints or publishes the
result and ends.  The modules here are translated from its C sources; this
file says which part of the code each one stands for, what is checked on small
instances with TLC, what is proved for all instances with TLAPS, and what is
left out.

## 1. Inventory

| part | source | state it keeps | operations | what is hard |
|---|---|---|---|---|
| target lock | `utils.c` `lock_file`, `unlock_file`; `main.c` `clear_lock`, 1000-1018 | `/tmp/<target>.lock`, `lockfd` | open and lock, give up (`-N`), close, unlink at exit | several processes, kills, a name that is unlinked while others use its file |
| register exchange | `jbd.c` `jbd_cmd`, `jbd_verify`, `jbd_rw` | `retries`, one receive buffer | write request, read reply, verify, retry | late, split, lost, garbled replies; no sequence number; retries that execute twice |
| invocation | `main.c` `main`, `write_parm`; `jbd_info.c` `jbd_eeprom_start/end`, `jbd_set_mosfet`, `jbd_reset`, `jbd_get_info` | the loop index, `data[]`, `info`, exit status; in the BMS: EEPROM open, registers, FET switches | read and write loops over parameters, `-g/-G`, `-X`, dump, default info | partial failure: each exchange can fail, loops break, continue or return |
| parameter codecs | `main.c` `params[]`, `pdisp`, `parse_bits`, `write_parm` | none | text to register bytes and back | fields packed in a register, widths, empty bit lists |
| CAN requests | `jbd.c` `jbd_can_get*`, `jbd_info.c` `jbd_can_get_info` | retry counter | remote frame and answer, CRC | retry count at its limit, CRC of zero |
| bt transport | `bt.c` | buffer filled by the GLib thread, mutex, thread | open, read with 10 s timeout, write, close | two threads, buffer cleared while a reply arrives, shutdown of the loop thread |
| CAN transport | `can.c` `up_down_up`, `can_open/read/write/close` | socket | bring the interface up, blocking read with an id filter | a read that never returns, the interface left down |
| frame codec | `jbd.c` `jbd_crc`, `jbd_cmd`, `jbd_verify` | none | build a request, check a reply | the register is not under the checksum, frames have no end but their length |
| serial transport | `serial.c` | descriptor, line settings | set the line and flush it, one `select` and one `read`, write | replies cut in pieces, bytes from before the flush, a line set wrong |
| ip transport | `ip.c` | socket | connect, `select` and `recv` until nothing comes, send | replies run together, the peer closes, a failed `connect` leaves the socket open |
| MQTT repeat loop | `main.c` 1139-1429, `mqtt.c` | broker connection, JSON document | connect, publish, disconnect, sleep, repeat | stale data published after a failed read, broker outage ends the daemon |
| lists | `list.c` | doubly linked nodes, items copied or not, a cursor | add, copy, delete, iterate, sort, destroy | pointers, blocks and the cursor over long sequences of calls (`jbdtool` itself does not sort, nor delete under the cursor) |
| module registry | `module.c`, `main.c` 980-990 | the list `conf->modules` | find a module or initialise and add it | iterates with the list's own cursor |
| configuration | `cfg.c` | sections and items | read, write, get, set | not used by jbdtool (`#if 0` in `jbd_init`) |
| formatting, JSON | `main.c` display functions, `parson.c` | output tree | print, serialise | vendored library and layout |
| logging, daemon, string helpers | `utils.c`, `daemon.c` | log file | log, tokenise, `fork` | pure I/O; `daemon.c` is not called |

How they interact: `main` takes the target lock, then calls the pack's `open`,
`read` and `close`, which go through `jbd.c` to the transport module loaded for
the `-t` argument.  All parameter traffic is `jbd_rw` calls over the
transport's `write` and `read`; the transports differ in whether a `write`
empties what was received before and in how long a `read` waits.  Nothing but
the lock is shared between invocations, except the BMS itself.

What makes each part correct: at most one invocation talks to a target; a
successful exchange means that the BMS executed it and that nothing older is
still to come; parameters are changed only inside the
`jbd_eeprom_start`/`jbd_eeprom_end` bracket, each written whole or not at all,
nothing after the first failure, and the EEPROM is closed in the end; setting
one FET leaves the other alone; what `-j` dumps can be written back; every call
returns.

## 2. Modules

| module | what it is |
|---|---|
| `TargetLock` | the lock protocol of any number of invocations, with kills |
| `JbdRw` | `jbd_rw` and the link to the BMS |
| `AtLeastOnce` | abstract: the remote call `jbd_rw` promises |
| `JbdRwProofs` | theorems about `JbdRw`, the refinement among them |
| `Frame` | requests and replies as bytes: `jbd_crc`, `jbd_cmd`, `jbd_verify` |
| `Stream` | the serial and ip transports on a stream of bytes |
| `ByteStream` | abstract: the stream `jbd_rw` needs of them |
| `StreamProofs` | theorems about `Frame` and `Stream`, the refinement among them |
| `Session` | control flow of one invocation, an exchange being one step |
| `SessionProofs` | its theorems |
| `Bt` | the Bluetooth transport: two threads, a mutex, the receive buffer |
| `ReceiveBuffer` | abstract: the buffer a transport promises |
| `BtProofs` | theorems about `Bt`, the refinement among them |
| `Can` | opening the interface, and the requests of `jbd_can_get_info` |
| `CanProofs` | its theorems |
| `Params` | register to text, to file, and back to a register |
| `ParamsProofs` | its theorems |
| `MqttLoop` | the repeat loop that reads and publishes |
| `MainProofs` | theorems about what `main` does around all else: `TargetLock`, `MqttLoop` |
| `List` | `list.c` on a heap of nodes and copies |
| `CursorList` | abstract: sequences with a cursor |
| `Registry` | loading the modules, and other lists on the same heap |
| `RegistryProofs` | theorems about `List` and `Registry`, the refinement among them |
| `MC_*` | instances for TLC |

How they hang together: `TargetLock` is about several invocations, all others
are about one.  `Session` takes for granted about an exchange what `JbdRw` finds
out about it, and `JbdRw` about a transport what `Stream` and `Bt` find out: a
reply may be split, late, run together with another, and what was left over is
kept or cleared.  `Stream` composes the two transports without threads with the
frames of `Frame`, `Registry` the loading of modules with `List`.  `Params` looks at
the values which `Session` only moves around.

### TargetLock

`path` is the inode the name is linked to; `pc` and `fd` are each invocation's
place and descriptor.  `Open` and `Acquire`/`Deny` are the two system calls of
`lock_file`, `Unlock` and `Unlink` the two of `clear_lock` (or `main`'s own
`unlock_file` followed by the exit handler's `unlink`).  The file and the name
are kept apart because the code unlinks the name after it has given up the
lock.  `orphaned` records that a name was unlinked while another process had
that file open; two holders exist only after that.

### JbdRw and AtLeastOnce

`Script` is the sequence of calls a caller makes; it may leave calls out, which
covers `main`'s early exits.  `CallRw`, `GiveUp`, `Write`, `ReadGood`,
`ReadBad` and `ReadError` are the statements of the `while(1)` loop of
`jbd_rw`.  A reply is kept with the number of the call it answers as a ghost:
`Verify` looks at `Script[id].reg` only, as `jbd_verify` does.  `wire`, `back`
and `rx` are the requests under way, the replies under way and the receive
buffer.  With `ClearOnWrite` the transport is `bt`, without it `serial` or
`ip`.

A read-modify-write makes two calls to one register, and there the answer of
the first may be taken for the second's.  `Alone(i)` says that no call made
before `i` has its register.  The guarantees that need it are conditional on
it: a success is the BMS's own answer to this call, and nothing older is still
on its way.  `AtLeastOnce` says what callers may rely on while all calls made
are alone: a success was executed, a failure may have been executed any number
of times up to `Limit`, never after a later call was.

### Frame, Stream and ByteStream

`Frame` has the code's constants and sixteen-bit checksum.  In `Stream` the BMS
answers a request (`Execute`) with such a frame, its data or an error status,
byte after byte on `line`; `Arrive`, `Damage` and `Lose` move a byte to the
kernel's `queue`.  For serial, `SerialOpen` and `Configure` are apart because
bytes may come in between them, and `SerialTake`, `SerialTimeout` and
`SerialError` are the ways through `serial_read`.  For ip, `IpRecv` is one round
of the loop of `ip_read`, which gathers in `buf`, and `IpFull`, `IpTimeout`, `IpEof`
and `IpError` are the ways out of it.  A line set by the `-t` options to something
the BMS does not understand (`Matched`) loses the requests.  The first write after
the peer has closed provokes a reset, and the one after that kills the program
(`WriteKills`).

What the two promise is `ByteStream`: empty when opened, each byte handed out
once and in order, nothing returned only when there is nothing.  `avail` is what
the kernel holds and, for ip, what the call has gathered so far; a failing read
may drop bytes but never reorders them.  `AcceptedIsReply` is the property of
both transports and `jbd_verify` together: what is accepted is a whole answer to
a request that was sent.  Without damage it is one to this register; with a
damaged byte the register, and only it, may be wrong.

### List, CursorList and Registry

`mem` is the heap: `node` with item, size, previous and next, `block` with what
items that were copied point at, `head` with first, last and the cursor of each
list.  Each function of `list.c` is an action; `Linked`, `Unlinked`, `AllCopied`,
`Destroyed` and `Swapped` are their pointer operations.  `malloc` gives any node and
any block that is free, the same ones each time the heap looks the same: no
property depends on which.  `list_sort` takes one step per round of its outer
loop (`SortSwap`, `SortOn`), so that its end is a property and not an assumption.
It swaps items and leaves nodes alone, which is why the cursor keeps its place
and not its item.

`CursorList` has sequences and indices: a cursor behind the end stays there when
something is added, unless the list was empty; a deletion under the cursor
moves it to the next item.  A sort happens when `list_sort` returns.

`Registry` adds the walk of `mybmm_load_module` through `conf->modules` with that
list's own cursor, as `main` calls it twice, then lets callers do what they like
with two other lists on the same heap.  Static modules and copied items share
the code paths of `list_add` but not those of `list_destroy`.  No caller in the
source adds a list to itself or deletes a static item, and the model does not.

### Session

A command line is a plan, a sequence of blocks (`-g/-G`, `-X`, dump, info, the
read and write loops).  Each exchange is one step with every outcome `JbdRw`
allows (`Outcome`).  Among them is the exchange that an answer to an earlier one
with the same register settles: a write that was lost returns 0 on the late answer
to another write or to the read before it, and a read returns what the register
held before.  `late` is the set of answers to a register that may still come, more
of them than a link in order would deliver; `misled` records the registers where one
was taken.  START, which may be written once per block, counts among them; the other
registers of the program are used once, or the result of the later use is not looked
at.  `Open`, `Start`, `End` and `Close` are the steps all
blocks have; `OnUnknown`, `OnReadFailure`, `AfterStart` and `AfterWrite` collect
what the loops do differently.  The BMS executes a write only with its EEPROM
open, which is why the code brackets them.

### Bt and ReceiveBuffer

`pc` is the place of the program's thread in `bt_open`, `bt_read`, `bt_write`
and `bt_close`; `thread` is that of the GLib thread in
`dbus_main_loop_thread` and `on_properties_changed`.  The critical sections are
split where another thread can get in between: the callback checks, copies and
adds in three steps.  `bt_close` destroys a mutex that only `bt_new` makes, so
after the first close `CallbackLock` may find a lock that excludes nobody: the
model lets it in.  `subs` counts subscriptions, which are never undone.  During
the first open the two threads together behave as `ReceiveBuffer`, a buffer
that is added to, taken whole and cleared in one step each.

### Can

`UseAsIs`, `SetRate...` and `Bind` are the ways through `can_open`; `Write`,
`ReadOurs`, `ReadOther` and `ReadError` those of `can_write` and `can_read`.
`jbd_can_get_info` asks for one id after the other (`NextGet`), and what it
takes from an answer depends on how many cells and sensors the answer to the
sizes request named.  The ids are numbered 0 upwards in the order they are asked
for: `HEAD`, `TEMPS`, `CELLS`, `TAIL` say how many there are of each sort and `PER`
how many values a frame holds, so that the boundary of the last, half-filled
frame is there in a small instance.  Another node's request for an id looks
like an empty frame with a CRC of zero (`Peer`).

### Params

`pdisp` is the function of that name as a value, `DumpParm` its loop; `Edit` and
`WriteFile` are what may happen to the file and to the BMS in between; `Loaded` is
what a reader of `main` makes of a value, `parse_bits` and `SentBytes` what
becomes of it.  Sizes are the real ones (16-bit registers, the real bit names and
buffer), because `_addstr` and `_putshort` are about them.  `SetNames` and
`NamedMask` are the two loops over a table of bits, functions of how many of its
eight rows are done.  A packed type has no case in `write_parm`: its bytes may be
anything.  An edit may be anything as well, also what is no value of the
parameter.  Exchanges succeed.

`Join` is how far the readers take a list of words, and `JoinWord` a round of it.  Of
a JSON array, elements that are no strings (`NotString`) are passed over, and the
first string that does not fit into `temp` ends the loop.  Of a text line, whose
value begins in column 26, `fgets` keeps what fits into `line`, the last word
perhaps only in part (`Beginning`); the rest is read as a line of its own, which has
no known label.  A JSON string is handed over as it is.  `MaskFromNames` says what
becomes of a mask in terms of the words in the file (`Taken`): some first part of
them, all of those of a list no longer than the names of all bits.

### MqttLoop

One action per call in the loop: the exchanges of `jbd_std_get_info`, `Display`,
`Connect`, `Publish`, `WaitOver`, `Disconnect`, `Sleep`.  A value is represented by
the round it was read in; `info` and `doc` live on from round to round.  `at` is the
program counter; the names differ from those of `TargetLock` (`LoopInit`, `OpenPort`),
for `MainProofs` extends both.

## 3. Runs

| run | question | bounds |
|---|---|---|
| `lock_all` | one holder until a name is orphaned; no litter without kills; waiters served; `-N` answered | 3 invocations, 2 kills |
| `lock_overlap` (violated) | `docs/main.md`: invocations "cannot interleave" | 3 invocations |
| `rw_edit` | whose answer is taken, genuine and settled successes, retry bound, refinement, return | start, read, write, end of one parameter, any left out; 2 attempts, 1 fault |
| `stream_bytes` | what the transports hand out, what `jbd_verify` lets through, return of reads | 2 requests (a read, a write), 2 opens, 1 fault, a buffer of 10 |
| `lists` | the heap is sound, the lists behave as sequences with a cursor, `list_sort` ends | 3 lists, 4 nodes, 2 values, 2 modules |
| `session_all` | bracket, what is written when something fails, clean exit, FETs | lists of up to 3 parameters, all block kinds, 2 faults |
| `session_bracket` (violated) | `docs/main.md`: access is bracketed | no faults |
| `session_round_trip` (violated) | `docs/main.md`: a dump can be written back | no faults |
| `bt_link` | buffer bounds, atomicity, shutdown, return | 2 opens, 3 fragments, a buffer of 3 |
| `can_info` | the information is complete or the call fails; a bus in use is left alone; return | 2+2+2+1 requests of 2 values, 3 cells, 1 retry, 2 faults, 1 foreign request |
| `params_files` | a dump written back restores; a mask is what is named, as far as the list is taken | lists of 2 or 3 parameters, bytes 0, 6 and 255, one edit |
| `mqtt_rounds` | what is published was read in one go; the loop goes on | 4 rounds told apart |

Why the bounds are enough.  The lock needs three processes: one leaving, one
waiting on the old file, one arriving.  `jbd_rw` makes five attempts; two
give a first and a last one, a late answer of the first inside the second, and
late answers of one call inside the next; the script has two calls to one
register and two to others.  In `Stream` a reply to the
read is 8 bytes and one to the write or with an error status 7, so a buffer of 10
(256 in the code) holds one reply but not two: `ip_read` fills it with a late reply
and part of the next.  The data is the end byte of a frame, and a damaged byte
becomes the other register's number: the two ways in which a wrong frame could
pass.  The second open is the one that finds bytes of the first.  In `List` four
nodes give a list of three items beside a fourth node in another, or two lists of
two; a swap, a deletion at either end and in the middle, and equal values all
occur.  In `Session` a fault is an exchange that does not
end well; two cover a failure and a failure of what is done about it (the `end`
after a lost write), or a write answered twice and a later one to the same register
lost.  Bytes there are 0..1 so that both bytes of a word are told
apart and a value that does not fit wraps.  In `Bt` the second open is the one
with the destroyed mutex and the second subscription.  In `Can` three cells in
two-value frames leave one frame half filled.  In `Params` 6 is a mask with
neighbouring bits, 255 as a high byte makes a word negative and as a low byte sets
every name; among the edits are an array that fills `temp` one name before its end
and a line of which `line` keeps four letters of a last word, which happen to be a
name.  In `MqttLoop` a message can be of three rounds: the one before the
last read, the last read, and the current one.

`Session` and `Params` have no type invariant of their own in their runs: what it
would say of registers and of the bracket is part of `AppliedInOrder`, `CleanExit`
and `RoundTrip`.  The types their proofs need are called `Shape` there.

TLC's deadlock check is off (`CHECK_DEADLOCK FALSE`) where a program may end:
a script or a plan that is done, a transport that is closed for good.

### Fairness

Weak fairness on the steps a running program takes by itself.

- `TargetLock!FairSpec`: each process keeps running, but nothing makes a holder
  unlock (it may be an endless `-i` loop, or hang), and the kernel's hand-over of
  the lock is not fair: `Acquire` is only weakly fair, so newcomers may always be
  first.  `WaiterServed` assumes in addition that holders end (`HoldersEnd`), true
  of one-shot invocations; `NoWaitAnswered` does without.
- `JbdRw!FairSpec`: `jbd_rw` itself, whose transport reads return by their own
  timeout (true of `serial`, `ip` and `bt`).  Nothing is assumed of the BMS.
- `Stream!FairSpec`: a read that can return does: `select` has a time limit.
  Nothing is assumed of the BMS, the link or the peer.
- `Registry!FairSpec`: `list_sort` is a loop that waits for nobody.
- `Bt!FairSpec`: the calls of the program's thread and the GLib thread each go on.
- `Can!FairSpec`: `can_read` has no timeout, so `GetReturns` needs the BMS to
  answer, and says nothing once an answer was lost (`lost > 0`).
- `LoopFairSpec` of `MqttLoop`: every call of `main` returns; the broker library has
  timeouts.  Nothing is assumed of the broker.

## 4. Disagreements with the documentation, and other observations

Shown by a run that is violated:

- `clear_lock` unlinks a file others may be waiting on, so two invocations can
  hold the lock of one target (`lock_overlap`).
- An unknown parameter name makes `main` return inside the bracket
  (`session_bracket`).
- The packed sub-fields have no case in `write_parm`; writing back a dump sends
  bytes that were never set (`session_round_trip`).

In the models, and allowed for by the properties:

- `bt_close` can call `g_main_loop_quit` before the thread is in
  `g_main_loop_run`; the join then waits for ever.  `JoinReturns` is about a quit
  that finds the loop running or the thread past it, and is violated without
  that condition.
- A failing `read` makes `can_read` return the frame it has passed over last as
  the answer (`ReadError`).  `InfoComplete` is about runs without such a failure,
  and is violated with one.
- The checksum of a reply does not cover its register, so one damaged byte can
  turn the reply to one request into one to another (`AcceptedIsReply`).
- The status byte of a reply is not looked at: an error status is an answer.
- A write to a connection the peer has reset raises `SIGPIPE`, which nobody
  handles: the process ends, and leaves its lock file (`WriteKills`).
- `mybmm_load_module` takes a built-in module by name without looking at its
  type: `-t jbd` makes the cell monitor its own transport.
- A mask without a named bit dumps as `[ ]`, which `parse_bits` refuses, and the
  writer stops there (`RefusedDump`); so does one that `-n` prints as negative.
- The high byte of a mask register has no names and is written as zero.
- A partial or zero mask does come from typos, although `docs/main.md:50-53` says it
  never does: a value of separators only clears the mask, an element of a JSON array
  that is no string is passed over, names that do not fit into `temp` are never looked
  at, known or not, and a line of a text file is cut at the first blank after the
  value's begin and where `line` ends.  `MaskFromNames` says how much of a list counts
  (`Taken`), and that within it the promise is kept; with `Taken` all of the list
  and a name demanded, `params_files` is violated.
- `-c` output cannot be read back: no line of it has a known label.
- Calls to one register may be settled by late answers of each other (`Alone`): the
  two of a B0/B1 write, or two writes.  `write_parm` then returns 0 for a write that
  was lost, and the loop goes on to the next item.  `AppliedInOrder` allows for a
  missing item in such a register (`misled`), and in no other.
- For the same reason a second block may run inside a bracket that is not open: its
  start was lost and settled by the answer to the first one's.  Nothing is written
  then (`BracketInv`).
- An interface at another bitrate is left down when setting the bitrate fails.
- A round whose read fails publishes the document of an earlier round again.

## 5. Proofs

All proofs are for any number of processes, calls, attempts, parameters, sizes
and faults.  The constants' assumptions are their types and these, which TLC
evaluates for the instances it checks:

- `Stream`: a request fits into `cmd[]`, there is data for each register read, and
  the number of bytes fits into the one byte a frame has for it
  (`RequestAssumption`).
- `Session`: a command line sets FETs first and once, as `main` looks at `-g` and
  `-G` before all else, and has at most one list of values to write
  (`PlanAssumption`), and the register that opens the EEPROM is no parameter
  (`StartAssumption`).
- `Params`: entries that share a register have one type, or are bytes and packed
  fields (`ListsAssumption`, true of `params[]`, main.c:127-201); the names of bits
  have at most eleven letters (`NamesAssumption`), and the buffer for them has room
  for eight with quotes and separators (`SizeAssumption`: more than 112, and the
  code has 192), as have `temp` (`JoinAssumption`: more than 96) and a line after its
  label (`LineAssumption`: more than 122; both are 128); words have a letter
  (`TextsAssumption`, `EditsAssumption`).
- `List` and `Registry`: static items are not addresses of the heap
  (`HeapAssumption`), the name that stands for no list is no list
  (`ListsAssumption`), and the module `main` loads second is a cell monitor, as
  jbd.c:485 has it (`ModulesAssumption`).

What each module proves, and how:

- `MainProofs`, about the lock.  `ExclusiveUntilOrphaned` is not inductive: what is
  needed is that until a name is orphaned every descriptor is on the linked
  inode (`OnPath`) and that an inode has one holder (`OneHolderPerInode`).
  `NoLitter` needs no more than types and its own strengthening.
- `JbdRwProofs`.  The inductive invariant orders the traffic: requests and
  replies under way are sorted by call, the executed ones precede the waiting
  ones (`ExecOrder`), attempts are numbered (`WireTry`, `ExecBound`), and each is
  of a call made (`MadeOnly`).  From it an accepted reply is of this call or an
  earlier one made to the same register; when there is none it is this call's
  own, so all earlier requests have left the wire.  The refinement maps `Execute`
  to `Exec`, `ReadGood` to `Succeed`, `GiveUp` and `ReadError` to `Fail`, all
  else to a stutter.  The theorems hold for transports that clear their buffer
  (`bt`) and for those that do not, while the run has only the latter.
- `BtProofs`.  Types, that the callback never writes outside `data[]`
  (`InsideData`), and that `bt_close` destroys the mutex unheld and after the
  thread is gone (`LockUnusedAtDestroy`).  `InsideData` is proved without mutual
  exclusion, from what the callback has read itself: it holds after the mutex
  was destroyed as well.  During the first open the lock excludes (`Excludes`), so
  under it nobody else changes `len` and `data[]` (`Undisturbed`), notifications
  come once and in order (`InOrder`), and what waits is newer than what was handed
  out (`Waiting`): reads are fresh (`AnswersFresh`) and `Bt` implements
  `ReceiveBuffer`.  `ReadEmpty` maps to `Take`, `ReadNothing` to `TimeOut`, `Add` to
  `Arrive`, `WriteClear` to `Clear`, all else to a stutter.
- `SessionProofs`.  `BracketInv` follows the EEPROM through a block: inside, the
  start was acknowledged, by an answer to an earlier one at worst, and outside, on a
  quiet link, it is shut.  From it
  `WritesInsideBracket` and `CleanExit`.  The rest relates the block being run to the
  command line.  What is left of the plan is an end of it (`PlanInv`), so the block
  that sets FETs is the first (`FetPlace`), the mask it writes is made of what is
  (`InfoTrue`), and once it is done the FETs are as asked (`FetInv`); from these
  `FetsAsRequested` and `OtherFetKept`.  Likewise the block that writes is the only
  one: before it registers are untouched (`Untouched`), in its loop the items before
  the current one are applied (`LoopInv`), and so `AppliedInOrder`.  Since a B0/B1
  write puts back what its read returned, this needs to be known of every answer that
  may come late: it shows its register after some of the items so far (`LateKnown`,
  `LinkInv`).  What holds after some of the items and is then changed by one holds
  after some of more (`Carried`).
- `CanProofs`.  How far the reader is follows from the id it asks for (`Place`), how
  often it has asked from the retries left (`Asked`).  Without other nodes no frame
  comes empty (`NoEmpty`), so the sizes are the BMS's once they are asked for
  (`SizesKnown`) and the cells up to the current one are true (`CellsKnown`):
  `InfoComplete`, also where the last frame is half filled, for all numbers of cells
  and values in a frame.  `BusLeftAlone` is proved from the steps alone.
- `MainProofs`, about the loop. `DeliveredWhole` for any number of rounds
  (`RoundAssumption`). The document is the result of one read that went well
  (`OneRead`, which needs `ReadSoFar`: the parts read in this round are of this
  round), it is never older than what the broker has (`Ages`), and while a message
  is under way the document stays as it is (`InFlight`).
- `StreamProofs`.  `jbd_verify` accepts a sequence of bytes for a register exactly
  when it is a reply to that register, with any status and any data
  (`VerifyAcceptsReplies`).  The checksum is a recursive function of how many
  bytes are summed; that it exists and stays in sixteen bits is an induction over the
  data, carried out as: the numbers for which it fails have no least one.  With it
  the types (`TypeOK`).  `Stream` implements `ByteStream`: what `ip_read` has gathered
  and what the kernel holds together are the stream; that needs `StreamInv`: `buf`
  is empty outside of a read and always on serial (`GatheredInRead`), has room
  (`RoomLeft`), and a closed transport holds nothing (`ClosedEmpty`).  `SerialTake`,
  `SerialTimeout`, `IpFull`, `IpTimeout` and `IpEof` map to `Read`, `SerialError` and
  `IpError` to `Fail`, `Arrive` and `Damage` to `Arrive` or a stutter, `Break` to
  `Drop`, `IpRecv` to a stutter.
- `ParamsProofs`.  A byte is the sum of its bits (`SumOfBits`), so the two loops over
  a table of names are unrolled and compared with that sum: the names printed are
  those of the bits set and none is dropped (`SetNamesAreBits`), and read back they
  give the same byte (`NamesGiveMask`).  Each type that `write_parm` has a case for
  thus writes back what was read (`WriteRestores`).  An unedited entry of the file
  shows what was dumped (`FileTrue`), and a write keeps what others own of a shared
  register, so that the entries written so far are restored (`RoundTrip`), and the
  only dumps refused are the masks without a name (`RefusedDump`).
  `MaskFromNames` is proved with whatever a user may have put in the file: what the
  loop of `Join` has taken after each word is all of them or a first part (`SoFar`,
  an induction with the theorem on least elements), and a list as short as the
  names of all bits leaves room (`RoomLeft`), so that dumps are taken whole.
- `RegistryProofs`.  `WellFormed` and the refinement of `CursorList`, for any
  lists, size of the heap, values and modules.  Neither is inductive; `Inv` is.  It
  says of all lists at once where their nodes are: a sequence of nodes each, linked
  in both directions, no node in two places and none outside that is not free
  (`Chains`); that a node holds a block of its own or a static item, and each block
  has a node (`Owned`); that no item is in a list twice (`OnceEach`).  While
  `list_sort` is at place p, no item before p has one behind it that belongs before
  it (`SortedTo`) and the items are those it was called with (`SameItems`).  The
  walk of `mybmm_load_module` has passed what is in front of the cursor (`Loads`),
  so that a module is added only when it is not there.
  A list as a sequence is a recursive function over the chain.  That it gives the
  nodes of `Chains` (`FollowIs`) is an induction carried out with the library's
  theorem on least elements, and needs that a list has no more nodes than the heap
  (`ChainFits`); the loop that copies a list is done in the same way
  (`AllCopiedIs`).  Then one lemma per pointer operation (`LinkedChains`,
  `UnlinkedChains`, `DestroyedIs`, `SwappedIs`, `CursorMoved`), one per call
  (`Result`: the lists it is not about are kept; `Calls`: its own changes as
  `CursorList` says), and one per step.  `SortDone` maps to `Sorts`; `SortCall`,
  `SortSwap`, `SortOn`, `InitModule` and `LoadFails` to a stutter, all else to the
  call of its name.

Only model-checked:

- Everything about liveness: fairness and `ENABLED` are out of the prover's reach.
  That `list_sort` ends (`SortReturns`) is among it.
- `AcceptedIsReply`.  It is not true of all data: what is left of a reply that was
  cut may look like a frame itself, and damage in two bytes may cancel out in
  the checksum.  What does hold for all data is `VerifyAcceptsReplies`.

## 6. Not modelled

- The Windows code of `serial.c` and `ip.c` and the buffer under `USE_BUFFER`, which
  are not compiled on Linux; name resolution.
- `cfg.c` and `daemon.c` (not reached from jbdtool), `parson.c` (vendored),
  display and output layout, logging, the string helpers of `utils.c`.
- `jbd_read` with `jbd_get_pack` and `jbd_can_get_pack`, which `main` does not call.
  (`jbd_get_pack` sets the DISCHARGING state, jbd.c:372, where it should clear
  it.)
- The socket a failed `connect` leaves open: `main` ends after a failed open
  (`OpenFails`), so nobody opens the transport again.
- The netlink code of libsocketcan in `can.c` other than as a step that works or
  fails, and its optional filter.
- `-g`, `-G`, `-X` and `-D` over CAN: undefined behaviour (`jbd_rw` calls the CAN
  transport without an id).

## 7. Plan

Done, in this order, the most important first: the lock, the exchange, the
invocation, the `bt` transport, CAN, the parameter values, the repeat loop, the
bytes of the serial and ip transports, the lists and the module registry.  What
is left of the code that `jbdtool` runs is layout, logging and libraries.

Of the safety properties checked on the instances all but `AcceptedIsReply` are proved
for every value of the constants, and so are the four refinements.  What is left to
prove is liveness, which needs another prover.
