# Verification of c-lang-examples

The repository is a collection of C programs. Most are demonstrations of one
function; five of them have state, control flow and an environment worth a
model: a CHIP-8 emulator, the front end of a small language (AQLS), a hash
table, a single-threaded HTTP server and an SCGI back end. Three smaller ones
(`defer`, `zlib`, `libcurl`) are about resources and the calls that fail. This
directory holds TLA+ models of them, TLC configurations that check them on small
instances, and TLAPS proofs of the properties that matter most.

`PROJECT.json` is the index: components, runs, the source lines behind every
definition, the hazards the properties are aimed at, the findings.

To repeat a result, in this directory:

    tlc -workers 2 -config MCAqls.cfg MCAqls
    tlapm Chip8MachineProofs.tla

## 1. The parts of the system

| part | state it keeps | operations | environment |
|---|---|---|---|
| CHIP-8 interpreter (`cpu.c`, `opcode.c`) | memory, registers, `pc`, `i`, call stack | one per instruction, through `cpu_step` | keyboard, timers, random byte |
| CHIP-8 memory, display, keyboard, timers | bytes, pixel buffer, key map, value and timestamp | load, draw, clear, query, start, set, update | file, SDL |
| CHIP-8 start-up (`main.c`, `config.c`) | log level, clock speed, arguments | read two variables, check arguments, load the file, run or list | environment variables, the file |
| CHIP-8 main loop (`machine.c`) | position in the loop, clocks | drain events, step, update timers, flush, sleep | a user who presses, releases, closes |
| CHIP-8 disassembler | address, word, listing | sweep over the program | none |
| AQLS lexer, token queue, parser | position, lookahead ring, syntax tree | peek, take, has more; one per grammar rule | the text |
| hash table | entries, count | put, get, free | its caller |
| HTTP server | position in `main`, listening socket, one connection, one buffer | configure, listen, accept, poll, read, validate, write, close | clients, the network |
| dynamic array | block, length, capacity | push a byte, push a buffer, free | an allocator that may fail |
| HTTP request reader, scanner | the array, a slice of it | poll, receive, find the first line; cut at a byte, a pattern, the end | a peer, an owner of the request |
| SCGI parser | two cursors, state, copied fields | one per byte and state | the input |
| SCGI server | position in `connection_handle`, one connection | accept, read size, headers and comma, parse, send, close | clients, the network |
| SCGI memory helpers (`mem.c`) | a buffer, how much is given out, a cursor | allocate, read digits | a caller, a socket |
| defer stack, and its example | sixteen deferred calls; four blocks | defer, end the scope; three ways to clean up | an allocator that may fail |
| zlib decompression | a chunk, two files | open, read, write, close | files that are cut short, corrupt or full |
| libcurl client | a growing buffer, two handles | the write callback, the request, clean up | the server, an allocator that may fail |

**How they interact.** In the emulator everything is called from
`machine_run`: it feeds SDL's events to the keyboard, calls `cpu_step`, which
reads and writes memory, display and timers, then updates the timers and flushes
the display. The AQLS parser calls the lexer, which owns the token queue as its
lookahead. Both servers are one thread that handles one connection at a time;
they meet their clients only through sockets, the backlog and (HTTP) the timeout
of `poll`. The SCGI server reads size, headers and comma itself, then runs
the SCGI parser on what it received; it only logs the result, but a parser that
did not end would end the server, so the two are one model. The request reader
fills a dynamic array and scans it. The hash table is a library.

**What is hard.** There are no threads in these programs. What a test
hardly reaches is the order in which an environment acts between two steps of
the program (a key pressed and released between two drains, a client that leaves
between two reads, an allocation that fails), long sequences of legal calls
(collisions in a table that never grows, peeks and takes in any order, nested
calls to the limit of the stack) and boundaries (the last byte of memory, a
buffer filled to its end, a sprite across two edges, an unsigned value just too
large for an `int`). `PROJECT.json` lists each under `hazards`, at its line.

**What makes each part correct.**

* interpreter: every register, address and pixel stays in its range; the program
  counter never wraps; calls nest; a result and its flag together are exact;
* timers: they count down at 60 Hz, never below zero;
* main loop: it shows each picture before the next instruction, ends when the
  window is closed, and drives the interpreter only as its specification allows;
* disassembler: lists the instruction the interpreter executes;
* lexer: peeking does not change what is taken; queue: it is a FIFO; parser: it
  accepts the programs of its grammar and nothing else, and ends;
* hash table: it is a map, without gaps in a probe chain, and put ends;
* start-up: no command is carried out on arguments, a clock speed or a file that
  should have been refused;
* servers: every connection is closed on every path, complete requests are
  answered and others refused, one client cannot hold up another longer than the code promises, and
  what can end the server is known;
* dynamic array: what was pushed is kept; request reader: what the peer sent is in
  the array in order, behind a first line, and reading ends; SCGI parser: nothing
  is copied out of bounds, and the decision byte by byte is the one a look at the whole
  buffer gives;
* resources: whatever fails, everything obtained is given up once, newest first;
  what is reported as complete is complete; no block is overrun.

Where the code falls short of one of these, a run shows it (section 3) or the property
names the exception.

## 2. Modules

Control is kept whole: every early return, error path and order of effects is
an action or a conjunct. Data is reduced: bytes of a request are the classes the
code tells apart, tokens are model values, texts are sequences of a few
characters. A process that ends keeps a `status` or `phase` that says how:
`finished` (returned), `exited` (called `exit`), `aborted` (an assertion or a
trap), `undefined` (behaviour the language does not define).

### Emulator

| module | models |
|---|---|
| `Chip8Opcode`, `Chip8Memory`, `Chip8Display`, `Chip8Keyboard` | the constant level: decoding, the font and the loaded program, sprite drawing as a symmetric difference of pixel sets, the key map |
| `Chip8Cpu` | the interpreter. One action per `exec_*` function, grouped as `FailedStep`, `ControlFlowStep`, `RegisterStep`, `MemoryStep`, `DeviceStep`; `KeyboardChanges`, `TimersRun` and `LoopEnds` stand for what the rest of the machine does between instructions |
| `Chip8CallStack` | abstract: a sequence of return addresses with push and pop |
| `Chip8Timer`, `Chip8TimerHistory` | one timer over a millisecond clock; the second adds what it was set to and when, which the property needs |
| `Chip8Config` | the variables of the environment, with `strtoull` and its limits, and the reading of the file |
| `Chip8Mnemonics` | the dispatch table of `disassembler.c` and the operands each row prints |
| `Chip8Machine` | `main` and `machine_run`: extends `Chip8Cpu` with the start-up, the loop's phases, two timers, SDL's event queue and the user |
| `Chip8Disassembler` | the sweep of `machine_disassemble`, its lines compared with what `Chip8Cpu` executes |
| `Chip8MachineProofs` | the theorems about interpreter and machine |
| `Chip8DisassemblerProofs` | the theorems about the table and the sweep |

`Chip8Cpu` treats timers and keys as values that may change at any time between
instructions. `Chip8Machine` is the composition, and its property `DrivesCpu`
shows that the loop changes them only in the ways `Chip8Cpu` allows, so what is
proved of `Chip8Cpu` holds inside the machine.

### AQLS

`AqlsTokenQueue` is the ring buffer with its `start`, `end` and `len`;
`BoundedFifo` is its abstract specification. `AqlsLexer` has the two copies of
the scanning loop, one behind `peek_token` and one behind `next_token`, and owns
the queue: it extends `AqlsTokenQueue` and calls its operations; a regular
expression is the length of what it matches at
a position. `AqlsLexerUse` is a caller that peeks and takes in any order.
`AqlsParser` has one action per parsing function and calls the lexer's actions; beside
it stands the grammar of its comments, over the stream of all tokens.
`MCAqls` has three callers: the parser, the user of the lexer, and a user of the queue
alone, which the lexer never fills. `AqlsProofs` has the theorems about all of them.

### Hash table

`HashTable` probes entry by entry: `hash_table_put` and `hash_table_get` begin a
call and each later step looks at one entry, so the ends of the loops are
visible. The two allocations of put may fail (the code does not look). The hash
function is a variable that never changes, chosen from a set:
the code's properties must not depend on FNV. `KeyValueMap` is the abstract map,
`HashTableProofs` has the theorems.

### HTTP server

`HttpConfig` is the reading of the environment with the conversion from a text to
an unsigned number, the range checks and the narrowing to `int`, at small widths.
`HttpServer` extends it and is `main` with the sockets, and with
`http_headers_validate` as an automaton that takes a byte per step: it configures itself one
variable at a time, and the values it accepted decide how long the backlog is and
whether `poll` ever times out. Each client connects, delivers its
request in pieces of its choosing and leaves when it likes; failures of `poll`,
`recv`, `send` and `accept` are alternatives of the step that calls them, also that
`poll` reports an error and no data, which an assertion excludes (`io.c:33`); a client
that is gone when it is answered may end the server (`SIGPIPE`). Whether a text that is
no number makes `strtoull` set `errno` is left open by POSIX (glibc returns 0 and does
not); the model has both. `HttpServerProofs` has
the theorems.

`DynamicArray` is the growing buffer with an allocator that may fail.
`HttpRequest` extends it: the three functions of `scanner.c` as operators on
slices, and `http_request_poll_and_read`. `HttpRequestProofs` has the theorems about
both. The repository has no caller of it (the header says
deprecated), so the caller is any owner of the array, who may use it before, scan
it afterwards and read again. `request_completed` is never set: every way out of the
loop is an error, and the lines behind it are never reached.

### SCGI

`ScgiParser` is the parser, one action per state of its `switch`, with cursors
as offsets and the fixed local arrays as a bound. `ScgiServer` extends it: the
accept loop and `connection_handle`, which reads the size digit by digit, the headers
until they are complete and one byte for the comma, all with blocking reads, runs
the parser and answers. `ScgiServerProofs` has the theorems about both.

### Small programs

`ResourceLedger` records what a program has obtained, lost or given up;
`LifoResources` is the abstract specification: obtain, and give up what was obtained
last. On the ledger stand `DeferExample` (the stack of `defer.c` with a user, and
the three functions of `main.c`), `Uncompress` (`hbmo_uncompress` with its labels;
`main` returns before it, so any caller; the size of the chunk is narrowed to the
`unsigned` that `gzread` takes), `ResponseBody` (the libcurl client; `printf` stops at a
NUL byte and takes the size as an `int`) and
`ScgiMemory` (allocator and reader of the SCGI back end, which creates them and
never uses them, so any caller). `SmallPrograms` puts them and `HashTable` into one specification
in which a variable says which program runs: they share a run, not their state. `SmallProgramsProofs` has the theorems.

## 3. Runs

Passing runs:

| run | instance | shows |
|---|---|---|
| `cpu` | real sizes; some two thousand programs of two instructions after a load of all registers, plus the largest program, one too large and the empty one; two keyboard states; two random bytes | `CpuTypeOK`, `ProgramCounterInReach`, `CallsNest` (the stack implements `Chip8CallStack`), `ArithmeticIsExact` (sum, difference, shifts and decimal digits with their flag) |
| `machine` | programs that wait for a key, poll a timer, poll a key, fail; the empty one and one too large; missing and unreadable files, wrong arguments and levels, clock speeds on both sides of every limit; three keys; three user actions | `StartsAsConfigured`, `TrapsOnlyAtZero`, `DrivesCpu`, `ShownBeforeNextStep`, `QuitEndsProgram`, `HeldKeyEndsWait` |
| `disassembler` | all 65536 one-word programs, programs that fill an 8-byte program area or end with half a word, three contents of what lies behind memory | `ListsWhatTheCpuExecutes` (instruction and operands), `StrayWordNeverListed` |
| `aqls` | for the lexer every text of up to four characters of five classes, up to five tokens taken and any number peeked; for the ring of three slots any sequence of appends of four tokens and pops; for the parser every text of up to five of eight chunks | `PeekingChangesNothing`, `IsFifo` (the ring implements `BoundedFifo`), `AcceptsGrammar`, `AppendsInOrder`, `EveryParseEnds` |
| `http_server` | environments with values on both sides of every limit, then two clients, four requests, a buffer that holds less than the longest of them | `DownOnlyForCause`, `EveryPathCloses`, `AnswersHeaders`, `EndOfHeadersFound`, `EveryConnectionEnds` |
| `http_request` | an owner with two buffers to push, peers with three streams that close or stay, `recv` of up to 4 bytes, initial capacity 3 | `KeepsWhatWasPushed`, `RequestInOrder`, `ReaderEnds` |
| `scgi_server` | two clients, eight kinds of request each; and for one client every header text of up to four bytes of three classes, arrays of three bytes | `EveryPathCloses`, `AnswersOnlyFullHeaders`, `FieldsInBounds`, `ParsesExactly`, `OnlySilentClientsBlock` |
| `small_programs` | each of the small programs, with every call that can fail failing; and the hash table with four keys, three entries, sixteen hash functions | `ReleasedInReverse` (implements `LifoResources`), `NothingLeftHeld`, `OutputShortOnlyForCause`, `BodyPrinted`, `BlocksStayApart`; `ChainsUnbroken`, `FailsOnlyForCause`, `IsAMap` (refines `KeyValueMap`), `GetMissesOnlyMovedKeys`, `PutEnds` |

For every property `PROJECT.json`
names a mutant: a plausible mistake in a mapped definition that makes the
property fail on the same instance.

Four runs end in a counterexample. Each states what a comment of the repository
says, and shows that the code does otherwise:

| run | the code | says otherwise |
|---|---|---|
| `cpu_collision` | the collision flag is set by a lit pixel under a *clear* sprite bit, and not by one the sprite erases | `cpu.c:862` |
| `timer_rate` | the timestamp is never moved on, so each update subtracts all ticks since the start again | `timer.h:11` |
| `aqls_grammar` | words are compared as far as the shorter one goes, so `E` is taken for `END`; text behind `END` is not looked at (`AcceptsOnlyGrammar`) | `parser.c:30`, `:87`, `:108` |
| `http_bad_request` | a request without CR LF CR LF is closed without a response (`AnswersBadRequest`) | `main.c:75-76` |

### Where else the code departs from its comments

These differences are in the models, which follow the code. No run of its own shows
them: a property of a passing run that one of them touches has it as a named exception,
and therefore does not catch it.

* `cpu.c:513`: at the last address half of the opcode is read from behind
  `memory[]` (`step_fetch_overrun`), though `cpu.c:27` speaks of memory.
* `machine.c:112`: a key pressed and released between two drains of the event queue
  does not end a wait for a key, which `cpu.c:408` lets "a key is pressed" do;
  `HeldKeyEndsWait` says what the code ensures.
* `lexer.c:138`: taking an end token that was peeked leaves trailing blanks unread,
  so `has_more_tokens` stays true; `lexer.test.c:42-43` asserts the opposite after
  an end token (taken without a peek).
* `parser.c:68`: the statements are appended to a list nobody returns, so the tree of
  `parser.c:46,57` stays empty. `AppendsInOrder` is about the list.
* `parser.c:126`: the position in the error message is the one behind the token.
* `hash-table/main.c:161`: get stops at the first collision, so a key that put had to
  move is never found: `GetMissesOnlyMovedKeys`.
* `hash-table/main.c:126,143`: the result of `calloc` is not looked at; a put of a new
  key that finds no memory copies to NULL: one of the causes in `FailsOnlyForCause`.
* `commons.c:18`: a text that is no number is, with glibc, the number 0, and the message
  "Not a Number" of `config.c:105` is printed only for numbers that do not fit. Where
  the library sets `errno` the server does not start. `DownOnlyForCause` allows both for
  a word; of a number out of range it says that the server never starts.
* `http.c:71`: in CR LF CR CR LF CR LF the end of the headers is not found:
  `EndOfHeadersFound` has exactly this exception. `http.c:66`: the offset is used as
  a length that is one too small, so the last line printed lacks its LF.
* `http.c:25`: a first piece of one byte fails an assertion, which ends the server, and
  so does a connection of which `poll` reports an error and no data (`io.c:33`): causes
  in `DownOnlyForCause`.
* `http.c:158`: the scanner's length grows by two where its start was meant to move,
  so its slice reaches behind the data; nothing uses it afterwards.
* `http.c:128`: a request that was read to its end is reported as an error like
  any other, since nothing sets `request_completed`.
* `mem.c:60` of the SCGI back end: the digits are compared with `max_digits` but not
  counted; only the end of the block limits them (`BlocksStayApart`).
* `zlib-uncompress.c:154`: the results of `fclose` and `gzclose` are not used, so 0 may
  be returned for an output that is not complete; and `zlib-uncompress.c:123` narrows the
  size of the buffer to `unsigned`, so that of a multiple of 2^32 nothing is read, which
  looks like the end: the causes in `OutputShortOnlyForCause`.
* `hello-libcurl.c:93`: the body is printed up to its first NUL byte only, and one longer
  than `INT_MAX` is cut, or read beyond its end. `BodyPrinted` says what is printed of a
  body whose length is an `int`, and that it was collected in full in any case.
* `config.c:56` of the emulator: a clock speed that is no number is 0 Hz, and a
  negative one is taken modulo 2^64.
* `dynamic-array.h:145`: after a failed `realloc` there is no block and the capacity is
  still that of the lost one; `KeepsWhatWasPushed` holds as long as none has failed.
* `main.c:132` of the SCGI back end: a client that leaves before the comma may be
  answered, since the byte compared was never written.

Three more that no line of the repository contradicts: 8XY5 and 8XY7 report "no
borrow" with a strict comparison, so equal operands give 0 (`ArithmeticIsExact`
leaves equal operands out for that reason); a configured clock speed of 0 Hz
divides by zero after the first instruction; and `hash_table_get` on a table that
holds one entry, asked for another key with the same home, goes on to an unused
entry and compares with NULL (with capacity one it does not end).

## 4. Bounds

Every bound is a constant of the configuration or of the MC module.

* *Emulator.* Memory, screen and stack have their real sizes in `cpu`. In `machine`
  memory ends after a program area of 32 bytes, which the longest of its programs
  leaves room in and one exceeds by a byte, and `UINT32_MAX` and `ULLONG_MAX` are 4095
  and 65535: only their order matters. Two instructions after a full register load reach every row of the
  dispatch table in every kind of machine state, including the ends of the stack
  through `2202`, which calls itself. The 8-byte program area of `disassembler` puts
  the end of memory within reach. A screen narrower than 8 or lower than 15 is
  excluded by `DisplayAssumption`: a sprite would then meet itself and the set
  operator of `Chip8Display` would not be the result of the pixel loops.
* *Timer.* Steps of 7 and 16 ms up to 48 ms give updates with no, one and several
  due ticks.
* *Lexer, queue and parser.* The shortest literal has two characters, so four
  characters hold a literal and a word with a blank before, between or after them; five
  chunks hold two statements and an end, with words cut short and continued in each
  place. The lexer keeps at most one token in its queue, so it wraps the three slots but
  never fills them; the queue's own user fills, empties and wraps them, with more
  different tokens than slots.
* *Hash table.* More keys than entries, homes at both ends of the array: the
  table fills, wraps and overflows.
* *HTTP configuration.* `UINT16_MAX`, `INT_MAX` and `ULLONG_MAX` are 3, 7 and 31:
  the code depends only on their order. Every subset of variables is too large
  in some environment; the values at the limits, negative ones that wrap or do not fit
  and a word come one at a time.
* *Servers.* One client is handled, one waits in the backlog: a third would only
  wait as the second does. Backlogs of 0 and 1 occur. Requests are just long enough
  to hold each error the code distinguishes; one is longer than the buffer, so that
  a read may end in its middle.
* *Array and request.* Initial capacity 3, pushes of up to 4 on a length of up to 6:
  growth by doubling, by more than doubling and from nothing. The streams put the
  line end inside, behind and across the pieces and the data that was there before.
* *SCGI parser.* Fields of 3 bytes, headers of up to 4: one byte less, equal and one
  more than fits, with a second field behind it.
* *Small programs.* All four blocks of `defer/main.c` with each failing; an array
  of 5 deferred calls filled and overfilled, twice; files of up to 4 bytes read in chunks
  of 2 and 3, and with `UINT_MAX` = 15 through buffers whose size as an `unsigned` is
  negative as an `int` (9), zero (16) and 2 (18); up to three pieces of a body with
  lengths that fit, just fit and do not fit behind the growth by eight, with a NUL byte
  anywhere or nowhere and totals on both sides of `INT_MAX` = 7; a buffer of 4 bytes with sizes up to the wrap of
  `size_t` at 8.

Deadlock is not checked: every one of these programs may end.

## 5. Fairness

* `Chip8Machine`: weak fairness of the process, from start-up to end. It is one
  thread that never blocks except in a bounded sleep. Nothing is assumed of the user.
* `AqlsParser` and the probe loop of `HashTable`: weak fairness of the one
  sequential computation.
* `HttpRequest`: weak fairness of `Reader`. `poll` returns when there is input or its
  time is over (the configuration sees to a timeout that is not negative). The peers
  send finitely much: the timeout is one per read, so a peer that sends for
  ever is read for ever.
* `HttpServer`: weak fairness of `Server` alone. A `poll` that times out is a step of
  the server, enabled while the client is silent, provided the configured timeout is
  not negative as an `int`; that the configuration sees to that is part of what
  `EveryConnectionEnds` shows. Failures of `accept` and `poll` may happen and need not.
  Clients need do nothing.
* `ScgiServer`: weak fairness of `Server` alone. A blocking read is enabled only
  when there is data or the client has left, so a silent client may block the
  server, and `OnlySilentClientsBlock` says that nothing else does, the parser
  included: its premise is that every connected client eventually leaves or is closed
  and that none makes `send` raise `SIGPIPE`.

## 6. Proofs

Checked by TLAPS for every value of the constants that satisfies the named
assumptions of the modules; TLC evaluates each of those assumptions on the
instances. Eight modules hold the proofs. Each invariant below is the strengthening
that makes the induction go through; its parts are named in the module, and the proof
that a step keeps it has one lemma per action or kind of action.

**The emulator** (`Chip8MachineProofs`). Assumptions: sizes are naturals, large
enough for the font and for twelve-bit addresses; a ROM is a sequence of bytes
(`MemoryAssumption`, `DisplayAssumption`, `CpuAssumption`, `ConfigAssumption`); a file
that cannot be read has no bytes, every program the emulator may be started with is
one of the CPU's, and every set of the user's keys is one of its keyboard states
(`MachineAssumption`).

* `CpuInvariant`: `CpuSpec => []CpuInv`, with `CpuInv == CpuTypeOK /\
  ProgramCounterInReach`. The type invariant alone is not inductive in the useful
  sense: the program counter is a 16-bit word, and that `pc + 2` and `pc + 4`
  do not wrap to the font area needs the bound that every jump, skip, call and
  return re-establishes. One lemma per way in which an instruction ends
  (`SetsRegistersInv`, `GoesToInv`, `SkipsIfInv`, `CallsInv`, ...) serves all
  instructions of its group. `CpuTypeCorrect` and `ProgramCounterStaysInReach` are its
  two parts.
* `CpuCallsNest`: the stack array with its count implements `Chip8CallStack`. The
  proof maps the first `stack_count` slots to a sequence and shows that call and
  return are its push and pop and that no other instruction touches it.
* `CpuArithmeticIsExact`: result and flag of the arithmetic instructions are
  exact, and the three decimal digits are the number. The arithmetic is in lemmas
  over naturals (`ExactSum`, `ExactDifference`, `ExactShifts`, `DecimalDigits`);
  the rest follows which instruction a step executes.
* `MachineDrivesCpu`: `Spec => DrivesCpu`, so that the theorems above hold inside the
  emulator (`MachineKeepsCpuInv` says so of `CpuInv`). `MachineInv` has three parts:
  types; `ConfigInv`, what `main` has checked before each phase, with the number that
  `strtoull` makes of the text (`EnvironmentNumber`); and `DriveInv`, that the CPU is
  untouched until the program is loaded, satisfies `CpuInv` from then on, and never
  moves if the program is empty.
* `MachineStartsAsConfigured`, `MachineShowsEveryStep`, `MachineTrapsOnlyAtZero`: the
  invariants of the `machine` run, the second and third with an invariant of their own.

**The disassembler** (`Chip8DisassemblerProofs`). Assumptions: as for the memory above,
and a program area of an even number of bytes, which the constants of `memory.h` have.

* `ListingShowsWhatRuns` (`ListsWhatTheCpuExecutes`): `TablesAgree` says of every word
  that the first matching row of `disassembler.c` names the function `cpu.c` calls and
  the operands it decodes. `RowsMatch` turns masks and values into conditions on the
  word, from its four digits (`FourDigits`, `MasksKeep`); `RowDecodes` has one case per
  row, and only row 3 needs that the rows above it come first.
* `SweepShowsTheProgram` (`StrayWordNeverListed`): `SweepInv` says that the address is
  two bytes further for every line printed, that it is at most `MEMORY_SIZE`, and that
  below it the word in hand is the word in memory. Without the even size the address
  would step over the end.

**AQLS** (`AqlsProofs`). Assumptions: a positive capacity, `Token` has the tokens of
every text, and the two keywords begin with different characters, as `WRITE` and `END`
do (`QueueAssumption`, `LexerAssumption`, `ParserAssumption`).

* `QueueIsFifo`, `LookaheadIsFifo`: the ring implements `BoundedFifo`, under any use
  and as the lexer's lookahead. `RingInv`: `end` is `len` slots behind `start`, modulo
  the capacity, and the slots between hold tokens.
* `LexerIsTransparent` (`PeekingChangesNothing`): `LexerInv` says that a peeked
  token is the one a scan from the cursor finds, and that the tokens taken are the
  scans of the text, each from behind the one before. That the scan from behind
  skipped blanks finds the same token is a lemma on `Scan`.
* `StatementsInOrder` (`AppendsInOrder`): `ParserInv` adds what the parser has in hand
  in each phase. Here and in the lexer, facts about the first position with a
  property are proved from the well-foundedness of `<`.
* `ParserAcceptsGrammar` (`AcceptsGrammar`): `ParserDecides` is the exact language of the
  code, the texts that begin with statements and END by the prefix comparison of
  `Spells`, and every program of the grammar is one of them. `ParserInv` also says why the parser gave up
  (`Stuck`). `StreamAlongList` shows that the nodes of the list are a prefix of the
  stream of tokens, two tokens each; `StreamExists` that the recursive function behind
  the stream satisfies its equation, because a token that is not a stop has characters.
  The first characters matter because `Spells` compares only as far as the shorter of
  word and keyword goes: a word of one letter must not be taken for both keywords.

**The hash table** (`HashTableProofs`). Assumption: a positive capacity, `NULL` is
neither key nor value. Entries are counted from the home of a key on (`At`).
`TableInv` adds to `ChainsUnbroken`: `count` is the number of used entries
(`CountsUsed`, by cardinality), and a call in progress knows that every entry it has
passed belongs to another key (`PutKnows`, `GetKnows`). From it `ChainsStayUnbroken`,
`CallsFailOnlyForCause`, the action property `GetMissesOnlyMoved`, and
`TableIsAMap`, the refinement of `KeyValueMap`: only the step that ends a put changes
the contents.

**The HTTP server** (`HttpServerProofs`). Assumptions: the order of the limits (a
`static_assert` of the code), a buffer of more than three bytes. `ServerInv` says in
every phase whose bytes the buffer holds (`ReadOnce`), that clients not yet accepted are
untouched (`Untouched`, `BacklogFresh`), and what the automaton's state tells about the
bytes it has passed (`Scanning`: state n is n bytes of CR LF CR LF). Theorems
`ServerClosesEveryPath` (of every connection accepted, whether or not a byte was read),
`ServerAnswersHeaders`, `ServerFindsEndOfHeaders`, `ServerDownOnlyForCause` (for numbers
of any size in the environment: `NumbersInRange`). The model validates one byte per step, as the loop does, so
that the invariant can speak about its middle.

**Array and request reader** (`HttpRequestProofs`). Assumptions: a positive initial
capacity, the growth factor of the code; what an unwritten cell holds is no byte count.
`ArrayKeepsWhatWasPushed` is about the array with any caller: that `capacity` is the
size of the block is part of the property, and is what makes the next store safe.
`RequestKeepsWhatWasPushed` and `RequestReadInOrder` are about the reader on top of it:
`RequestInv` says that the array holds what it held before and then what was taken from
the stream (`ContentsInv`), and that every slice lies in it (`ScanInv`).

**The SCGI back end** (`ScgiServerProofs`). Assumptions: array sizes are positive, a
client sends a sequence of bytes.

* `ServerClosesEveryPath`, `ServerAnswersFullHeaders`: `ServerInv` says that one
  connection is open at a time and is in no queue, and that what was read of it is the
  digits, the colon and as many bytes more as the phase says. That
  `cstr_parse_size_t` has a value at all, a natural number, is proved by induction
  (`ValuesExist`, `ParsedIsNat`).
* `ParserCopiesInBounds` (`FieldsInBounds`), `ParserAcceptsRequests`
  (`ParsesExactly`): `ParserInv` relates the cursors to the whole buffer: the number of
  terminators before the cursor is even in a name and odd in a value, the last of them
  is where the field begins, no comma before it ended the headers, and all fields so
  far are short. The parser waits at the start of the buffer until the comma has been
  read (`RequestInv`).

**The small programs** (`SmallProgramsProofs`). `Inv` says, for every step of every
program, what it holds and in which order, and how its counters are related. Theorems
`CleanUpIsLifo` (the refinement of `LifoResources`), `NothingStaysHeld`,
`OutputIsShortOnlyForCause`, `BodyIsPrinted`, `BlocksAreApart`. What the conversions to
`unsigned` and `int` leave of a size is the lemma `Conversions`.

**Only model-checked.** Liveness (`QuitEndsProgram`, `HeldKeyEndsWait`,
`EveryParseEnds`, `PutEnds`, `EveryConnectionEnds`, `ReaderEnds`, `OnlySilentClientsBlock`):
the prover has no support for it. Every invariant and every other action property of a
passing run has a theorem.

## 7. Not modelled

* SDL's window, colours and sound output, and the emulator's logging: output and
  text. `clock.c` has no caller.
* The HTTP server's `http/parser.c` (a stub that returns an error), `http/method.c` and
  `http_method_parse` (no caller, one comparison with a constant).
* `pthreads-examples/`: threads that share nothing. `networking/basics.c`,
  `glib-examples/`, and the demonstrations of one function: no state of their own.
* `ast.bak.c`: not compiled.

What remains is output, stubs, code that is not compiled, and straight-line
demonstrations without state; nothing of it has a behaviour to check.

## 8. Plan

The modules of section 2 are complete, and every safety property of a passing run has a
theorem. Worth a run each when the corresponding code is touched: the assertion of
`http.c:25`, the result of `fclose` in `zlib-uncompress.c:154`, and the comparison of
`hash-table/main.c:161`, which are causes or exceptions in the properties today.
