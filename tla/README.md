# Formal models of the stream subsystem (`src/src/streams.c`)

This directory has TLA+ models of the Lisp stream layer in `src/src/streams.c`,
the TLC configurations that model-check them on small instances, and TLAPS
proofs of the safety properties that matter most. `PROJECT.json` lists every
component, run, mutant, finding and hazard, with source lines, and the map from
each definition to the lines it models.

## The system

A *stream* is any Lisp value that the four primitives `stream_getc`,
`stream_ungetc`, `stream_putc` and `stream_puts` accept:

- a file;
- a mark, or a buffer, or `(Buffer . Pos)` (position I/O on the line array);
- `(INT . STRING)`, a string input stream;
- `(STRING . INT)`, a string output stream (the accumulator);
- `t` (the status line);
- a process;
- a lambda cons or a symbol naming a function (a callable stream).

A nil argument is replaced by the value of `standard-input` or
`standard-output`. Every derived operation (`write`, `read-char`, `read-line`,
`copy-stream`, `read`, `print`, `format`, the string streams) goes through
these primitives; the reader's escapes go through `stream_read_esc`.

Callable streams run arbitrary Lisp code with GC inhibited; that code may call
the primitives again, so calls nest. File objects live on a private chain
`lfile_chain` that the collector sweeps and `streams_kill` frees at shutdown;
the standard streams are wrapped once, marked don't-close and pinned.

## Modules

| Module | Models | State | Actions |
|---|---|---|---|
| `Accumulator` | the string output stream: `stream_putc` 313-335, `stream_puts` 442-471, `make-string-output-stream`, `get-output-stream-string` | `mem` (bytes of the allocation, `Garbage` for uninitialised cells), `size`, `len`, `cap` (the cons's INT), `rc`, `result`, ghost `oob` | `PutChar`, `PutBytes` (growth, allocation failure, copy, store, terminate), `GetOutputStreamString` |
| `AccumulatorAbs` | what a string output stream promises (spec §4) | `out`, `result`, `rc` | `Put` (append, or fail with 0), `Get` |
| `CopyStream` | `copy-stream` (725-760) | bytes read, `dst`, buffer, `len`, `pc`, `res` | `ReadByte` (one loop iteration), `Finish` (final flush and return) |
| `Dispatch` | the four primitives on every variant, nil resolution, `make-string-input-stream` | file in/out, mark residency, the string input stream, the accumulator, status line, process input, last read, result and signal | `GetC`, `UngetC`, `PutC`, `PutS` on each kind and on nil |
| `CallableStreams` | the save/set/restore of `gc_inhibit` around the callable branch (182-186, 270-274, 382-386, 516-529) | `gci`, the stack of active calls with their `oldgci`, ghost `base`, `unsafeGC` | `CallFunction`, `Return`, `SetInhibit`, `Collect` |
| `PosIO` | `pos_getc` (64-90), `pos_putc`/`pos_puts` (92-124), `POS_UNGETC` (211-220) through the buffer and mark branches of the primitives | `lines` (the line array), `row`, `col`, `readOnly`, ghosts `op`, `prev`, `arg`, `got` | `GetC`, `UngetC`, `PutC`, `PutS` (fail on read-only, padded then failed insert, success) |
| `EscapeReader` | `stream_read_esc` (544-627) | the input before EOF, `first` (`*c_p` on entry), `reads`, `c` (a `u_char`), `cp`, `pc` | `Switch`, `Oct2`, `Oct3`, `Hex` (one loop iteration), `Trail` |
| `FileObjects` | `cmd_open`, `cmd_close`, `file_sweep`, `stdin-file`/`stdout-file`/`stderr-file`, `streams_kill` (1036-1368) | `chain`, per-object `name`, `file`, `dontClose`, `refs` (what the program reaches), `static`, `osOpen` (handles the C library holds), `nextH`, ghosts `badClose`, `crashed`, and `killed` | `Open`, `Close`, `StdFile`, `Drop`, `Sweep`, `Kill` |

Notes on the abstractions:

- **`Accumulator`.** Bytes are model values; the allocation is a function from
  `0..size-1`, so a write past it is recorded in `oob` rather than lost.
  `Accumulator` instantiates `AccumulatorAbs` with `out <- Content` (the first
  `len` bytes); `AbsSpec` is that instance's specification.
- **`Dispatch`.** Marks and buffers are abstracted to the outcome of
  `pos_getc`/`pos_putc` (a character or EOF); `PosIO` models those functions in
  detail. A callable's result is drawn from `FnResults`.
- **`CopyStream`.** A source byte is its position in the source, so a byte
  lost, repeated or reordered shows in `dst`. `stream_puts` on the destination
  is abstracted to its outcomes (`PutsResults`), the set `PutsOutcomes` choosing
  which the destination can produce: everything written, a short count (a
  file's `fwrite`), nothing with EOF (`pos_puts`), or the whole buffer taken
  and -1 returned (`"taken"`, a callable whose integer result replaces the
  count).
- **`PosIO`.** A buffer is its line array; positions are `(row, col)` counted
  from 0 as in the code. The editor primitives `pad_pos` and `insert_string` are
  not in this file and are modelled from spec §4.1 (`PadLine`, `Insert`,
  marked `spec_modelled`). A starting column may lie up to `Slack` past its
  line's end, as a cursor in the padding area does. Characters are drawn from
  the constant `Chars`. `insert_string` splits its argument at newlines
  (`Segments`, through `Breaks`, `Rank` and `Cut`), and the text of the first
  `r` lines (`TextTo`) and the buffer's size (`NumChars`) are recursive
  functions, not RECURSIVE operators or folds, so the module can be reasoned
  about by TLAPS; TLC checked the three against fold-based definitions on
  bounded inputs.
- **`EscapeReader`.** Characters are their codes; every assignment to the
  `u_char` `c` is reduced modulo 256, and `x ^ 0x40` on an `int` (EOF included)
  flips bit 6. It is checked against `Ref`, a reference decoder written from the
  doc comment (544-557) and spec §4.3.
- **`FileObjects`.** A `FILE *` is a handle number: the standard streams are
  their descriptors, every `fopen` returns a fresh one. The collector's mark
  phase is abstracted to "what the program still reaches plus the static
  VALUEs"; `Drop` models the program losing a reference.
- **`CallableStreams`.** The collector and the outer GC-inhibit regions are not
  in this file, so they are modelled from the spec.

## Runs

| Run | Checks | Result |
|---|---|---|
| `acc_invariants` | `TypeOK`, `NoOverrun`, `Terminated`, and the refinement `AbsSpec`, with the real constants (16, 32, doubling) and writes of 0, 1, 2 and 40 bytes up to 70 | pass |
| `copy_order` | `DstInOrder` (what reaches `dst` is an ordered sub-sequence of what was read, each byte at most once), for destinations other than a callable, with full, failed or short writes and interrupts | pass |
| `dispatch` | `TypeOK`, `NoOutOfBoundsRead`, and the action property `UngetRestoresStrIn` (an unread after a read of the string input stream gives the byte back), over every stream variant, with `standard-output` bound to a callable, to nil or void | pass |
| `callable_gc` | `NoCollectDuringCall`, `InhibitRestored` up to depth 3 | pass |
| `file_objects` | `NoBadClose`, `BoundHandleOpen`, `HandlesOwned` with 3 cells, 2 standard streams, 2 fopens | pass |
| `escape_decode` | `DecodesAsSpecified` for 7 first characters and every input of up to 3 characters from a 6-letter alphabet | pass |
| `pos_io` | `TypeOK`, `GetFollowsText`, `UngetRestores`, `ReadBack` on four buffers, starting columns up to one past the line end | pass |
| `acc_user_cons` | `NoOverrun` from a user-built `(STRING . INT)` | violation: code bug |
| `copy_complete` | `CopyComplete` with reliable writes and no interrupt | violation: code bug, a byte is lost at every full buffer |
| `copy_callable_eof` | `DstInOrder` with a callable destination that may return -1 after taking the buffer | violation: code bug, the break at 742 leaves the buffer in place and 753-756 write it again, so the destination gets those bytes twice |
| `dispatch_start` | `NoOutOfBoundsRead` with any START | violation: code bug |
| `dispatch_nil` | `NilStreamNoop`, spec §4.2 | violation: the code signals |

Every property of a passing run has a mutant in `PROJECT.json`: a plausible bug
in a mapped definition (a dropped clamp, a flag cleared too early, a sweep that
frees without closing, an early return after the third octal digit, a position
not written back, ...) under which TLC finds the property violated.

**What the properties say.**

- `GetFollowsText`: reading a buffer stream reads its text, lines joined by one
  newline, with EOF only at the end; a position past its line's end reads as the
  line's end. `ReadBack`: after a successful write of `s`, the characters just
  before the position are `s`. `UngetRestores`: an unread right after a read
  returns to the text offset the read started from.
- `DecodesAsSpecified`: when `stream_read_esc` returns, it has read exactly the
  escape plus one lookahead character, `*c_p` is that lookahead and `c` is the
  escape's value as a byte.
- `NoBadClose`: no `fclose` of a handle not open, twice, or of a standard
  stream. `BoundHandleOpen`: a bound object on the chain holds an open handle.
  `HandlesOwned`: no `fopen`'ed handle leaks.

**Bounds.** The `acc_invariants` bounds use the code's own constants: a 40-byte
`puts` exceeds the doubled capacity (the `tmp > newlen` branch) and `MaxLen` 70
allows three growths; a one-letter alphabet keeps the refinement check under
TLC's set limits. The copy buffer has 3 bytes instead of 512: the flush
condition only compares with the size, and sources of up to 7 bytes fill it
twice. Depth 3 of nested calls covers a frame whose saved value is TRUE under
one whose saved value is the outer one. Three file cells with two standard
streams and two fopens give reuse of a bound object, a sweep of an unreachable
bound one, both standard streams wrapped and allocation failure (the cells run
out). The escape alphabet has octal digits, `8`, hex letters and a non-digit, so
runs of each digit class stop at each possible place. The `pos_io` buffers have
one and two lines, empty lines and a last line, so every branch of `pos_getc`
and `POS_UNGETC` is taken.

**Fairness.** No property is a liveness property, so no fairness is assumed.
That `copy-stream` returns on a finite source follows from the shape of its
loop: every iteration consumes a byte. Runs use
`CHECK_DEADLOCK FALSE` where the modelled call returns (`copy-stream`,
`stream_read_esc`) or after `streams_kill` ends the interpreter.

## Proofs (TLAPS)

**`AccumulatorProofs`, `AccumulatorSafe`: `Spec => [](TypeOK /\ NoOverrun /\ Terminated)`**,
for every `MinCap >= 2`, `SmallCap \in 1..MinCap`, `PutLens` and `MaxLen`. The
inductive invariant adds `CapInv` (`size = cap + 1`, and `len < cap` unless the
stream is empty): the code decides to grow by comparing with `cap` while writes
are bounded by `size`. Lemmas `GrowCopyOK` and `StoreRunOK` give the shape of
the grown and written allocations; there is one lemma per action.

**`CallableStreamsProofs`, `GcInhibitSafe`: `Spec => [](TypeOK /\ NoCollectDuringCall /\ InhibitRestored)`**,
for every `MaxDepth`. The inductive invariant: while a call is active `gci` is
TRUE; with no call active `gci = base`; the outermost frame saved `base` and
every inner frame saved TRUE, which is why a `Return` can restore from its own
frame.

**`FileObjectsProofs`, `FileObjectsSafe`: `Spec => [](NoBadClose /\ BoundHandleOpen /\ HandlesOwned)`**,
for every set of cells, every set of standard descriptors below 3 and every
fopen bound. The three properties are not inductive alone; `FInv` adds:

- `OpenRange`: the open handles are the standard streams and handles below
  `nextH`, so the handle a fresh `fopen` returns is owned by nobody;
- `StdBound`: a bound object holds a standard stream exactly when it is
  don't-close, and is then that stream's static object, so the close paths
  (which skip don't-close objects) never close a standard stream;
- `Injective`: no two bound objects share a handle, so a sweep or
  `streams_kill` closing several objects closes each handle once;
- `Reachable`: while running, reachable and pinned objects are on the chain, so
  an `open` of a fresh cell never takes a cell already in use.

There is one lemma per action (`FOpen`, `FClose`, `FStdFile`, `FDrop`,
`FSweep`, `FKill`) and `FNext` combines them.

**`AccumulatorRefinement`, `AccumulatorRefines`: `Spec => AbsSpec`**: the
buffer implementation of the string output stream implements `AccumulatorAbs`
under the mapping `out <- Content`, where `Content` is the first `len` bytes of
the car string `mem`. The argument is step by step: `RefInit` maps the initial state to
an empty content; `RefNext` shows that under `IInv /\ IInv'` each action is an
abstract step or a stutter. `sputc` and `sputs` are `Abs!Put` of the bytes
written, and `get-output-stream-string` is `Abs!Get`. The key lemmas are:

- `StoreRunAppends`: writing a run at `len` into an allocation that agrees with
  the old one below `len` appends exactly that run to the content;
- `FitsIfNoOverrun`: the invariant's `NoOverrun` in the next state means the run
  fits, which is why nothing is truncated;
- `GrowCopyKeeps`: growing the buffer copies the first `len` bytes.

**`CopyStreamProofs`, `CopyInOrder`: `NoTakenEOF => (Spec => []DstInOrder)`**, for every source
length, buffer size and write outcome of a destination that is not a callable
returning -1 after taking the buffer (`NoTakenEOF`). A callable's integer result
replaces `stream_puts`'s count (524-525). Run `copy_callable_eof` shows that
without the hypothesis the buffer is written twice. `DstInOrder` is not inductive: a partial
write or an EOF hands on a prefix of the buffer. `CInv` names the source bytes
by their position (what has been read is `1..k`, and the rest of the source
follows). It states that `dst` and `buf` are each strictly increasing and lie
within what was read, and that while the call runs every byte of `dst` is below
every byte of `buf`. `PutsPrefix` says that what `stream_puts` accepts is a
prefix of its argument, and nothing when it returns EOF; this is where
`NoTakenEOF` is used. `ConcatOrdered` and `PrefixOrdered` carry the ordering
through the concatenations. `OrderedIsSelection` turns the ordering into
`DstInOrder`.

**`DispatchProofs`, `StringInputInBounds`: `ValidStarts => (Spec => []NoOutOfBoundsRead)`**
and **`UngetGivesBackByte`: `ValidStarts => (Spec => UngetRestoresStrIn)`**. The
hypothesis `ValidStarts` (every START lies in `0..Len(STRING)`) is needed
because the code does not check START; run `dispatch_start` shows the read
outside the string when it is violated. The inductive invariant `DInv` keeps
the offset within the C string. Right after a successful read of the string
input stream, the offset is at least 1 and the byte before it is the byte read.
So the unread that the model allows only after a read cannot go below 0, and it
lands on that byte. There is one lemma per primitive. The action property
follows from `DInv` by the lemma `UngetStep`.

**`DispatchProofs`, `DispatchTypeOK`: `Spec => []TypeOK`**, for every alphabet
`Chars \subseteq 0..255` (non-empty) and every START, the invalid ones
included. `TypeOK` alone is not inductive because `stream_ungetc` on a file
input pushes back `lastGet.c`, the byte of the last read. `TInv` adds that
`lastGet` is a record of a stream kind and an integer, with an alphabet byte
when the last read was of the file input, and that the string inputs stay in
`InputStrings`. The assumption `Chars # {}` is used where the model picks a
callable's result. There is one lemma per primitive (`TGetC`, `TUngetC`, `TPut`)
and `TNext` combines them.

**`PosIOProofs`, `PosIOUngetSafe`: `Spec => [](TypeOK /\ UngetRestores)`**, for
every alphabet, buffer texts, `Slack` and size bound. `PInv` adds three facts.
The line array stays a non-empty sequence of lines, because `pad_pos` and
`insert_string` write lines of `Chars`. While `op = "get"` the position is what
`pos_getc` returned from `prev`. While `op = "unget"` the two offsets agree.
The key lemma is `UngetAfterGet`. After a read within a line, `POS_UNGETC` steps
back one column. After a read of the newline at or past a line's end, it goes
from column 0 of the next row to that line's end. Both land on the offset the
read started from, because `Offset` clamps a column past the line's end. So
`Text` never has to be unfolded. `InsertType` and `SegmentsType` give the shape
of the line array after `insert_string`. There is one lemma per action (`PGetC`,
`PUngetC`, `PWrite`).

**Only model-checked.**
- `GetFollowsText` and `ReadBack`. They relate a position to `TextTo(r)` for
  every `r`. Proving them means showing what the recursive function `TextTo`
  computes for every line array and every write, which is induction over data.
- `DecodesAsSpecified`. `EscapeReader` and its reference decoder use
  `FoldLeft` and other operators of `SequencesExt`, which reach a RECURSIVE
  operator, so no theorem may sit on them. The statement is also about what a
  digit loop computes for every input.

## Observations not kept as runs

TLC shows these on variants of the passing configurations; they are recorded as
hazards in `PROJECT.json`:

- `stream_read_esc` wraps values: `^` followed by EOF gives 191, `\777` gives
  255, and a long hex escape keeps only its last two digits.
- `stdin-file` and its siblings dereference the result of `cmd_open` without a
  null check (1278, 1299, 1320): when the allocation fails, `FileObjects`
  reaches its `crashed` state.
- An unread after a read that started past the end of a line returns to the
  line's end, not to the column the read started from: the text offset is
  restored (`UngetRestores`) but not the position.

## Not modelled

- `read-line` (400-byte chunks) and `format`: loops over the primitives, not
  yet modelled.
- `flush-file`, `file-eof-p`, `read-file-until`: C library calls on a bound
  handle; their `lf->name` tests are what `BoundHandleOpen` protects.
- `file_cmp`, `file_prin`, `streamp`, `streams_init`: no stream state changes.
- The reader and printer behind `read`, `print`, `prin1`, `princ` live outside
  this file.
- Composition of `Dispatch` with `Accumulator` and `PosIO`: each is checked
  separately, with `Dispatch` abstracting the other two to their outcomes.
