# u-lang in TLA+

This directory holds TLA+ models of the front end of u-lang (`../src`): the byte
sources, the lexer, the diagnostic engine, the virtual file systems and the file
manager, with the configurations that check them with TLC and the theorems that
TLAPS proves about them.  Paths below are relative to `src/`.

## 1. Inventory of the system

u-lang is the beginning of a compiler: a library that turns files into tokens.
Everything runs in one thread.  What makes it hard is not concurrency but state
that several calls share: an input buffer that every copy of an iterator reads
from, a two-character lookahead, locations that are added up on the way, one
diagnostic under construction shared by copies of builders, and stacks of file
systems that must agree on a working directory.

| component | state | operations | promises |
|---|---|---|---|
| Byte sources: `FileSource`, `StringSource`, `MemoryBufferSource` (`lib/Basic/Source.cpp`) | stream position, `first_`, `hasBOM_`, `gotNewLine_`, `foundFF_`, `foundNL_`, `position_` | `Get`, `operator bool`, `getLocation`, `hasBOM`, `detectedLineEndings` | the characters of the file, in order, each with its location; `bool` is true iff another one will come |
| `SourceManager`, `FileInfo` (`lib/Basic/SourceManager.cpp`) | table of files, lines of each | `getOrInsertFileInfo`, `AddCharacter`, `getLine`, `getFile` | the text of each file read so far, line by line |
| `Lexer` (`lib/Lex/Lexer.cpp`) | `curChar_`, `nextChar_`, `curValid_`, `sourceRange_` | `Lex`, with `NumberToken`, `StringToken` and `NextChar`, `PeekChar`, `CurChar`, `GetChar` | the tokens of the text with their ranges and values, then the end of file |
| Tables (`TokenKinds.*`, `IdentifierTable.cpp`, `PunctuatorTable.cpp`, `DiagnosticIDs.*`) | none after construction | lookups | |
| `DiagnosticEngine`, `DiagnosticBuilder`, `Diagnostic`, `DiagnosticConsumer` (`Diagnostic.hpp`, `Diagnostic.cpp`) | `CurDiagID`, argument arrays, `NumDiagArgs`; builders' `NumArgs`, `IsActive`; counts | `Report`, `operator<<`, copying and destroying builders, `Emit`, `HandleDiagnostic`, `clear`, `FormatDiagnostic`, `Reset` | every report reaches the consumer once, with its own arguments, and is counted |
| Virtual file systems (`lib/Basic/VirtualFileSystem.cpp`): real, in-memory, overlay, concatenated | tree of nodes, working directories, list of layers, directory iterators | `status`, `openFileForRead`, `dir_begin`, `increment`, `addFile`, `setCurrentWorkingDirectory`, `pushOverlay` | upper layers hide (or are appended to) lower ones; each name is listed once; all layers share one working directory |
| `FileManager` (`FileManager.hpp`) | one concatenated file system, module paths | forwards; `SetSystemModulePaths`, `setCurrentWorkingDirectory` | a path means the files of that name below the module paths; `setCurrentWorkingDirectory` affects what follows (section 4 says how far) |
| AST (`lib/AST`, `include/u-lang/AST`) | kind and location of a node | accessors | |

How they interact: the lexer pulls characters out of a source (`GetChar`), asks
the source for the line each stands in and records it in the `SourceManager`,
and sends its complaints to the diagnostic engine (`Lexer::Diag`), which calls
the consumer.  `SourceManager::getFile` opens a file through the `FileManager`
and wraps it in a `MemoryBufferSource`.

What is hard about it, at the line where it bites, is listed in `PROJECT.json`
under `hazards`.

## 2. Modules

```
Text            positions in a text: the reference for every location
CharStream      abstract: what a source promises              (EXTENDS Text)
Source          the three byte sources    (EXTENDS Text, implements CharStream)
SourceManager   FileInfo::AddCharacter
Cursor          CurChar/NextChar/PeekChar/GetChar (EXTENDS Text, SourceManager)
Lexer           Lex(), NumberToken(), StringToken()         (EXTENDS Cursor)
TokenStream     abstract: what Lex() promises
LexerProperties what is checked of the lexer    (EXTENDS Lexer, refines TokenStream)
DiagnosticIDs   the table of diagnostics
ReportLog       abstract: what the diagnostic engine promises
Diagnostic      engine, builders, consumer  (EXTENDS DiagnosticIDs, refines ReportLog)
FileStore       abstract: what an in-memory file system promises
InMemoryFS      tree of nodes, addFile(), listings         (refines FileStore)
Overlay         merged listings and concatenated files of a stack of layers
MessageFormat   FormatDiagnostic                        (EXTENDS Diagnostic)
FileStatus      mount points and the names of files on disk
WorkingDirectory  pushOverlay() and setCurrentWorkingDirectory() of a stack
Files           from a path to recorded lines: FileManager and SourceManager
                (EXTENDS WorkingDirectory, FileStatus, SourceManager)
MCSource, MCLexer, MCDiagnostic, MCInMemoryFS, MCOverlay, MCFiles    instances for TLC
TextProofs, SourceProofs, CursorProofs, LexerProofs, DiagnosticProofs,
InMemoryProofs, OverlayProofs, FilesProofs                  theorems
```

The components are composed along their interfaces.  `Source` is shown to
implement `CharStream`; `Cursor` uses a source that behaves as `CharStream`
says (the n-th call returns `text[n]`, and its line is that of `Text`).
Where `Source` does not implement it (section 4) the lexer is not modelled.
`Files` composes the other end: a stack of file systems, the `FileManager` that
owns it, the sources opened through it, and the lexers that take turns recording
in one table.

### Source

The three `Get()` functions are the same text over three streams.  `file` is the
content of the stream, `pos` the byte the stream buffer returns next.  A code
point is named by its bytes.  `Start`, `NextLine`/`NextCol`, `SkipCR` are the
three parts of `Get()` before the decoding; `Get` is a call that returns,
`GetThrows` one that leaves through a utf8cpp exception.  utf8cpp itself is
external: `Decodable`, `Width`, and `ProbeConsumed`, which says how many bytes
`starts_with_bom` takes out of the buffer that all iterators share.  It takes
its iterators by value, compares `*it++` with the mark's bytes and stops at the
first that differs, hence one byte, or two when the first is `EF`.

### Cursor and Lexer

The members of the lexer that the four buffer functions change are one record,
and each function is an operator on such records, because `Lex()` calls several
of them in one step.  `at` is a history field: the index of the character that
`curChar_` is meant to be.  `pc` says in which loop of `Lex()` the lexer is, and
each action is one iteration (or the code between two loops).  `tk` holds the
locals; `toks` and `diags` are what the calls returned and reported so far, and
each token also remembers the indices `from..to` it was read from, so that
properties can compare it with the text.

The alphabet has one or more representatives of each class of characters the
code distinguishes.  `"sp"` is a space or a tab; `"wsp"` is a space outside ASCII,
which `IsSpace` takes for a space and the code that ends an ANY type does not;
`"uni"` is a letter outside ASCII.  The last two take two bytes in UTF-8 (`Wide`),
which the columns of comments, strings and identifiers count.  In a string
value an escape is kept as what the lexer distinguishes: a line end, a surrogate
(`utf32to8` throws on it), or any other character.  Escapes in capitals, `\r`
and `\t` behave as their siblings do and have no representative.  The value of a
number is the numeral that is handed to `APInt` or `APFloat`, which are
external; the conversion of a real has any of the results that rounding toward
zero allows.

### Diagnostic

`IsActive` is the set of builders that hold the diagnostic, `alive` of those
that exist.  `want` is the sequence of arguments that the client which reported has
still to stream.  The guard of `Report`, and that `AddArgument` needs a builder
that holds the diagnostic, are assertions of the code: clients keep to them.  The
assertion on the number of arguments is no guard; `TypeOK` shows that it holds.
`emitted` is what the consumer was shown.

### MessageFormat

A message is a sequence of parts (`DiagnosticIDs`): text, an escaped character,
a placeholder, a select whose options are messages again.  `Written` makes of it
the symbols that stand in the table, and `FormatDiagnostic` scans those as the
code does: `ScanFormat` looks for the end of a select or of an option past nested
braces and escaped characters, `Option` is `HandleSelectModifier`, `Substitute`
the loop over the message.  `Rendered` follows the parts and never scans.  A word
of text and the name of a modifier are one symbol each; a null C string is shown
as `(null)`.

### InMemoryFS

`nodes` maps the way to a node, a sequence of names from `Root`, to its content,
or to `Directory`; the `std::map` of a directory is the set of names that extend
its way (`Entries`), in the order that `Order` gives them.  A path is what is
left of it once `.` is dropped: absolute or not, how often it climbs, and where
it goes down.  `Resolve` is `makeAbsolute` followed by `remove_dots`; paths that
climb above a relative working directory are left out (`Sound`), because LLVM's
releases disagree on them.  `AddFile` is the whole of `addFile`: the loop over
the names either meets a file on the way (`BlockedByFile`) or a node at the end
(`SameFile`), or makes the directories and the file that are missing (`Insert`).
`added` records what was accepted, under which path, and whether that path was a
directory (see section 4); `iter` is one listing by a client, with what
it was given and what was there at its beginning.

### Overlay

Both stacks of file systems, for one directory given by an absolute path.  `dir`
and `entry` are what each layer would answer; a layer is a `RealFileSystem` with
or without a mount point, or in memory.  An entry is a file of some size, a
directory (`Folder`), or, on disk, a file that does not open, a link to nothing,
or something that cannot be looked up.  `Reached`, `Begun` and `Incremented` are a
layer's own iterator: the order of its entries is open, and a name that comes or
goes after `dir_begin` may be passed over.  `Turn` is one turn of `incrementImpl`,
`IncrementFS` one of the loop of `incrementFS`.  What they compare with `seen` is
not the name of the entry on disk but what it is `Called`: the last component of
the virtual name that `Status` makes of it (`FileStatus`), which a short mount
point may have cut.

The concatenated `openFileForRead` opens each layer's file (`OpenLayer`), asks it
for its size (`StatusOfLayer`) and in the second pass reads it (`CopyLayer`), in a
step each.  Between any two steps others may `Replace` the file of a name, in
which case one that is open stays as it was, or `Write` it, in which case it
changes under the reader.  A listing and an open share no state of the program and
are not interleaved with each other.  Two outcomes are undefined behaviour and end
the process: a write behind the buffer (`pc = "overrun"`), and reading a directory
that claims a size, whose failed buffer is dereferenced (`pc = "undefined"`).

### FileStatus, WorkingDirectory, Files

`FileStatus` has the two conversions of a `RealFileSystem` with a mount point: the
path on disk of what a client asks for (`PhysicalToVirtualPath`), and the name that
the constructor of `Status` gives a file (`VirtualName`).  Both compare, count and
cut characters without regard to slashes, so paths are sequences of characters
here: `/m` is a prefix of `/mod/x`, and `/include` loses three characters below
`/m`.

In `WorkingDirectory` a layer is in memory, with a working directory of its own,
or on disk, where all layers share that of the process (`cwd`).  `SetAll` goes
through the layers and stops at the first that fails; `Push` sends the new layer
to the directory of the base and drops the error.

`Files` is the `FileManager` (`Initialize`, `SetSystemModulePaths`) with files
on disk, `SourceManager::getFile`, string sources, and one lexer per source
that records a character at a time (`GetChar`).  `owner` says whether the stack
is the `FileManager`'s or one that a client builds, pushes layers on and moves;
only the second kind has layers without mount point.  `generation` counts the
stacks of the `FileManager`: the buffers of files go with the stack they were
opened on (`Freed`), after which a lexer reads anything.  Module paths and requests
are sequences of characters; what `PhysicalToVirtualPath` makes of them is split
into names (`AsClientPath`) and resolved in the directory of the process if it is
relative.  A module path that exists (`Exists`) may be a regular file: everything
below it is then an error that is not "no such file", and ends the call (`Fails`).
`getFile` is one step, since nothing else of this process runs during it; what
others do to the files meanwhile is the business of `Overlay`, which also follows
a path that is a directory (here `Openable` leaves it out).

### Mutants

Definitions whose names end in `_bug` are not part of any specification.  Each is
the definition after it with one plausible mistake (a missing `unget`, a column
that is not reset, a copy that does not clear the original).  Substituting it
must break the property that `PROJECT.json` names: a check that the property can
fail.

## 3. What is checked

| run | question | bounds |
|---|---|---|
| `source_any` | locations on any bytes at all; line endings; on well-formed text (`WellFormed`) a source implements `CharStream`, `bool` is truthful, the end is reached | every file of up to 5 bytes over `EF BB BF CR NL` and a plain character, long enough for a mark followed by two characters, or a three-byte character between line ends; every text of up to 5 code points, among them the mark and a three-byte character |
| `lexer_texts` | lookahead, recorded lines, locations, values, reports on escapes, refinement of `TokenStream` | about 50,000 texts: all texts up to 4 to 7 characters over one alphabet per part of the language (lines and comments, words, spaces outside ASCII, strings, long strings, escapes, numbers) and a mixed one. Runs of up to ten quotes, a long string with all short bodies, two escapes in a row |
| `lexer_returns` | `Lex()` returns | mixed texts whose last line is complete |
| `vfs_memory` | the tree, files kept, listings, refinement of `FileStore` | nine paths over two names, three levels deep; three accepted additions, two contents; any number of moves of the working directory and listings. Deadlock is checked |
| `vfs_overlay` | union, agreement of listing and `status`, room in the buffer, concatenation | three layers (disk, memory, disk), the uppermost rooted at `/m`, two names, of which the mount point leaves one alone and makes the other the same; every combination of missing, failing and readable directories. A directory (`Held`) has absent, plain, dangling or unreadable entries under both names, or under one of them any entry: files of 0 to 2 bytes, directories, files that do not open. Two changes while a listing or an open is under way. Deadlock is checked |
| `diagnostic_any` | one in flight, none lost or doubled, arguments, counts, formatted text | three builders, eight call sites with arguments of every kind, room for two arguments, two reports; each emitted diagnostic formats its own message and 16 more with nested selects and escapes. Deadlock is checked: the engine can always go on |
| `files` | layers in step, files found whatever the directory, recorded lines | two absolute module paths on disk, one within the other, a relative one, and one that may be a regular file; six requests, absolute and relative, one ending in a slash and one that has the mount point already; a client's stack of up to three layers, any number of moves with seven paths; three files and two texts; two sources whose lexers take turns; one change of files, module paths or directory of the `FileManager` |

Bounds: `MaxBytes`, `MaxUnits` and `MaxLen` bound the inputs; `MaxReports` the
number of reports (a second report is what stale arguments need); `ColWidth` is
the modulus of columns, 2^64 in the code and 32 here, larger than any text
(`TextsAssumption`: with the index one behind its end) so that nothing wraps that
would not wrap in the code: a column never does except to go below zero and come
back.  Two changes of files
(`MaxChanges`) let a file move from a layer that is still to come into one that
has been listed, and let one grow while another vanishes; files of up to two bytes
can shrink and still have one.  `MaxArguments` is 10 in
the code and 2 here: the limit is reached.  In `files`, three layers are a base
and two that can fall out of step with it; the second of two sources is the one
that could take the entry of the first; one change suffices to free a buffer or
to move the process, and what a second one would add starts from the same states
(`Initialize` forgets the last stack).  `MaxDepth` bounds the directory of a
layer in memory, which no file system checks: its paths grow for ever.

Fairness: `Source` and `Lexer` assume `WF_vars(Next)`: their caller goes on
calling as long as there is something to get, and a call that can take another
step takes it, since it is sequential code.  Only `Drained` and `LexReturns` depend on it.
`Diagnostic`, `InMemoryFS`, `Overlay` and `Files` are checked for safety only and
assume none: nothing in them waits for anything, and what comes next is up to
the client.

Where a run says `CHECK_DEADLOCK FALSE` the system does stop: the source at its
end, the lexer's driver at the second end of file, `Files` when every source is
read and every bound is used up.

### Exclusions

The properties of the lexer say what holds of the code as it is; where a
property leaves out a case, its comment names it and it is one of these:

* after a line end that a comment or a string took, lines are off by one
  (`Uncounted`; run `lexer_line_numbers`);
* the empty string (`EmptyString`, section 4);
* the end of file after a token that ran into it: the cursor has moved past the
  end and its column with it (`Overrun`);
* the end column of numbers with separators or a base prefix, of tokens with
  escapes or characters outside ASCII (it counts bytes of UTF-8), and of the ANY
  types `'a` before a line end (`PlainSpelling`);
* in a long string, of two adjacent quotes one is dropped (`StringsOK`);
* a long string whose first character is followed by a space or line end is
  returned as an identifier, as if it were an ANY type.

`Union` and `Agrees` leave out a listing whose uppermost layer's error was lost
(`lost`), and `Union` counts an entry as listed when one that is called the same
was given; `Agrees` compares with `status()` the entries whose name every layer
leaves alone (`Kept`).  `UnionOfContents` leaves out nothing, and is what the run
`vfs_union` refutes.  `ConcatOK` is about names under which no layer has a
directory.  `AddedKept` leaves out files added under a path that was a directory.
Those of `Files` leave out relative paths given to a stack with several layers on
disk that are not rooted (`MovesOnce`), what is recorded of a file whose buffer is
gone (`Freed`), and `FilesStay` is about absolute module paths: what is found below
a relative one depends on the directory of the process.

## 4. Where code and documentation disagree

Five runs are expected to find a violation, each of what a test, comment or
message of the repository says.

* `source_first`: without a byte order mark, a file whose first character is
  encoded with a leading `EF` loses that byte, because `unget()` gives back one
  byte of the two that the probe took.
* `lexer_comment_eof`: a comment on a last line without line end never ends.
* `lexer_line_numbers`: the line end after a comment is not counted.
* `vfs_union`: `dir_begin` of a stack drops the error of the uppermost layer
  (`VirtualFileSystem.cpp:571-572`) and lists the others as if it had none, where
  `VirtualFileSystem.hpp:417-419` promises "a directory containing the union of
  their contents".  Names that a short mount point cuts break the same promise,
  see below.
* `files_directory`: `FileManager.hpp:102-103` says of `setCurrentWorkingDirectory`
  "Set the working directory. This will affect all following operations on this
  file system".  The layers have mount points, which are prepended to relative
  paths too (`VirtualFileSystem.cpp:253-270`): the call succeeds, and a relative
  path does not find the file that is in the new directory.  `FilesStay` says what
  the call leaves alone: everything below absolute module paths.

Noted and not run: `''` is read as the beginning of a string, and reported as
unterminated or closed by a later quote (`Lexer.cpp:659-661`); the lexer reports
`bad_hex_digit` and `bad_escape_sequence` without the argument that their messages
refer to (`Lexer.cpp:442-513`, `DiagnosticIDs.def:38,43`); a file that ends in a
carriage return, or is nothing but a byte order mark, makes `operator bool` true
and `Get()` throw (excluded by `WellFormed`); a real constant that has no exact
binary value is reported as an unknown error, since `ConvertFloat` takes
`opInexact` for one.

Of the file systems, noted while modelling them:

* `VirtualFileSystem.cpp:143-147`: the mount point's length is cut off a virtual
  name that has lost the mount point already, when the rest is longer: under `/m`,
  `/m/abc` is called `c`.  A file `c` then hides it from the union, which
  `UnionOfContents` forbids as well (`Union` does not, it goes by what entries are
  called), and `status()` does not find the name that the listing gave.
* `VirtualFileSystem.cpp:733-752`: `addFile` on a path that is a directory says
  true ("if the file was successfully added", `VirtualFileSystem.hpp:533`), but
  the file is put under an empty name into that directory, and opening the path
  fails.
* `VirtualFileSystem.cpp:541`: a link to nothing ends a merged listing with an
  error, unless it is the first entry of its layer; then it is listed.
* `VirtualFileSystem.cpp:495` says "All file systems are synchronized".
  `KeepsStep` says how far this goes: a call that fails in one layer leaves the
  layers before it moved and those after it not; `pushOverlay` drops the error;
  two layers on disk share the directory of the process, so that a relative path
  moves it twice.
* `VirtualFileSystem.cpp:128-130`: of a mount point with a trailing slash the
  first character is dropped, not the last, so that names keep the whole path.
* `VirtualFileSystem.cpp:134`, `257`: mount points are compared as strings, so that
  `/mod/x` counts as being below `/m`.
* `VirtualFileSystem.cpp:1005-1008`: a path that is a directory is opened, and
  its size counted, like a file; reading it fails, and the failed result is
  dereferenced (`pc = "undefined"` in `Overlay`).
* `FileManager.hpp:64-71`: `SetSystemModulePaths` deletes the stack of file
  systems, which owns the buffers of the files opened on it; a
  `MemoryBufferSource` that still reads one is left dangling.
* `Source.hpp:196-199`: every `StringSource` has the same name, so that the lines
  of all strings are recorded in one entry, interleaved as their lexers run
  (`EntriesOK` says in what sense nothing of them is lost).

## 5. What is proved

For every value of the constants, with the assumptions that the modules name:
`BytesAssumption` and `FilesAssumption` (`Source`), `CursorAssumption`,
`TextsAssumption` (`Lexer`), `DiagnosticAssumption`, `InMemoryAssumption`,
`OverlayAssumption`, `DirectoryAssumption` (`WorkingDirectory`) and the
`FilesAssumption` of `Files`, which say of what kind the paths, mount points and
texts are.  TLC evaluates all of
them on the instances.

### Sources

* `SourceProofs!TypeCorrect`, `PositionCorrect`.  `PositionOK` speaks of the
  last character returned, but a pending line end makes the fields true only of
  the one before: `PositionInv` adds that `gotNewLine_` is set exactly when the
  last character is a line end, and gives `line` and `col` a meaning before the
  first call.  The lemmas of `TextProofs` (`LineOfNext`, `LastBreakNext`) do the
  counting.
* `LineEndingsCorrect`, for every file that is read to its end: the flags
  `foundFF_` and `foundNL_` are those of the bytes before `pos` (`EndingsInv`).
  `BoolCorrect`, for well-formed files of any length: `pos` stands where the
  encoding of a character begins (`BoundaryInv`).
* `StreamCorrect`: on well-formed files a source implements `CharStream`.  The
  invariant `StreamInv` says that the text of the file is what was returned
  followed by what decodes from where the source stands (`Rest`).  The text is a
  recursive function of the place (`PointsFrom`), built from the end of the file
  backwards: `PointsExist` shows that there is such a function, `PointsUnfold`
  that it unfolds, `PointsHead` that one `Get()` takes its first character,
  `PointsMore` that it is empty exactly where `operator bool` is false.
  `StreamGet` is the step: the location comes from `PositionInv`, the truth of
  `bool` from `BoundaryInv`.

### Lexer

* `LexerProofs!LookaheadCorrect`, `RecordedCorrect`.  `CursorProofs` shows that
  each of the four buffer functions preserves `CursorOK` (`NextChar` needs that a
  character was loaded before); `LexerProofs` that every action of `Lex()` is a
  composition of them, so that `CursorInv` is inductive.  Lookahead and recorded
  lines are thus right for any texts, not only the short ones.  What was recorded
  is kept with the length of the last line (`LastLineOK`), which is where the next
  character goes: `AddCharacterPlace` compares that with where it stands in the
  text, by the lemmas `LineOfStep` and `LastBreakStep` of `TextProofs`.
* `TokensCorrect`: the calls of `Lex()` implement `TokenStream`.  Every iteration
  either returns a token that ends where the cursor is, beyond its beginning, or
  goes on with one that begins where it did before (`LexResult`, from the typed
  locals `Locals`).  Between the last real token and the one under construction
  there are only spaces (`Covering`), and an end of file is only followed by
  others (`IsLast`); together `TokensInv`.  A step maps to the delivery of a token,
  to the answer at the end, or to a stutter.  `TypeCorrect` is a part of
  `TokensInv`.
* `BeginCorrect`: tokens begin where their first character stands.  The code
  keeps one running location and corrects it in a dozen places, so the invariant
  `PlaceInv` says when it can be trusted: if all line ends before it were taken
  by `eol` tokens (`Counted`) and no token ran past the end (`Complete`), the
  cursor's location is that of its character between the calls (`CursorPlace`),
  and within a call as long as no line end was read since the token began
  (`Exact`, `Loose` at the end of the text).  Each action is shown to return a
  token with the right beginning (`ReturnedAt`) or to go on with one
  (`ContinuedAt`): for a long string this is the subtraction of two columns that
  `StringToken` makes, for an empty string and a bare base prefix the exceptions
  that the property names.
* `StringsCorrect`: the value of a string is the text between its quotes.  Within
  `StringToken()` the value so far is what was read since the opening quotes, as
  long as that was `Verbatim`: no escape, no two adjacent quotes (`InString`; the
  characters of an escape and the quote that the code drops are what ends it).
  At the closing quotes `ClosedValue` compares indices: one, three or, of four
  quotes, three behind one that belongs to the value.  A token that ends anywhere
  else was reported as unterminated (`StringCutValue`), and a report is never
  taken back (`Grown`).
* `NumbersCorrect`: a number hands its digits to the conversion.  Its reference
  `Digits` is a recursive function of the place in the text, so the invariant
  `NumberInv` compares what was collected with its value at the character before
  the cursor, in each of the five states of `NumberToken()`; the lemmas on `Digits`
  add a character or leave out a separator.  The number ends with the character
  before the one that ended it, also when that is the point of a range.
* `EscapesCorrect`: one character of the value and at most one report for each
  part of an escape.  The place within an escape is again a recursive function
  (`EscapeLeft`); `EscapeInv` says that the cursor is never inside an escape
  between two iterations, that the value has one character for each that begins
  outside, and that the reports of this token are counted by the wrong characters
  behind (`Hits`, `CountIn`).  A token's reports are told from the earlier ones by
  the place where it begins, which needs that all the earlier tokens and reports
  began before it (`Older`) and that later ones cannot add to it (`Resting`).
* `EndCorrect`: a token ends where its last character stands.  The code adds up
  the end column while it reads, in each loop of `Lex()`, with its corrections.
  `EndInv` says that within a call the end so far is the position of the token's
  first character (`Stands`) and that what was copied from there has no line end
  (`Copied`).  Within a string the end column is that of the cursor less the length
  of the closing quotes, as long as neither a line end nor an escape nor a pair of
  quotes was met (`Measures`, `Straight`).  A number's value is as long as its
  spelling (`DigitsLength`).  Like `BeginCorrect` it depends on `Counted`.

### Diagnostics

* `DiagnosticProofs!OneInFlight`, `TypeCorrect`, `CountsCorrect`.  `InFlight`
  is inductive together with the types and makes `Holder` well defined.
  `TypeCorrect` also needs `Room`: what the holder has counted and what is still
  wanted together fit into the arrays, through copies and streaming alike.
* `DiagnosticProofs!Implements`: the engine refines `ReportLog`.  The mapping
  `Flight` reads the arguments through the holder's `NumArgs`, not through
  `NumDiagArgs`; the proof shows that copying is a stutter, that an argument is
  an append, and that flushing the count before the emission makes both agree.

### File systems

* `InMemoryProofs!TreeCorrect`.  `TreeInv` is the type of `nodes` and `wd` with
  `Tree`; `InsertKeepsTree` shows that adding the nodes on the way to a file below
  directories keeps it.  `AddedStays` (of files whose path was no directory) and
  `Implements` follow from it: what
  `addFile` changes is one new file (`AddFileFacts`), and `Found` needs all
  nodes on the way to be directories.
* `InMemoryProofs!ListingCorrect`.  `ListingOK` alone is not inductive: while the
  listing runs, each name that was there at its beginning has been given or
  comes after the current one (`ListingInv`).  Files that are added only make
  the set of entries larger.
* `OverlayProofs!UnionCorrect`, `AgreesCorrect`: for stacks of any height, any
  mount points, any directories and any changes.  Both speak of what entries are
  called.  Both say something only of complete listings, so the invariant
  `Listing` goes layer by layer: the layers above the current one are done with
  (`Finished`: what was due there has been seen, and while nothing changes every
  name they have), the current one is read from a snapshot of its names
  (`Reading`), what its iterator passed over was seen (`Past`), and the names seen
  are those given, each once (`Once`).  `TurnKeeps` is the heart: a layer whose
  iterator comes to its end is finished (`LayerDone`), and an entry not seen before
  whose name every layer keeps is given from the layer that `status()` finds,
  because a finished layer that had it would have been seen (`Given1`, `Answered`).
  A change keeps what is still due and ends the promise of `Agrees`
  (`ChangeKeeps`).
* `OverlayProofs!NoOverrunCorrect`, `TypeCorrect`: the bytes that the layers from
  the current one up hold under the name are a set (`Bytes`), whose cardinality
  (`Volume`) one layer adds to (`VolumeAdds`).  The invariant `Enough`: unless a
  file grew, the first pass has asked for the volume of the layers behind it, and
  in the second one the file in hand and the volume still to come fit behind what
  has been copied.  The file in hand is no smaller than the one that now has its
  name (`Covers`), and is that one if it was not replaced (`Linked`).  A change that
  lets no file grow only shrinks the set (`ChangeShrinks`).
* `OverlayProofs!ConcatCorrect`: when no file changes between the passes, the
  buffer holds the files of all layers, the lowest first, and nothing else.  The
  reference `Joining` is a recursive function of the height; the invariant
  `ConcatInv` compares what was copied with its value below the current layer, and
  the room left with the volume still to come (`Exact`).

### FileManager and SourceManager

* `FilesProofs!TypeCorrect`, from the invariants below.
* `FilesStayCorrect`: below an absolute module path, what is found and what fails
  is the same wherever the `FileManager` moves the process.  `LayersInv` says that
  a stack that the `FileManager` owns has, above a base in memory that stays empty,
  only layers on disk with a mount point.  `MountedPath` is the work in characters:
  what `PhysicalToVirtualPath` makes of any request below a mount point that starts
  with a slash starts with one (`PrefixHead`, `JoinedHead`), so that it is resolved
  without the directory of the process.
* `KeepsStepCorrect`, an action property: what a move or `pushOverlay` does to the
  layers of any stack, of any height, also when a layer in the middle fails.
* `EntriesCorrect`: what the `SourceManager` has recorded of a file is what was
  read of it, and its one entry for all strings has every character of each.
  `SourcesInv` relates each source to the stack it was opened on, `TableInv` each
  entry to the sources that write to it: to one for a file (`FilesKept`), to all
  for the strings (`StringsKept`).

Two lemmas of `TextProofs` carry the inductions: `UpTo` (what holds of 0 and of
each successor holds up to a bound, a statement about sets of numbers) and
`Recursion`, the same for functions that are defined by recursion over numbers.

TLC alone shows liveness (`Drained`, `LexReturns`), which is beyond the prover, and
the formatting of messages (`FormattedOK`), whose scanners are RECURSIVE operators,
on which the prover cannot work.

## 6. Not modelled

File and path names in locations (the key of a source stands for them),
`Reset()` with a diagnostic in flight and `Report()` from within a consumer,
which nobody does, recursive listings (they nest the listings of `Overlay` and
keep no other state) and listings of relative paths, `.` and `..` within module
paths and requests, links between directories, times, permissions and
identifiers of files other than the number that distinguishes two openings,
`UseNormalizedPaths = false` of the in-memory file system, the AST (immutable
nodes), the numeric results of `APInt`/`APFloat`, and tokens such as `0x` with no
digit, on which LLVM's behaviour is undefined, beyond their extent.  The fixed
tables of keywords, punctuators and identifiers have representatives only.

## 7. Plan

Done, in this order: `Text`, `CharStream`, `Source`; `SourceManager`, `Cursor`,
`Lexer`, `TokenStream`; `DiagnosticIDs`, `ReportLog`, `Diagnostic`; `FileStore`,
`InMemoryFS`; `Overlay`; `MessageFormat`; `FileStatus`, `WorkingDirectory`,
`Files`; the proofs above.  What could follow is an abstract specification of a
merged directory that `Overlay` implements while nothing changes, and listings of
relative paths on top of `WorkingDirectory`.
