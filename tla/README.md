# Verification of nbt.cc

nbt.cc is a C++ library that reads, holds, edits and writes Minecraft's NBT
format (Named Binary Tag, without compression).  Its repository also holds the
linter that `make cpplint` runs over it (`Makefile:68`): `tools/cpplint`, a copy
of a program that has its origin elsewhere, and by far the largest program
here.  This directory holds TLA+ specifications of both, model-checked with TLC
and proved about with TLAPS.  Their modules have nothing in common: those of the
library begin with `Tag`, those of the linter with `Lint`.  Paths are those of
the repository, and `cpplint.py` is `tools/cpplint/cpplint.py`.

- [1. The system](#1-the-system): parts, state, operations, what is hard
- [2. What makes each part correct](#2-what-makes-each-part-correct)
- [3. The modules](#3-the-modules): how they correspond to the code
- [4. The runs](#4-the-runs): bounds, fairness, what each shows
- [5. The proofs](#5-the-proofs): theorems, assumptions, inductive invariants
- [6. What the code does not keep](#6-what-the-code-does-not-keep)
- [7. What is not modelled](#7-what-is-not-modelled)
- [8. Plan](#8-plan)

## 1. The system

| Component | Where | State | Operations |
|---|---|---|---|
| Tag objects | `include/tag_type.h`, `include/tag_value.h`, `src/tag_value.cc`, `include/base_tag.h`, `include/tags/*.h` | one object per tag, held through `shared_ptr`: type, name, a union of payloads, and for a list `_child_type` | constructors, accessors, the primitives of `TagValue` |
| Reader | `NBT::Load`, `NBT::GetNextTag`, `BaseTag::ReadFromBuffer`, `ReadNameFromBuffer`, `ReadBodyFromBuffer` of every tag, `ReadNextTag` of list and compound | the C++ call stack, each call with an offset of its own; the static `BaseTag::read_level` | `NBT::Load` |
| Containers | `src/tags/list.cc`, `src/tags/compound.cc`, `include/nbt.h` | the children of a list and its `_child_type`; the map of a compound; `NBT::_root` | `SetChild`, `Insert`, `Push*`, `Pop*`, `EraseChild`, `Clear`; `AddToRoot`, `GetFromRoot`, `RemoveFromRoot` |
| Writer | `NBT::GetBufferSize`, `NBT::Write`, `CalculateSize` and `WriteToBuffer` of every tag | a buffer of the caller's; per call, an offset | `GetBufferSize`, `Write` |
| Example program | `example/main.cc` | an `NBT` entity and two buffers | load, dump, write back, load again |
| Byte order, version, debug output | `include/__endian.h`, `include/nbt_version.h`, `PrintDebug` | none | |

**How they interact.**  Everything runs on the caller's thread; there are no
locks, callbacks, files or messages.  `Load` clears `_root` and fills it from a
buffer, making one object per tag; programs then hold `shared_ptr`s to any of
them and to tags of their own, and put them into lists, compounds and the root,
one tag into several if they like.  `Write` walks the objects from the root.
The only state shared by all entities is `BaseTag::read_level`.

**What is hard here** is not concurrency but recursion over data that nobody
has checked, and fields that say the same thing twice:

- the reader keeps no common cursor.  Every level adds up the sizes its callees
  return, in an offset of its own, some with the header and some without; an
  error is the largest `size_t`, and each caller has to look for it;
- every `ReadBodyFromBuffer` checks its own bounds, in its own way;
- a failure leaves the recursion in the middle: lists half filled with null
  pointers, `read_level` raised, a root that is partly loaded;
- every call of the writer checks some room, for itself, for its header or for
  a whole subtree; `TagCompound` adds the result of a child without looking;
- the reader and the writer have to agree with each other and with
  `CalculateSize`, to the byte;
- `_child_type` repeats the types of the children, keys of maps repeat names of
  tags, and there are several paths on which one changes and the other might not.

### The linter

`make cpplint` runs `cpplint.py` over the library's sources, with the settings
of `CPPLINT.cfg`, and makes its stamp file if the exit status is 0.  One thread
goes through the files, and through the lines of each.

| Component | Where in `cpplint.py` | State | Operations |
|---|---|---|---|
| Run | `main`, `ParseArguments`, `ProcessFile`, `ProcessConfigOverrides`, `_CppLintState`, `Error`, `FormatJUnitXML` | filters and their backup, verbosity, counts, all settings as globals | arguments; `CPPLINT.cfg` files; a file; an error; the end |
| Header guards | `FileInfo.RepositoryName`, `GetHeaderGuardCPPVariable` | the file system | the guard of a file |
| Text | `RemoveMultiLineComments`, `CleansedLines`, `CloseExpression` | four versions of every line | removing comments, strings, raw strings; matching brackets |
| Blocks | `NestingState` and the `_BlockInfo` classes | the stack of open blocks, and the stacks saved at `#if` and `#else` | `Update` with one line |
| Includes | `_IncludeState`, `CheckIncludeLine`, `CheckForIncludeWhatYouUse` | a section, the last header, lists of includes per condition | an include, a directive, the end of a file |
| Suppressions | `ParseNolintSuppressions` and its like | lines per category, two of them global | a line, a report |
| Functions | `_FunctionState` | whether in a function, and its lines | a line |
| Checks over lines | `CheckBraces`, `CheckEmptyBlockBody`, `CheckSectionSpacing`, `CheckCasts`, ... | none: they read lines around the one they are about | a line |
| Checks of one line | most of `CheckStyle` and `CheckLanguage` | none | a line |

**How they interact.**  `ProcessFile` collects the `CPPLINT.cfg` files above a
file, changes the global settings and calls `ProcessFileData`, which strips the
text and calls `ProcessLine` for every line.  A line first goes through
`NestingState.Update`, then through the checks; a report goes through
suppressions, verbosity and filters before it is printed and counted.

**What is hard here** is that a program that reads one line after the other, and
never parses, decides about things that lines far apart make up:

- settings, counts and suppressions are globals that outlive the file they are
  meant for, and a file may end in four ways;
- reports are raised at lines that were read long ago or are not read yet, while
  the `NOLINT` comments are read line by line;
- the stack of blocks is saved and restored at directives, and a brace may open
  in one branch and close in another;
- comments, strings and raw strings are removed in passes, each of which has to
  guess what the others would have removed;
- what an else, a semicolon, a "<" or a "(" belongs to is told from braces and
  from text on lines around it.

The hazards of both programs are listed one by one, with their lines, in
`PROJECT.json`.

## 2. What makes each part correct

- **Reader.**  No tag is made from bytes outside of the buffer; the offsets of
  all levels agree with what was read; `Load` returns true only at the end of
  the buffer, and what is in the root then is the buffer's document; after a
  failure it is the root tags in front of the failure, and nothing from an
  earlier load; lists are complete and of one type; the objects form a forest;
  of the documents of the format, and of nothing else, it returns true; every
  load returns.
- **Containers.**  Children of a list have one type, the list's `_child_type`;
  a call that is refused changes nothing; no pointer in a list or a compound is
  null; a compound is a function from names to tags.
- **Writer.**  Nothing is written behind the buffer; a child that fails is
  never taken for one that has succeeded; every tag takes as many bytes as
  `CalculateSize` says; `Write` succeeds exactly when `GetBufferSize()` fits;
  what it writes is the format's document.
- **Example.**  What was loaded can be written and loads again as the same.
- **A run of the linter.**  What is reported for a file follows from the file,
  the `CPPLINT.cfg` files above it and the command line, and not from the files
  before it; what was printed, the statistics, the exit status and the XML
  report agree; guards do not depend on where a checkout is; the run ends.
- **The linting of a file.**  What remains of the text is the code, all of it
  and nothing else; brackets and blocks are those that C++ sees; the open blocks
  behind each line are those of the lines in true branches; and a report is
  made exactly where the C++ text calls for it, unless it is suppressed.

## 3. The modules

| Module | Models | Built on |
|---|---|---|
| `TagHeap` | tag objects, pointers, maps, the byte-level constants | |
| `TagReader` | `Load` and everything below it | `TagHeap` |
| `TagFormat` | the format, as a function from tags to bytes: the abstract specification that reader and writer are held against | `TagHeap` |
| `TagReaderFormat` | what a load leaves, against the format; the format as a grammar of byte strings, and what a load accepts, against that | `TagReader`, `TagFormat` |
| `TypedContainers` | abstract specification: typed lists and maps, without `_child_type`, and the name that each tag was last given | |
| `TagContainers` | `TagList`, `TagCompound`, the root and the primitives of `__value__` | `TagHeap`; refines `TypedContainers` |
| `TagWriter` | `GetBufferSize`, `Write` and everything below it | `TagFormat` |
| `TagExample` | `example/main.cc`: reader and writer on one heap | `TagReader`; `TagWriter` as an instance |
| `MCTagReader`, `MCTagContainers`, `MCTagWriter`, `MCTagExample` | the instances that TLC checks | |
| `TagFormat_proofs` | lemmas about tags, byte strings and documents for the other proofs | `TagFormat` |
| `TagReader_proofs` | theorems: the recursion of the reader; the tags it makes | `TagReader` |
| `TagLoad_proofs` | theorems: what is loaded is what the bytes say; what is accepted is what the grammar says | `TagReaderFormat` |
| `TagWriter_proofs`, `TagDocument_proofs` | theorems: sizes and bounds of the writer; what it writes | `TagWriter` |
| `TagContainers_proofs` | theorems: containers implement typed ones | `TagContainers` |
| `LintState` | filters, verbosity and counts of `_CppLintState`, as operators | |
| `LintCheckouts` | the guard of a header, over a tree with checkouts in it | |
| `LintReport` | the XML report | |
| `LintRun` | a run of the linter over many files; what the checks find is free | the three above |
| `LintRunPromises` | what a run promises | `LintRun` |
| `LintText`, `LintBrackets` | comments and strings; brackets | |
| `LintBlocks` | what one line does to the stack of blocks | `LintBrackets` |
| `LiveNesting` | abstract specification: the open blocks of the lines in true branches | |
| `LintNesting` | the stacks saved at directives | `LintBlocks`; refines `LiveNesting` |
| `LintPaths`, `LintIncludes` | paths; includes and include-what-you-use | `LintBlocks` |
| `LintSuppressions` | `NOLINT` comments, and the check of header guards | `LintBlocks` |
| `LintFunctions`, `LintBraces`, `LintClasses`, `LintParameters`, `LintConditions`, `LintCasts` | lengths of functions, and the checks that look at several lines | `LintBlocks` |
| `LintFile` | the linting of one file: it composes all of these | `LintState`, `LintNesting`, ... |
| `LintFilePromises`, `LintStylePromises`, `LintClassPromises`, `LintCastPromises` | what the linting of a file promises, said of C++ and not of the state of the linter | `LintFile` |
| `MCLintRun`, `MCLintFile` | the instances that TLC checks | |
| `LintFile_proofs`, `LintRun_proofs` | theorems: nesting; filters, counts and configuration of a run | `LintFile`, `LintRunPromises` |

**Tags** (`TagHeap`).  `heap` is a sequence of records; a pointer is an index,
`Null` is `nullptr`.  All classes share one record: `data` is the payload of a
leaf as bytes in network order (the `htobe`/`betoh` pairs that convert on every
copy cancel out), `kids` and `ctype` are a list's vector and `_child_type`,
`map` a compound's `std::map`, as a set of entries.  Reference counting is not
modelled: a tag that nothing leads to stays in `heap` and has no effect.

**Reader** (`TagReader`).  `stack` is the C++ stack: the frame of `Load` at the
bottom, then one frame per tag whose `ReadBodyFromBuffer` is running, with the
offset where its body starts (`start`), its own offset (`next`), its loop index
(`i`) and the size of its header (`head`, what `ReadFromBuffer` adds before it
returns).  `pc` says whether the innermost call is to start (`body`), to go on
with its loop (`loop`), or to hand `ret` to its caller (`return`).  There is one
action per way through a function:

| Action | Code |
|---|---|
| `Load`, `LoadReturns` | `NBT::Load`, its entry and its end |
| `ReadHeader`, `HeaderFails` | `GetNextTag` or `TagCompound::ReadNextTag` up to the body: type, allocation, `ReadNameFromBuffer` |
| `ReadScalar`, `ReadArray`, `ReadString`, `LeafFails` | `ReadBodyFromBuffer` of leaves |
| `ReadEndList`, `EnterList`, `ResizeThrows`, `ListFails` | `TagList::ReadBodyFromBuffer` up to its loop |
| `ReadElement`, `ElementFails`, `FinishList` | `TagList::ReadNextTag`, and the end of the loop |
| `EnterCompound`, `FinishCompound` | `TagCompound::ReadBodyFromBuffer` |
| `ReturnToLoad`, `ReturnToCompound`, `ReturnToList` | each caller adding the size and keeping the tag |

A failure unwinds all calls in one step (`Abort`), because every caller does
nothing but return the error; the tag being built is dropped with it.
`consumed` and `loads` are auxiliary.  The byte that lies behind the buffer is
the constant `Beyond`, since `ReadNameFromBuffer` can read it.  The bounds of
memory are `MaxList`, the length at which `resize` throws.

**Containers** (`TagContainers`).  One action per call, taken in any order with
any arguments, null pointers, shared tags and containers in themselves
included.  `call` and `returned` record the last call and its result.  The
aliases are actions defined by what they call (`PushFront`, `PopFront`).  The
primitives of `__value__` (`PopListValue`, `ClearListValue`, ...) are actions of
their own, since they leave `_child_type` alone.

**Writer** (`TagWriter`).  The same stack and `pc` as in the reader, read in the
other direction; `todo` is what a map's iterator has left, in the order of
`std::map`.  `out` is the buffer up to the last byte written, and a byte that
was skipped holds a value that is no byte.  `Error` is -1, as `SIZE_MAX` is in
additions, so `written += SIZE_MAX` does what it does in C++.  `UINT16_MAX` is a
constant: with a small one, names of four bytes are too long already.  `Entities`
may hold any tags that a program can have put together (`Entity`): tags in
several containers, and maps whose keys are not the names of their tags.  What
it leaves out are null pointers and cycles, on which `CalculateSize` crashes or
recurses until the stack is gone.

**The format** (`TagFormat`).  `Document(Before)` is the byte string of the
entity, with its maps in the order `Before`; it is put together by `InOrder`, a
recursive function over the sets of entries that are left, the first of them in
front.  `NamedInOrder` and `KidsInOrder` say what stands for an entry and for a child.

**The grammar** (`TagReaderFormat`).  Whether bytes are a document can be said
without a tag: a *parse* names parts of a byte string, from one offset to another,
and says of each that it is the payload of a type, or the payloads of so many
elements of a type, and of some offsets that whole tags follow from there to the
end.  It is good (`IsParse`) if each thing it says follows from other things it
says: a compound is a tag and a shorter compound, or its `TAG_End`; `n` elements
are one and `n - 1` others.  Each part takes bytes, so a good parse has no
circles, and the definition needs no recursion.  `IsDocument` is a good parse that
starts at offset 0.  Two rules are this library's: a list of no type has length 1,
and no list is longer than `MaxList`.  `ParseOf` is any operator from byte strings
to parses; `MCTagReader` defines the one that the runs use, by recursion (`Parsed`).

**Example** (`TagExample`).  `LoadFile`, `WriteBack` and `LoadBack` are the three
calls of `main`; the steps in between are those of the two components.

**A run of the linter** (`LintRun`).  `phase` is where the loop over the files
is.  The arguments, the `CPPLINT.cfg` files and the checkouts are chosen at the
start and never change; a `CPPLINT.cfg` is a sequence of options, a pattern the
set of names it matches, a path a sequence of pieces.  `filenames` is a set, taken
in the order in which the code sorts the names; a file that is named twice on the
command line, which the code lints twice, is in it once.

| Action | Code |
|---|---|
| `ParseArguments` | `ParseArguments`, with the expansion of directories and `--exclude` |
| `ProcessFile` | `ProcessFile` up to the loop of `ProcessConfigOverrides` |
| `Config` | one turn of that loop: a directory, its `CPPLINT.cfg` read to the end |
| `ApplyFilters` | the filters collected, from the top down |
| `OpenFails`, `Open` | a file that cannot be read, or has another extension; one that can |
| `Error` | `Error`, of anything that the checks may find |
| `FileDone` | "Done processing", the filters restored |
| `Exit` | the report and `sys.exit` |

`phase = "died"` is an exception or a fatal error; `"hangs"` is the loop at line
1598.  `history` is auxiliary: what was linted, shown and announced.

**The linting of a file** (`LintFile`).  A file is a record with its lines, the
numbers of those that are indented, its path and the settings.  A line is a
sequence of tokens; a token is a word, a sign or a mark such as `//`.  Whether
there is a space between two of them is fixed for each kind of token
(`LintText`), since that is all that the patterns of these checks ask of white
space.  `Begin` is `ProcessFileData` up to its loop, `ProcessLine` one turn of it with
all calls in order, `End` what comes behind.  The checks are operators from a
line, and the lines around it, to sets of reports.  `raised` is auxiliary: what
would be reported without suppressions, filters and verbosity.

## 4. The runs

| Run | Properties | Bounds |
|---|---|---|
| `reader_wide` | `TypeOK`, `CursorsAgree`, `OverrunRejected`, `TagsWellFormed` (`ListsHomogeneous`, `Forest`, `KeysAreNames`), `RecursionBounded`, `OnlyDocumentsAccepted` | 27,773 buffers: all concatenations of two pieces and a third that may be cut anywhere, and of four pieces, out of twelve whole and partial tags (`MCTagReader`) |
| `reader_loads` | `LoadFaithful`, `LevelLeaksOnFailure`, `LoadReturnsEventually` | three loads in a row of any prefix of four documents: lists of compounds, tags of one name, an array and a string, a list of lists one of which has no type |
| `reader_name` | violated: `ReadsWithinBuffer` | see section 6 |
| `containers_lists` | `ListsHomogeneous`, `KeepsPromises` | two tags, bytes or lists, up to three children each |
| `containers_maps` | `TypeOK`, `KeepsPromises` | two tags, bytes or compounds, two names, one of them the root's; a tag may be in two compounds, or in one under both names |
| `containers_lookup` | violated: `RootKeysHaveTags` | see section 6 |
| `writer_sizes` | `TypeOK`, `WritesWithinBuffer`, `OnlyRootTagsFail`, `SizesAreRight` (`SizesAgree`, `SucceedsIfItFits`), `WritesDocument`, `WriteReturnsEventually` | 133 entities, three levels deep, each with buffers of 0 to 54 bytes |
| `example_roundtrip` | `RoundTrip` (`WriteBackFillsBuffer`, `ComesBack`), `DocumentsAccepted` | 1,006 well-formed files three levels deep, and documents cut short anywhere |
| `example_reload` | violated: `ReloadSucceeds` | see section 6 |
| `lint_run` | `TypeOK`, `OwnConfiguration` (`FiltersRestored`, `OwnFilters`, `ExcludedUntouched`), `CountsAgree` (`StatisticsAgree`, `StatusTells`), `AnnouncedIfShown`, `GuardsTell` (`GuardsPortable`, `RootHonoured`), `ReportComplete`, `Terminates` | four directories, up to six files, at most two errors (`MaxErrors`): six command lines with 450 arrangements of `CPPLINT.cfg` files each, and four command lines for headers with every arrangement of checkouts and four of `root` options; 560,110 states |
| `lint_linelength` | violated: `OwnLineLength` | see section 6 |
| `lint_file` | `TypeOK`, `TextCleansed`, `BlocksMatch` (`BracketsMatch`, `OpenBlocks`), `NestingIsLive`, `IncludesReported` (`OrderReported`, `AlphabetReported`, `DuplicatesReported`, `NeedsMet`), `NolintExact`, `FunctionSizes`, `BracesReported` (`ElseTells`, `SemicolonsEndBodies`, `EmptyBodies`), `BlankLinesReported` (`SectionsSpaced`, `BlankLines`), `DeclarationsReported` (`ExplicitReported`, `VirtualRedundant`, `ReferencesReported`), `ChecksReplaceable`, `CastsTold` (`CastsReported`, `AddressesTold`, `FailsOnOperators`) | all files of twenty-six families; 332,674 states |

A property in front of a parenthesis is the conjunction of those in it, each of
which is defined and explained on its own; `PROJECT.json` has several mutants of
such a property, which break different parts of it.

**Why the bounds are enough.**  The reader takes decisions on one tag and its
caller at a time.  Four pieces are enough to have each kind of tag in each kind
of container, with something wrong in it or behind it, at every offset to the
end of the buffer; three levels are enough to have a caller that is a caller's
callee.  Two tags and three children let a list become empty, change its type,
hold a tag twice and hold itself.  The largest entity of `writer_sizes` takes
at most 52 bytes, so every bound check of the writer fails and succeeds, by
one byte, at every place.  What does not depend on small bounds is proved
(section 5).

A family of `MCLintFile` is every sequence, up to a length, of the tokens or
lines that one promise is about, and each family is checked against all
promises.  The lengths are those at which what is hard happens: five pieces of
text can open a raw string in a comment in a raw string; five lines can open a
brace in one branch of a conditional and close it in another, with an `#else`
more than there should be; four lines of ifs and elses, of every indentation,
have an else that could belong to either of two ifs.  The limits of the code are
made small with it: a function is long with one or two lines, a class small with
three, a namespace with two, and the copyright is looked for in two.  A run takes
decisions on one file and on what the files before it have left, so three files
are enough, in a tree where one directory is in another and a third is beside it.

**Deadlock** is checked for the writer, which can always be called again.  The
readers stop after `MaxLoads` loads, the containers' runs when `MaxTags` and
`MaxKids` are used up, `main` returns, and the linter exits: those cfgs say
`CHECK_DEADLOCK FALSE`.

**Fairness** is `WF_vars(ReadStep)` and `WF_vars(WriteStep)`: a call that has
started keeps running, as a sequential program does.  Nothing forces a program
to call `Load` or `Write`.  That the calls return is then not a matter of
scheduling but of the offsets moving on.  For a run of the linter it is
`WF_vars(Next)`: the run is one loop of one thread, which goes on while it can.
`Terminates` says that it comes to an end, and names the one arrangement of
checkouts for which it does not.

**The properties that took most thought.**  `OverrunRejected` explains why the
off-by-one in `ReadNameFromBuffer` is not seen: no tag that was named past the
end survives the check its own body makes next, a compound's only at its first
child.  `OnlyRootTagsFail` is why `TagCompound::WriteToBuffer` may add what its
child returns without a look: the check before it includes the whole subtree.
`RoundTrip` states an equivalence, not an implication: a reload fails exactly
when there is an empty list that can still be reached.  The promises
about the linting of a file never look at its state: each says of the text,
read as C++ reads it, where a report should be, and where that could not be
said without a parser they say for which files it holds (`Balanced`,
`WellBracketed`, `Readable`).  `NestingIsLive` is the only one that needs no such
condition.

## 5. The proofs

`tlapm` checks all of them; they rest on the ASSUMEs of the modules: buffers are
byte strings, types and names are what the code has, bounds are numbers; the
entities that are written are those a program can have (section 3); the
command line and the `CPPLINT.cfg` files have their types, and every path
upwards reaches the root; names of files and directories are not empty, have no
"/" and tell the directories beside each other apart (`NamesAssumption`); no file
is called as a case of the report that is no file's (`ReportAssumption`); and a
`root` option whose text file names begin with leads to the directory of that
text (`RootAssumption`: what `os.path.abspath` does where no link is in the way).
TLC evaluates every one of them.

Two things are used in several places.  Induction is taken from the library's
`WFMin`, a fact about sets: `Naturals` and `Subsets` state it for a set of numbers
and for a set of finite sets.  With it a recursive *function* can be shown to
exist, by induction on its graph, and so to satisfy its defining equation.  And
an operator on byte strings is proved about once and then kept opaque.

**Reader** (`TagReader_proofs`), for any set of buffers of any length:
`TypeCorrect`, `Cursors`, `Overrun`, `ReadsAll`, `Recursion`, `LevelLeaks`.
`IInv` adds two things to the properties themselves.  `FramesOK` says of every
active call that its tag is a container, where its offsets are in relation to
each other, and that frame j has cost three bytes for each level below it;
without it a return could not be shown to meet the caller it belongs to.  And
the number of open compounds is at most `read_level`, which is what keeps
`read_level` from falling below zero when one of them ends.  There is a lemma
per action, and lemmas for the three ways frames change: a call is entered,
goes on, or returns.

**The tags of the reader** (`TagReader_proofs`), for the same buffers:
`WellFormed`.  `TagsWellFormed` speaks of the tags in memory alone, and is not
inductive: it says neither that a tag which is being read is pointed at by nothing
yet, so that its caller can keep it when it returns, nor that what was there before
the current root tag leads to nothing made since, so that `Load` can drop all of
that when it fails.  `Linked` says both (`Fresh`), and for each list being read
that its first `i` children are there and the others null (`Lists`).  A forest is
stated over pointers (`Pointers`): each leads to a younger tag, and no two to the
same one.

**What a load leaves** (`TagLoad_proofs`), for the same buffers: `Faithful`, from
`LInv`.  `LoadFaithful` speaks of a load that is over, and encodes the tags in the
root.  In the middle of a load there is no root to encode: the tags are spread
over the calls, some half read, and a map may have dropped one for a later one of
the same name.  So the invariant does not encode; it says that there are two
functions, of every tag made the bytes `z` that were read for it and the container
`o` that it was read into, such that each active call has read, from its start to
its offset, the head of its tag and then the bytes of the tags read into it, in
the order of their age (`BytesRead`), and that the bytes of a finished tag are its
payload in the format, given those of its children (`Whole`).  An action makes
one tag, hands one to its container or drops the tags of a root tag that
failed, and there is a lemma for what each of these does to `o` and `z`.  At the
end, with nothing replaced, what was read into a container is what is in it
(`Kept`), and `z` is the format's own function, which is what it had to be all along.
The byte behind the buffer is part of the invariant (`Ext`), since a name may take it.

**What a load accepts** (`TagLoad_proofs`), for the same buffers: `Accepts` and
`AcceptsOnly`, which together say that `Load` returns true exactly of the documents
of the grammar.  Neither follows from the other, nor from `Faithful`: that is about
loads that went well, and these are about which do.

`Accepts` says it of every `ParseOf`, so of every parse there is.  `AInv` takes any
parse of the buffer and relates the calls to it: each is in a part, and `end` says
where that part ends (`Within`).  The innermost is at the beginning of a payload, in
a loop that has a part left to its end (`Remains`), or at the end; and what a
caller has left behind its callee's end is a part, too.  A bound check that fails
would contradict the part the call is in, and there is a lemma for each action that
fails, that it cannot happen.  The check of a name, which is one byte too generous,
is not too strict.

`AcceptsOnly` goes the other way, from what was read to a parse.  `OInv` says that
there is a good parse which has all payloads that were read to their end, and that
each loop has come from part to part: `M[j]` holds the offsets between the tags, or
the elements, that the loop of frame j has behind it (`TagsSoFar`,
`ElementsSoFar`).  Only when a loop ends are its payload and the payloads from all
these offsets added to the parse, at once (`FinishListReads`,
`FinishCompoundReads`), since what a compound is from one of its tags on is known
only then.  Good parses stay good when they grow (`PartialGrows`).
`AcceptsParsed` states the same for the `ParseOf` of a run, of which it
asks that it finds a parse of every byte string that has one.

**Containers** (`TagContainers_proofs`), for any number of tags, names and
children: `TypeCorrect`, `Homogeneous` and `Refinement`.  `IInv` is `Good(heap)`:
each tag is `Sound`, that is, a list's children are tags of its `_child_type`
and a compound's entries lead to tags.  `Refinement` needs it
at each step: the code compares a new child with `_child_type`, the abstract
specification with the children, and the two guards are the same only in a
`Sound` list.  `ShowsInstead` is what the abstract state sees of one tag put in
the place of another; `SetToCompound` puts two, the compound with its new entry and
the child with its new name, which may be one and the same tag.
`Homogeneous` is what `Entity`, the assumption of the writer's proofs, says of lists.

**Writer** (`TagWriter_proofs`), for any entities and any sizes of the buffer:
`TypeCorrect`, `WithinBuffer`, `NestedCallsSucceed` and `SizesCorrect`.  The four
hold together or not at all: a compound writes a child without a look at the
result since what it checked before covers the whole subtree, and that is so
only if `CalculateSize` is right for every tag below.  `IInv` is the conjunction
of these properties with `FramesOK`: every call started where its caller has
come to, has written the header and the children that it counts, and has room
for what is left as long as its caller has made sure.  First it is shown that
`CalculateSize`, a recursive function on tags, exists and is the sum of its
parts, and that the sum over a set of entries goes down by the size of one when
that one is taken away.

**What is written** (`TagDocument_proofs`), for the same entities:
`DocumentWritten`.  `DInv` says that the document is what has been written,
followed by what each active call has still to write, from the innermost call
outwards (`Splits`, `BytesLeft`): a call at its `body` has the whole payload left,
one in its loop the entries of `todo`, or the children from `i` on, and a compound
its `TAG_End`.  A step is then a matter of cutting a front off what one call has
left, handing it to a new call, or giving it back.  Before that the format's
functions are unfolded: `InOrder` exists for every finite set, its result is a
byte string, and it is the first member's bytes and then those of the set without
it.  What the property is stated under, that no length is cut to 16 bits and no
list is empty, is `Granted`, of the tags that the root leads to (`Live`); that
each active call's tag is one of them is part of `DInv`.

**A run of the linter** (`LintRun_proofs`), for any tree, command line and number
of files and errors: `TypeCorrect`, `FiltersAreRestored`, `CountsAreRight` (from
`StatusIsRight` and `StatisticsAreRight`), `AnnouncementsAreRight`,
`ConfigurationIsOwn`, `ReportIsComplete` and `GuardsAreTold`: all safety properties
of `lint_run`.
The invariants are `FiltersKept` (the filters, and
while a file is under way their backup, are those of the command line),
`ErrorsCounted` (as many errors are counted as were shown), `StatusRight`,
`NothingYet` (nothing was shown while the arguments are read) and `Announcing`
(`old_errors` is the count from before the file, and all errors behind it are of
this file, so that the comparison at its end tells whether it has any).
`StatisticsAgree` needs a lemma of its own: one error more in a sequence bumps
its category and no other.

`ConfigurationIsOwn` is the property one would want of a linter: what decides
about a file are the lines of the `CPPLINT.cfg` files above it, the nearest first,
and then the command line; never a file linted before.  The code collects
filters from the file upwards until `set noparent`, stops at an `exclude_files`
that matches, and adds them from the top down, so that the nearest come last.
`OwnInv` relates what has been collected at each place on the path to the lines
up to there (`Got`, `Decided`): the collected filters decide about each category
as the nearest of these lines that concerns it does, and none of the lines
excludes the file.  That the loop of the code and the path of the promise go through
the same directories (`At`) rests on `UpwardsAssumption` and `NoneAssumption`:
every path upwards reaches the root, and what stands for "no directory" is none.

`ReportIsComplete` is about a report made at the very end from what was kept since
the beginning.  `RInv` says that the failures kept are the errors shown, one for one
(`Mirrors`), and that each file asked for is still to come, linted, excluded, or has
left an error in the report (`Told`); that needs `OwnInv`, for an exclusion by
a `CPPLINT.cfg` has to be one that counts for the file.  Of the report itself, a
lemma about one failure (`FiledOne`: it goes at the end of the case of its file, or
opens one, and leaves all others as they are) carries over to all of them by
induction over the errors (`AllFiled`).

`GuardsAreTold` is two things.  What was asked for is what
`GetHeaderGuardCPPVariable` says of the root in force then (`GInv`): a file is linted
once, so its guard is not one from before, and the root in force is none, that of
the command line, or one that a `CPPLINT.cfg` sets (`Rooted`), which has to be carried
through the options of a file.  The other is about trees and paths, by
induction from the topmost directory down (`TreeInduct`, `TreeFunction`).
`TopmostKnown`: the topmost checkout is the same seen from a file and from any
checkout the file is in, so two files that share one are named from the same place.
`OnlyAbove`: a name begins with the path of a directory only if the file is below it,
since one name cannot be the beginning of another where a slash follows
(`SameName`); so comparing texts, as `StripListPrefix` does, is the same as
looking at the tree (`FixupFromRoot`).

**The nesting of blocks** (`LintFile_proofs`), for any file:
`NestingImplementsLive`, from `SavedIsOK`.  The abstract specification keeps two
things: the blocks opened by the lines that count, and of every open `#if`
whether its `#else` was seen.  The code keeps the
stack that all lines have built and, for every open `#if`, the stack before the
`#if`, the one before its `#else`, and whether there was one; at `#else` and
`#endif` it puts a saved stack back.  `KeptStack`, the mapping, is the stack saved
at the *outermost* `#else` that was seen, because nothing that is opened behind it
will stay; so a step of the code in a dead branch, which may change everything,
is a stutter, and an `#endif` has to bring back what only the mapping knew.
`SavedOK` says that the saved stacks are well formed, and `Carries`,
with a lemma per directive, that the outermost `#else` of the new saved stacks
keeps what that of the old ones did.  `Nest`, what a line does
to the blocks, is a constant of the abstract specification and stays opaque: the
theorem holds whatever braces, classes and namespaces do.

**Only model-checked**, and why:

- `RoundTrip`: `DocumentWritten`, `Accepts` and `Faithful` are its three parts, but
  between them it needs that the document of any entity has a parse, and that two
  entities with the same document are the same, each by induction over tags;
- what the linter says of a file, but for `NestingIsLive`: the promises parse the
  text in their own way, the checks in another, and that the two agree on every
  text is induction over both; they are also full of words, and tlapm does not
  know that a literal is a string;
- liveness (`LoadReturnsEventually`, `WriteReturnsEventually`, `Terminates`), which is out of
  reach of the prover, and the runs that show a violation.

## 6. What the code does not keep

| Run | Claim | What happens |
|---|---|---|
| `reader_name` | `include/base_tag.h:76`, a read ends at `length` | a name may take one byte behind the buffer (`src/base_tag.cc:65`); harmless to the entity, see `OverrunRejected` |
| `containers_lookup` | `example/main.cc:165`, root keys have tags; `include/nbt.h:47` | `GetFromRoot` adds what it does not find, as a null pointer |
| `example_reload` | `include/tag_type.h:21`, empty lists may have type `TAG_End`; `example/main.cc:175` | an empty list is written with length 0 and read only with length 1 |
| `lint_linelength` | `cpplint.py:268`, a `CPPLINT.cfg` has an effect on its directory and those below, unless overridden by a nested one | the line length stays set for other directories, and one further up overrides the nearer (`cpplint.py:6559`) |

Remarks of the headers that are not worth a run: `read_level` is not the depth
(`include/base_tag.h:222`) after a failed load, which leaves it raised
(`include/tags/compound.h:137`; `LevelLeaksOnFailure` says by how much); `PushBack`
is `Insert(count(), ..)` and not `Insert(count() - 1, ..)` (`include/tags/list.h:66`);
`Write` returns a number of bytes, not whether it succeeded (`include/nbt.h:112`);
and `AddToRoot` does not give the tag the name it is added under
(`include/nbt.h:66`).

Where the promises about the linter had to leave something out, the code does
not keep what one would expect.  All of these are in the model, and the promise
says at the place that it does not cover them:

- a `NOLINT` on the line where the condition of an empty body ends has no effect
  if the condition begins on a line above;
- a header with "c++" in its path gets a guard made of its absolute path, and in
  an old Subversion checkout inside of another checkout two headers can be asked
  for the same guard; a `.svn` in the topmost directory never lets the run end;
- the headers of a file are not looked for where "public" and "internal" hide
  each other in its path, and an include counts as that of the own header if one
  name is contained in the other;
- `#else` throws away the includes of the first branch, so a header may be asked
  for that is there;
- a constructor with three parameters, the last of them a pack, is counted wrong;
- an operator "<" in a parameter of a constructor, or the end of a line behind
  the type of a cast whose address is taken, is an `IndexError` that ends the run;
- of two casts on a line only the leftmost is judged: `sizeof(int) + (int)x` passes;
- two lines below a function whose references are allowed, no reference is seen;
- a blank line before `} else` is reported if nothing follows the else;
- a comment that does not end is reported one line below its beginning;
- a `--filter` without sign raises a `ValueError`, where other wrong options print
  the usage text;
- errors of the XML report do not change the exit status: a file that cannot be
  read leaves it 0, and `make` makes its stamp.

## 7. What is not modelled

- `ReadFromBuffer` and `WriteToBuffer` called by a program on a single tag,
  and so on one that already has children (section 8).
- Cycles in the writer: a list that is put into itself has no size, and the
  program recurses until its stack is gone.
- Arrays whose length does not fit in 32 bits; `size_t` overflow of offsets.
- Leaf setters and getters, `AsPtr`, `Dump`, `PrintDebug`, version strings: one
  assignment or none, nothing that depends on an order of calls.
- Of the linter, the checks that match one line against one pattern: spacing,
  tabs, `printf` formats, thread-unsafe functions, C++11 features and their like,
  some hundred of them.  They keep no state, and a model of one would be its
  pattern.  White space but for indentation, the named delimiters of raw strings,
  the exceptions that depend on four or six spaces, types qualified across lines
  (each named in the comment at the head of its module).  Usage text, printing.
- `cpplint_unittest.py`, `cpplint_clitest.py`, `setup.py`: the linter's tests and
  packaging, which `make` does not run.  The other tools, and `assets/`.

## 8. Plan

The order so far: reader, its proofs; containers, their refinement and its
proof; writer; the example; a run of the linter and its proofs; the text, blocks
and directives of a file, their refinement and its proof; includes, suppressions
and functions; the checks that look at several lines; the proofs about the
reader's tags, the writer and the configuration of a run; those about the reader
and the format and grammar, the report and the guards.  Left, in this order:

1. `RoundTrip`, from the writer's theorem, `Accepts` and `Faithful`.
2. Proofs about the linting of a file: `TypeOK`, and what depends on the open
   blocks and directives only.
3. Calls on single tags: `ReadFromBuffer` on a tag that is in use, where
   `ListsHomogeneous` should fail and the conditions under which it holds are of
   interest; `WriteToBuffer` at an offset; cyclic tags in the writer.
