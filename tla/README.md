# TLA+ specifications of the CS107 programs

The repository holds eight assignments, independent C programs.  Paths below
are relative to `src/assignments/mysubmission/`.  The largest body of logic is
the heap allocator of `assign7`, modelled from the page range it grows in up
to the harness that tests it; the containers of `assign3`, the directory
search of `assign2` and the small programs follow.

## 1. Inventory

| Component | State | Operations | Talks to |
|---|---|---|---|
| Heap allocator, `assign7/allocator.c` | `pagecnt`, `freelist_arr` (29 list heads), and the words of the heap: prologue, blocks with header and footer, `prev`/`next` in free blocks, epilogue | `myinit`, `mymalloc`, `myrealloc`, `myfree`, `validate_heap`; inside: `add_page`, `place`, `coalesce` and `insert_node` (mutually recursive), `delete_node`, `find_fit` | calls the segment; called by harness and `simple.c` |
| Heap segment, `assign7/segment.c` | `segment_start`, `segment_size`, and which pages the kernel has opened | `init_heap_segment`, `extend_heap_segment`, two getters | `mmap`, `munmap`, `mprotect`, each of which may fail |
| Correctness harness, `assign7/alloctest.c` | the script, a table `blocks[id]` of pointer and size, the verdict, the high-water mark | `run_scripts`, `read_line`, `parse_script`, `eval_correctness`, `eval_performance`, `verify_block`, `verify_payload` | allocator, segment size, `fcyc` |
| Cycle timer, `assign7/fcyc.c` | the counter's two halves, the samples, the k smallest first, and their number | `get_counter`, `init_sampler`, `add_sample`, `has_converged`, `clear`, `fcyc`, `fsecs` | a callback that runs a whole script |
| Allocator example, `assign7/simple.c` | a linked list in blocks of the allocator | `push`, `concat_neighbors`, `free_list` | allocator |
| Vector, `assign3/cvector.c` | an array, its element count and capacity | create, dispose, `nth`, `insert`, `append`, `search`, `sort`, `first`, `next` | comparison callbacks; gives out pointers into its array |
| Map, `assign3/cmap.c` | buckets of linked cells, a count | create, dispose, `put`, `get`, `first`, `next` | gives out pointers to keys and values |
| Clients of the two, `assign3/vectest.c`, `maptest.c`, `thesaurus.c` | a map from words to vectors | tests, a synonym lookup | vector, map |
| Directory search, `assign2/searchdir.c` (and `warmup.c`) | the visited inodes, the matches found so far | `gather_files` with three gatherers, `inodeSearch`, `dateSearch`, `namesearch` | the course's vector and map, the file system |
| Pattern search, `assign1/mygrep.c` | the line buffer | `regex_match`, `search`, `grep_file` | a stream |
| Command search, `assign1/mywhich.c` | a copy of the path that each search cuts up | `cutAndFind` | the file system |
| Bit puzzles, `assign4/bits.c` | none | pure functions of machine words | |
| Bomb, `assign5/bomb.c` | the input stream | reads lines for phases that exist only in a binary | |
| Database and exploits, `assign6` | a map of records | an exercise about overruns in a given program | map |
| Forensics data, `assign0` | data, no program | | |

### What is hard in each

*Allocator and segment.*  No threads: one client, but long legal call
sequences over a data structure whose only bookkeeping is inside the memory it
manages.  The hazards are (a) order: `delete_node` finds a node's list from
the size in its header, so whether `place` and `coalesce` rewrite the header
before or after it decides which list is repaired; (b) boundaries: when a
remainder is worth splitting off, whether a fresh page really fits the request
it was fetched for, sizes close to `INT_MAX` held in an `int`; (c) partial
failure: the kernel refusing `mprotect` after `segment_size` was increased,
`mmap` refusing after `munmap` succeeded, a `myrealloc` that has freed the old
block and finds no new one; (d) a second `myinit` on a heap in use.  It is
correct if blocks tile the heap, the lists hold exactly the free blocks, no
two free blocks touch, a block is as large as it was asked to be, and nothing
the client holds moves, shrinks or is handed out again.

*Harness.*  It must not blame a correct allocator: its own table loses blocks
when a script allocates an id twice, or reallocs one to nothing.  It must
notice what a wrong allocator does, however two blocks lie.  Its parser must
let nothing through that its loops then index with.  Its utilization pairs a
peak with a segment size, and both move.

*Timer.*  A counter read in two halves, one of which wraps; insertion into a
bounded sorted array, at, below and above its bound; a loop that must end
however the samples scatter.

*Vector and map.*  The first capacity is computed from `sizeof(elemsz)`;
insertion moves elements over others; iteration compares pointers; `sameKey`
matches prefixes, and `cmap_next` finds its place by looking its key up again;
disposal frees through pointers collected by iterating.  They are correct if
they behave as a sequence and as a function from keys to values.

*Directory search.*  The file system is a graph, not a tree, and `readdir`
names entries in any order: the walk has to end on links upwards, to list each
directory once and to find every file.  A `stat` may fail halfway.

*Matchers.*  Backtracking at the ends of a line, over a buffer that holds
remains of earlier lines; a path that `strtok` cuts up for each name.

## 2. Modules

### Allocator, segment, harness

Data is counted in 8-byte words (every size the allocator stores is a multiple
of 8), pointers are word offsets from the start of the segment, and `NULL` is
word 0, where a block never starts because the prologue is there.  Requests
stay in bytes.  A call is one step, as there is one thread; what the kernel
decides inside it is nondeterministic, so the operators return the *set* of
outcomes `[heap, ptr, fate]`.  `fate` is `"up"`, `"uninit"` (after a failed
init the client can only init again), or how the process ended: `"hole"` (a
tag written into a page `mprotect` refused), `"null_block"` (`place` given
`NULL`), `"null_copy"` (`myrealloc` copying to `NULL`), `"stack"` (the array
of `myrealloc` does not fit).

| Module | Models | State and actions |
|---|---|---|
| `HeapLayout` | the arithmetic of `allocator.c`: rounding, `asize`, the page count of `add_page`, size classes, conversion to `int` | none: operators |
| `Segment` | `segment.c` as operators on `[start, size, rw]`, `rw` the open pages | |
| `SegmentSpec` | the segment as a machine | `seg`, `ret`; `Reinit`, `Extend` |
| `BlockHeap` | `allocator.c` as a set of blocks `[at, size, alloc, want]`; lists are left abstract: `find_fit` may choose any block of the lowest class that has a fit | |
| `BlockHeapSpec` | that allocator with a client | `heap`, `ret`, `status`; `Initialize`, `Malloc`, `Free`, `FreeNull`, `Realloc` |
| `HeapPromise` | what any allocator promises of each call: a region handed out has the bytes asked for, lies inside the segment and apart from all others, and no region is taken away or exchanged but the one the call names | `live`, `ret`, `up`; `Initialize`, `Malloc(bytes)`, `Realloc(r, bytes)`, `Free(r)`, `FreeNull` |
| `Allocator` | `allocator.c` word by word: boundary tags, `prev`/`next`, list heads, the recursion of `coalesce` and `insert_node`, `validate_heap` | |
| `AllocatorSpec` | that allocator with a client that writes over what it holds | `heap`, `live`, `ret`, `status`; the same calls, with `ReallocNull` |
| `Verify` | `verify_block`, over byte addresses | |
| `AllocTest` | `alloctest.c` over arbitrary scripts, on top of `Allocator`: `eval_correctness`, then `eval_performance` | `testHeap`, `blocks`, `verdict`, `perf`; `Start`, `EvalAlloc`, `EvalRealloc`, `EvalFree`, `Finish`, and `StartTiming`, `TimeAlloc`, `TimeRealloc`, `TimeFree`, `FinishTiming` |

The chain of refinement is `AllocatorSpec` => `BlockHeapSpec` =>
`HeapPromise`.  The first mapping reads the words from the prologue to the
epilogue as blocks (`Blocks`); the second forgets everything but what the
client owns (`Owned`).  `KeepsPromise` pairs call with call and argument with
argument: a `Free(b)` of `BlockHeapSpec` is a `Free` of that block's region and
of no other, a `Malloc(bytes)` hands out one region of those bytes at the
pointer returned, and leaves all others.  The middle layer is where tiling and coalescing are argued
about, as facts of a set of blocks; the lower one is where the hazards of tags
and links exist.

The recursions of the words are functions over a number of steps: `Coalesce`
repeats `MergeOnce`, one pass through `coalesce` up to its call of
`insert_node`; `FreeList` follows the links of one list; `BlocksIn` walks right
from the prologue.  Each pass makes one block of several or lengthens the list,
and a block takes five words or more, so the first two are bounded by
`MoreThanBlocks`; the third, which reaches another header each time, by
`NumWords`.  The bound is never what ends them (`CoalesceEnds`,
`FreeListThreads` and `WalkMeets` prove it).  The narrower bound also keeps
TLC's evaluation, which nests once for each step, well within its stack.

A read outside the segment is an application outside a function's domain, an
error for TLC: each run of `AllocatorSpec` and `AllocTest` also shows that no
wild read happens.

### Vector and map

| Module | Models | State and actions |
|---|---|---|
| `CVector` | `cvector.c` as operators on `[nelems, bytes, size, elems]`; a pointer into the array is its index | |
| `VectorSpec` | the vector with a client as in `vectest.c` | `vec`, `cursor`, `visited`, `answer`; `Recreate`, `Insert`, `CvecAppend`, `Nth`, `Write`, `Search`, `Sort`, `First`, `Advance` |
| `VectorPromise` | what `cvector.h` promises: a sequence | `elems`, `cursor`, `answer` |
| `CMap` | `cmap.c` as operators on buckets of cells, a cell being the bytes of key, terminator and value, so that a value written at the wrong place shows | |
| `MapSpec` | the map with a client as in `maptest.c` | `map`, `cursor`, `named`, `answer`; `Recreate`, `Put`, `Get`, `Begin`, `Advance` |
| `MapPromise` | what `cmap.h` promises: a function, iterated in some order that names each key once | `table`, `key`, `seen`, `answer` |
| `MCMap` | sets of keys | |

`VectorSpec` => `VectorPromise` and `MapSpec` => `MapPromise`.  What `qsort`
and `bsearch` do is external: a sort gives some ordered arrangement of the
same elements, a binary search some equal element of an ordered range.  The
clients keep to the headers' preconditions (no insertion or new key while
iterating) and, where the code needs more than they say, the guard says so:
an unsorted search starts at an element.

### Timer, directory search, small programs

| Module | Models | State and actions |
|---|---|---|
| `Fcyc` | `fcyc.c`, one statement of `fcyc`'s loop a step | `at`, the counter's halves, the array, `samplecount`; `Fsecs`, `Mhz`, `Rated`, `InitSampler`, `Clear`, `Run`, `AddSample`, `Again`, `Return`, `Exit` |
| `SearchDir` | `searchdir.c`, one iteration of a `readdir` loop a step; the C stack is `stack` | `visited`, `matches`, `map`, `dateMap`, `input`, `printed`; `Entry` (`Skip`, `Descend`, `Revisit`, `File`), `Return`, `PrintMatches`, `StartAsking`, `Ask` |
| `MCSearchDir` | file systems | |
| `MyGrep` | `mygrep.c`, one line a step, on a buffer that keeps what earlier lines left | `pattern`, `line`, `shown` |
| `MyWhich` | `mywhich.c`, one directory a step, with what `strtok` has left | `dirs`, `nextName`, `unread`, `found` |
| `Bits` | `bits.c` as operators, called as `bitstest.c` calls them | `call`, `value` |
| `Script` | `read_line` and `parse_script` of `alloctest.c`, one piece of a line a step, as `fgets` cuts a line that does not fit the buffer | `ops`, `nallocated`, `maxid`, `num_ids`, `lineno`, `pending`, `fate` |
| `VerifyCalls` | `verify_block` given answers no correct allocator gives | `table`, `judged` |
| `Thesaurus` | `thesaurus.c` over the operators of `CMap` and `CVector` | `thesaurus`, `synonyms`, `reply`, `phase` |
| `Simple` | `simple.c` over an allocator that may reuse any free address, move or refuse | `live`, `list`, `cur`, `stage` |
| `Programs` | one of the last seven runs in each behaviour | `program` |
| `MCPrograms` | their inputs | |

`searchdir.c` is linked with the course's own vector and map, not with those
of `assign3`; they appear there as a sequence and a function.  `Thesaurus` is
linked with those of `assign3` and is the composition in which a map holds the
addresses of vectors.

### Proofs

`BlockHeapProofs`, `AllocatorProofs` (which instantiates it as `H` under the
refinement mapping), `AllocTestProofs` on top of both for the harness,
`PartsProofs` for the segment, `verify_block`, `parse_script`, the list of
`simple.c`, the timer, the bit puzzles, the command search and the thesaurus,
`VectorProofs`, `MapProofs`, `SearchProofs` for `searchdir.c` and `mygrep.c`,
and `NumberFacts` with the arithmetic, counting and induction over numbers and
finite sets that they cite.

## 3. Runs

| Run | Question | Bounds |
|---|---|---|
| `Segment_calls` | all sequences of init and extend against a kernel that may refuse each call or ignore the address hint | 6 pages, increments 0 to 3: an extension can be empty, fill the range exactly, exceed it, follow a hole |
| `BlockHeap_calls` | shape, tiling, complete coalescing, capacity and the promise of `HeapPromise` | 3 pages of 15 words, requests of 0, 24 and 41 bytes: payloads of 5 and 8 words, so a free block is split, taken whole with a rest below `MINBLKSZ`, merged left, right and on both sides; a page holds two or three blocks, the heap grows twice and fills up; realloc stays, moves and fails |
| `BlockHeap_growth` | the fetched page fits; pages under the heap are open | 5 pages of 14 words, a kernel that may refuse, `Prefetch` 2 instead of 10 so that the extra `pagecnt/10` pages occur; 48 and 70 bytes: payloads of 8 and 11, and 16 after a realloc, which is larger than a page |
| `Allocator_calls` | tags consistent in every block, `validate_heap` rejects exactly the heaps with a free block it cannot judge, client and heap agree, each call a step of `BlockHeapSpec` | 2 pages of 13 words, 4 lists, requests of 0, 16 and 41 bytes; a kernel that may refuse or map elsewhere, and an `IntMax` of 150, above every request and below the largest free block two pages can make: each of the three reasons to reject a heap occurs, and so do heaps without any |
| `Allocator_lists` | lists exact, each call a step of `BlockHeapSpec` also when the kernel refuses | one page of 28 words and 2 lists, requests of 8 bytes: up to three free blocks on one list, so first, last, middle and only nodes are deleted; failed inits before and after a heap exists |
| `AllocTest_scripts` | no script makes the harness report anything but a full heap or a free block beyond `int`; the utilization it reports is one | 2 pages of 14 words, `IntMax` 180 so that a free block can exceed it, 2 ids, sizes 0, 24 and 41, scripts of any length, one after another, each checked and then timed |
| `Vector_calls` | the sequence of `VectorPromise`; elements within their block; loops see everything and end | hints 0, 1 and 3 with a default capacity of 2, up to 4 elements of 3 values: an array doubles never, once and twice, at its end and in the middle |
| `Map_calls` | the function of `MapPromise`; iteration finds its way and ends; disposal frees each cell once | 2 or 3 buckets, four keys: with 2 buckets three share one, and the fourth has one of them as a prefix but lies apart |
| `Map_prefix` | *violation*: the same with a key that is a prefix of another in its bucket | one bucket, keys `<<1>>` and `<<1, 2>>` |
| `Fcyc_calls` | readings exact; the smallest samples kept, the smallest returned; calls end | K 3, limit 5, four times of which some are within epsilon of each other; halves of 2 bits, so that the low half wraps once or twice |
| `SearchDir_trees` | directories listed once; every match printed, in order, each path once, and by two paths only what lies in the directory searched; inodes and days answered; the walk ends | all file systems of two directories with up to two entries each, leading to any directory, file or failing `stat`; 32 of three with links upwards, hidden names and an unreadable directory; all three options, any order of entries |
| `Programs_inputs` | each small program against a definition of what it should answer | patterns of up to three items (a character, a dot, each also starred), with and without `^`, and with a star in front or doubled or a caret inside; pairs of lines of up to 4 characters, one with a NUL in it; six lists of directories and two names; words of 4 bits; every instruction, with the four bytes of an immediate free; files of 4 pieces of twelve kinds, two more lines of two or three pieces among them (a comment with a request behind it is one), with the array growing by 2; every way two blocks can lie; files of 3 thesaurus lines; 4 cells at 8 addresses |

The state spaces of the allocator are finite without a bound on the number of
calls: the segment is.  The sizes are chosen so that one step of each kind of
split and merge happens within a page; what grows with the page is only how
many blocks lie between two events, on which no operation but the search of a
list depends.  A vector's operations see its capacity only in `DoubleCap`, a
map's see one bucket and the next nonempty one, a walk one directory and
`visited`: two or three of each show every case.  Deadlock is checked for the
segment only, because the other programs may end or crash.

Some properties leave out what the code gets wrong, and say so in their
comment: `ShowsFirstMatch` patterns with something behind a starred dot,
`BitsRight` twice the least number, rows with no digit left for `is_single`,
and immediates of which `disassemble` drops a byte or runs the digits together;
`PrintsMatches` the files of the directory searched, which may be printed by
two paths, `AnswersTrue` a failed `stat` and all but one of an inode's paths,
`ParsedExactly` the numbers of lines behind one that came in pieces,
`OnlyLargeBlocksFail` and `ValidatorExact` sound free blocks that
`validate_heap` cannot judge; `AnswersFromFile` words that are confused with a headword,
`UtilizationSound` scripts that have leaked a block.  Section 5 lists these.

Every property has a mutant in `PROJECT.json`: a definition of the code
changed the way a plausible bug would change it, under which the run's own
configuration finds the property violated.  The mutated forms stand before
their originals, each with its comment.

### Fairness

Four liveness properties are checked, each under weak fairness of the steps
one thread takes by itself, which is all the code justifies: that a running
thread goes on.

* `IterationEnds` of `VectorSpec` and of `MapSpec`: `WF_vars(Advance)`.  A
  `for` loop, once begun, comes round again; between two rounds its body may
  read, write and put.
* `CallEnds` of `Fcyc`: `WF_fcycVars(Step)`.  The function under test returns.
* `GatheringEnds` of `SearchDir`: `WF_vars(Gathering)`.  `readdir` answers.

No fairness is assumed of the caller of `fsecs` or of the user who is asked
for inodes.  The allocator's calls run to their end in one step; that they do
is what `CoalesceEnds` and `FreeListThreads` prove of the only loops in them.

## 4. Proofs

### Allocator and segment

Proved for every page size above eight words, every number of lists and pages,
every set of requests and a kernel that may refuse anything:

* `BlockHeapProofs`: `TypeCorrect`, `TilingHolds`, `CoalescingComplete`,
  `PageAlwaysFits`, `PagesOpen`, that is `Spec => []P` for `TypeOK`, `Tiling`,
  `NoAdjacentFree`, `NeverPlacesNull` and `Backed`;
  and, under `SmallRequests` (no request is so large that its adjusted size
  overflows an `int`), `CapacityKept` (`CapacityHolds`) and `PromiseKept`
  (`KeepsPromise`, the refinement of `HeapPromise`, call by call);
* `AllocatorProofs`, for the words, under `SmallRequests`: `TagsHold`
  (`TagsAgree`), `ListsHold` (`ListsExact`), `NothingLost`
  (`HeldIffAllocated`), `WordsImplement` (`ImplementsBlockHeap`, the
  refinement of `BlockHeapSpec`), `WordsKeepPromise` (with `PromiseKept`: the
  words keep the promise of `HeapPromise`), and `ValidatorHolds`
  (`ValidatorExact`);
* `PartsProofs`: `StaticsTyped`, `ExtentHolds` and `ExtendAdds`, that is
  `TypeOK`, `OpenPagesWithinExtent` and `ExtendOnlyAdds` of `SegmentSpec`.

The assumptions are those on the constants, `LayoutAssumption`,
`SegmentAssumption`, `ClientAssumption`, `StackAssumption` and, for the
segment on its own, `IncrementsAssumption`.  A page above eight words is what
the denominators of `add_page` need to be positive; the code has 512.

The inductive invariant is `IInv`.  `GoodHeap` says that the blocks are a row
between prologue and epilogue in which no two free blocks touch (`Settled`).
The two parts need each other: coalescing looks one block to each side, so it
restores `NoFreePair` only if the row was settled before, and keeps the row
only because each neighbour is unique, which is what tiling says.  `Backing`
says that while the process is up the open pages are *exactly* those from
prologue to epilogue.  `Backed` alone is not inductive: from it alone the next
extension could join on to a page that is not the heap's.  `Backing` holds
only while the process is up, since a failed init discards the pages under
blocks that the globals still describe.

The argument goes from operators to steps.  `LeftEdge`, `RightEdge` and
`CoalesceRow` say what `coalesce` does to a row with one unsettled block;
`SplitRow`, `SwapRow` and `AppendRow` what cutting, marking and appending do;
`InsertSettled`, `PlaceSettled`, `ReleaseSettled` and `KeepSettled` put them
together.  `NumOfPageBounds` is the arithmetic of `add_page`: with the two
denominators of the code the pages hold the request and its overhead.
`NewPagesGood` and `AddPageGood` add the segment.  `MyMallocGood`,
`MyFreeGood`, `MyReallocGood` and `MyInitGood` say what each call does to the
heap *and* to what the client holds; `NextInv` has one step per action.

The promise needs one conjunct more, `Roomy`: every allocated block was asked
for and is large enough.  With it the region of a block lies in its payload
(`RegionWords`), so tiling gives disjointness and `Backing` the segment's
bound.  `HandsOutStep`, `RefusesStep` and `DiesStep` are the outcomes that a call
of `HeapPromise` can have; `MallocPromised`, `ReallocPromised`, `FreePromised`,
`FreeNullPromised` and `InitializePromised` give each call its own.

*The words.*  The invariant of `AllocatorProofs` says that *some* set of
blocks is told by the words (`Tells`), is the client's (`Holds`), and is
settled, backed and roomy as above: `IInv == \E B : Sound(heap, live, status,
B)`.  Its heart is `Rep(h, B, F, E)`: the words carry the tags of the blocks
`B`, the edge marks `E`, and lists of exactly the blocks `F`, nothing
overlapping.  It holds *between* the statements of a call too, where a block
may be off its list, on it under an old size, or without tags, so each
statement has a lemma of its own: `RepDelete`, `RepPush`, `RepSet`, `RepWrite`
and `RepDrop`.  That order of statements decides which list is repaired shows
here: `RepSet` needs the block to be off its list.

Lists are the hard part, as nothing in the words says that they end.
`Linked` gives every listed block a `rank` that falls along `next`, which no
code computes; `DeleteLinked` and `PushLinked` show that the three cases of
`delete_node` and the two of `insert_node` keep one.  From it
`FreeListThreads` gets that following the links meets each block of a list
once and then `NULL`, and `ListsTell` that `find_fit` sees what the abstract
one chooses from.  `MergeSome` is one pass of `coalesce` against `Merged` of
`BlockHeap`, over its four cases; `CoalesceRests` iterates it and `CoalesceEnds` shows that it
stops after one pass when the row was settled.  `MallocTells`, `FreeTells`,
`ReallocTells` and `InitTells` say that each outcome of a call on the words is
one of `BlockHeap`'s on the blocks told; `NextImplements` has one step per
action and proves the invariant and the refinement together.  At the end
`WalkMeets` and `BlocksTold` identify the set the invariant speaks of with
`Blocks`, what a walk over the headers reads.

`myrealloc` adds one number: the size it keeps in an `int` is that of a block
already allocated, which may exceed what was asked by the split's remainder.
`NearInt` bounds it by 55 bytes more than `IntMax`, and `MovesToLarger` shows
that a wrapped size is then negative and ends on the stack's array and never
in a copy; that is why `LayoutAssumption` wants `IntMax > 64`.

`ValidatorHolds` needs no more than that: the kernel may refuse or map
elsewhere, and the segment may be of any size.  It says that `validate_heap`
returns true exactly if every free block is `Checkable`, the three things that
`check_freelist` asks for and that a sound free block may lack (section 5).  So
whatever else the validator looks at, tags, links, alignment, lists, is right
in every heap the calls can make, and a heap is rejected for nothing else.

The lemmas on the words also say what no statement touches: a word that is in
the payload of a block the client holds keeps its value through every call,
but for the one that frees the block or moves it, and a move copies it.  The
promise speaks of regions and not of what is in them; the harness needs both.

### Harness

`AllocTestProofs` has `eval_correctness` and `eval_performance` for any finite
set of ids, any sizes and scripts of any length, under `Obliged` (the kernel
refuses nothing and maps at the hint, what the validator needs) and
`SmallSizes` (no request whose adjusted size overflows an `int`).

* `ScriptsInvariance`: the invariant `TestInv`.  While a script runs the words
  tell some set of blocks (`Stands`, `Serves`: settled, backed, roomy,
  anchored, as above), the table's entries are blocks of it, each its own
  (`Owns`), and each holds the bytes written last (`Intact`).
* `OnlyLargeFail` (`OnlyLargeBlocksFail`): no block is ever misplaced and no
  byte changed, and the one complaint a script can bring is that of
  `validate_heap`, over a heap with a free block whose size in bytes is beyond
  `int` (`allocator.c` 497).  The segment may be of any size, so this covers
  the 8 GB of the code.
* `UtilizationHolds` (`UtilizationSound`): the payload counted is never less
  than what is in use, and as long as it is no more, the utilization is at
  most one, of the largest segment there was.

`Grants` says what a call returns to the harness: the old table's blocks still
stand, the new block is none of them, the segment is no smaller, and nothing
that was held has changed.  `MallocGrants`, `ReallocGrants` and `FreeCall`
derive it from the calls on words.  `GrantTaken` then does the work for every
kind of request: `verify_block` accepts the block, since `VerifyBlockRight`
holds and blocks lie apart, `memset` writes only to it, and the table with the
new entry is again one of blocks of its own.

For the utilization `UtilInv` adds `Accounted`, what the counters say of the
table.  `Used` counts the bytes of the table's blocks as a set of pairs of id
and byte (`Paid`), so that `UsedFits` can map them one to one to bytes of the
segment; `InUseIs` shows that the sum `InUse` is that count, with an induction
over finite sets (`FiniteSubsets`) for the fold.  `PeakedAccounted` is one
update of the peak: as the segment never shrinks while a script is timed, a
peak taken earlier fits the segment there is now.

### Vector

`VectorProofs`, for every element size up to a pointer's
(`VectorAssumption`; without it the first block is too small), every hint and
any number of elements: `TypeCorrect`, `ElementsAlwaysFit` (`ElementsFit`),
`IterationSeesAll` (`IterationComplete`) and `SequenceImplemented`
(`ImplementsSequence`).  The invariant is `Vector` (the shape of the struct),
`Fits` (the *capacity*, not only the count, fits the bytes, which is what the
next insertion needs) and `Seen` (a loop has visited exactly the indices up to
its cursor).  `DoubleCapFits` and `InsertFits` carry `Fits` through growth;
`InsertPromised` shows that the elements after the copy are those of a
sequence with one inserted, `SortPromised` and `SearchPromised` do the same
for what `qsort` and `bsearch` return.

### Timer

`PartsProofs`, for every K, limit, epsilon, half of a counter and set of times:
`FcycTypeCorrect`, `CounterReadsExactly` (`ReadingExact`), `SmallestKept`
(`KBestKept`) and `ConvergedMinimumReturned` (`ReturnsConvergedMinimum`).
`CounterExact` is the subtraction with borrow; it needs that the time does not
overflow the whole counter, which `SamplerAssumption` says.  `KBestKept`
counts samples at most x; `SortedInPlace`, `SortedInGood` and `KeptGood` show
that one insertion, below or at the bound, changes both counts alike, and
`FullCount` that the k-th sample kept is at most every one dropped.

### Map

`MapProofs`, for every set of keys and values, number of buckets and hash
multiplier, under `PrefixFree`: no key is a proper beginning of another that
any of the maps a client creates puts into the same bucket.  Without it the
properties are false (`Map_prefix`).  Theorems: `MapFindsItself`
(`NextFindsItself`), `MapFreesEachOnce` (`FreesEachOnce`) and `MapImplements`
(`ImplementsMap`, the refinement of `MapPromise`).

`Sound` says that every cell lies in the bucket its key hashes to, that no
two cells have the same key, and that `size` counts them.  `SameKeyIsPrefix`
shows what `sameKey` really tests on the bytes of a cell, and `FindExact` that
under `PrefixFree` the first cell it accepts is the right one.  `PutKnown` and
`PutNew` carry `Sound` through both ways of `cmap_put`.  For a loop, `IInv`
says that it has named exactly the places up to the cursor (`Upto`), in the
order of buckets and then cells; `NextPlace` shows that `cmap_next`, which
looks its own key up again, goes to the place that follows.  Disposal is that
loop run once, with an array of `size` pointers: `WalkNamesAll` and
`SoundFreesEachOnce`.

### Directory search

`SearchProofs`, in every file system whose directories have no name twice
(`TreeAssumption`), finite or not, with links anywhere and `stat` and
`opendir` failing anywhere: `EachListedOnce` (`DirsOnce`), `SearchAnswers`
(`AnswersTrue`) and `SearchPrints` (`PrintsMatches`).

The properties speak of reachability as a least set (`Reachable`), so the walk
has to be shown to stay inside it and to leave nothing out.  `CallsInv` is the
first: every frame of the C stack is a directory that its path leads to.
`Complete` is the second: each entry of a directory opened so far is pending
in some frame, has been taken, or leads to a directory opened; when the stack
is empty the opened directories are closed under entries, and `AllListed`
follows.  `Apart` says that no path is gathered twice, which needs `Fresh`: no
path gathered or being read begins with one that is still to be read.  `OneWay`
says that no directory below the one searched has been opened by two paths,
so that its entries are gathered by one path only.
`Honest` says that what is gathered is a file its path leads to.  For printing,
`ComparesApart` shows that `cmp_path`
orders distinct joined paths strictly, so one sorted arrangement exists, and
`OrderedKeeps` that cutting it down to the matches keeps the order.

### Around the heap

`PartsProofs` also has three smaller parts of `assign7`.
`VerifyBlockRight` (`JudgedRightly`) is for every heap, address and size: the
three comparisons of `verify_block` are exactly "a byte is shared"
(`OverlapsShareByte`).

`ScriptsParsed` (`ParsedExactly`) is for files of any length, lines in any
number of pieces, and any `Chunk`.
`ParserInv` says what `Read` has made of the lines so far: the numbers of the
requests among them ascend, none is left out, and `maxid` is at least every id,
so that the table made at the end of the file has a place for each.  `Counted`
says that the count of lines is that of the file as long as none came in pieces.

`ListOwned` (`ListOwnsHeap`) is for any number of cells and an allocator that
may answer with any free address, move a string or not, and refuse.
`Chained` names the cells, the strings and what these spell in the order of
the list, and says that they are distinct and are all the blocks there are;
without the distinctness a step would not be known to free what it unlinks and
nothing else.  `PushChained`, `JoinChained` and `FreeChained` carry it through
the three loops of the program, `PushSpells` and `JoinSpells` the numbers.
`CellsAre` and `SpeltIs` tie it to the recursive definitions in which the
property reads the list.

### Pattern search

`MatchesShown` (`ShowsFirstMatch`) of `SearchProofs` is for every pattern with
nothing behind a starred dot, any lines, NULs in them included, and whatever
the buffer held before.  The property says what a pattern means without the
buffer: `MatchEnds` is over the places of the line, and a star takes the most
that lets the rest match.  `regex_match` walks the buffer instead, and nothing
but the NUL at the line's end keeps it from what earlier lines left.

Both are recursions in which a rest of the pattern depends on the rests that
are one and two characters shorter.  `MatchIs` and `MeaningIs` unfold them
(`RecursionOnTwo`), and `MatchAgrees` shows by `InductionOnTwo` that they give
the same ends at every place of the line.  Its step, `StepAgrees`, has a case
for each branch of the code.  With a starred character, `StarAgrees` shows that
the greedy run never passes the NUL (`FarIs`) and that giving back one
character after another finds the largest place that fits (`LastIs`).  A
starred dot takes the rest of the line (`DotStarAgrees`); with something behind
it the code would look past the NUL for that, so the hypothesis is needed.
`PieceIs` and `PrintsMatch` carry the result through the three `printf`s.

### Bit puzzles

`BitsAnswers` (`BitsRight`) of `PartsProofs` is for every width, given as the
value `Top` of its top bit, every pair of summands but twice the least number,
all sets of digits that leave one, and every instruction but the immediates
that `PrintedAs` leaves out, those whose upper bytes are not zero or whose
digits run together.  Its hypothesis `AllOnes = UMod - 1` says that the literal
`0xffff` is all ones in the type, as it is in `char` and `short`; in wider
types it is not, and the functions are wrong (section 5).  `UnsignedPegged` and
`SignedPegged` follow the carry: `SignedIs` says what the conversion makes of a
sum of two numbers in range, and the sign test is right but for twice the least
number.  `SingleRight` counts digits, and `Decodes` goes through the forms of
`pushq` in the order of the tests.

### Command search

`NamesFoundFirst` (`FindsFirst`) of `PartsProofs` is for every list of
directories, every names and every set of readable files.  The property is
stated without `strtok`: a directory begins where a character other than a
colon stands first or behind a colon, and the answer to a name is the least
such place whose directory has it.  `Left`, in the invariant `WhichInv`, says
that what `strtok` has not cut off is the rest of the *unchanged* list from a
place p on, and that no directory before p has the name.  `NextDir` is one cut:
the token is the one directory between p and the place it stops at, however
many colons lie between.

### Thesaurus

`ThesaurusAnswers` (`AnswersFromFile`) of `PartsProofs` is about map and vector
together: for every file, every question, any number of lines, buckets and
characters, and any hash.  The assumption on the constants is that words are
not empty and that their characters lie up to `Base`, the addresses above it.
It does not assume that the headwords are kept apart, as the proofs of the map
do: headwords of which one begins another may damage each other's cells, and
the theorem is that nobody else's answer suffers.

The inductive invariant is `ThesaurusInv`.  Its part about damage is `Begun`:
whatever word the walk along a bucket would take a cell for begins a headword
of that bucket, and the cell has room for a value behind it.  Overwriting a
cell keeps this, because an address lies above every character, so that a cell
opens to fewer words than before (`OverwrittenOpensLess`).  The other part,
`Known`, leads every headword that is not confused to the vector with the
words of its last line.

It rests on what the operations do: `FindIs`, `GetIs` and `PutIs` say it of
the map's walk, `PutGets`, `PutLeaves` and `GetsNothing` of an answer after a
put; `CollectedLists` that a vector filled by appending, growing as it does,
lists the words in order, and `PrintsAll` that the loop of `query` over
`cvec_first` and `cvec_next` prints them all.  `EnterKeeps` and
`QueryAnswers` put these together.

### Only model-checked

Liveness (`IterationEnds`, `CallEnds`, `GatheringEnds`), which the prover does
not do.  Every invariant and every action property that a passing run checks is
stated by a theorem.

## 5. Disagreements between code and documentation

`Map_prefix` shows one: `sameKey` (`cmap.c` 122) compares as many characters
as the given key has, so a key that begins a stored key of its bucket is taken
for it.  `cmap_get` answers with an address inside that cell, `cmap_put`
writes there, and no key is added; `cmap.h` 146 promises `NULL`.

The others are in the models as the code has them.  Allocator, segment,
harness:

* A refused `mprotect` leaves `segment_size` increased (`segment.c` 59-60), so
  the extent that `segment.h` 57 defines covers pages that are not open.
* A refused `mmap` leaves `MAP_FAILED` in `segment_start` (`segment.c` 42-43),
  which `heap_segment_start` returns; `segment.h` 54 promises `NULL`.
* `myrealloc` keeps sizes in an `int` (`allocator.c` 436): close to `INT_MAX`
  they become negative and the block is left as small as it was.
  `CapacityHolds` fails for an `IntMax` near the requests.
* `myrealloc` writes to what `mymalloc` returned without a look (447), so a
  full heap ends the process; `alloctest.c` 312-314 expects `NULL` back.
* `myrealloc(p, 0)` returns before line 434 that would free the block (432).
* `myfree` of a free block inserts it again (418); 403-404 say it does nothing.
* `add_page` asks for `pagecnt/10` extra pages and gives up when the sum does
  not fit, though the request's own pages would (159); line 329
  says that `NULL` means the heap is at its maximum.
* `myrealloc` keeps the old contents in an array on the stack (441), which a
  large block does not fit.
* `validate_heap` rejects a free block above `INT_MAX` (497), which a page for
  a request near `INT_MAX` or a merge can produce, and every free block if
  `mmap` does not follow its hint (461), as the hint is written into the check;
  `allocator.h` 46 says that it returns true "if all is well".
* The same check assumes that the heap begins where the segment does.  After a
  refused `mprotect` on the first page it begins later (`base` in the models),
  and blocks near its end are rejected.  `ValidatorExact` says that sound heaps
  are rejected for these reasons and for no other.
* `read_line` reads into 1024 bytes (`alloctest.c` 206, 234): a longer line
  comes in pieces, each counted as a line and parsed as one, so that errors in
  later lines are reported under the wrong number and the tail of a comment
  may be taken for a request.  The comment at 198-201 says "one line".
* `eval_performance` counts a block that a script loses by allocating its id
  again; the utilization can then exceed one.  It writes to what `mymalloc`
  returned without a look (388).

Vector, map, thesaurus:

* `cvec_create` sizes the first array by `sizeof(elemsz)` (`cvector.c` 47):
  with elements larger than a pointer it is too small until it first doubles.
* `cvec_search` without order, from the end or in an empty vector, looks at an
  element that does not exist and runs past it (120).
* Neither container stores the cleanup function (`cvector.c` 43, `cmap.c` 66),
  so disposal frees no element.
* A headword that comes twice in the file leaks its first vector, and a line
  that begins with a comma is entered under the word last read
  (`thesaurus.c` 64-67); the models' files have no such line.

Others:

* `searchdir.c` prints names ordered by the length of their paths and only then
  by their characters (204-224); its header says lexicographically (10-11).  An
  inode search keeps one path for each inode, the last one gathered (119); the
  header promises all of them (11-12).  What lies in the directory searched is
  printed by two paths when a link leads back to it, and a directory with
  several links is entered by one of them only, so its files are printed by one
  path though the header says all.
* `searchdir.c` answers the last word once more when its input ends, and looks
  "q" up before it quits (242-243); it records a file whose `stat` failed
  under whatever the structure held (181); the directory it starts from is
  listed again when a link leads back (185).
* `mygrep.c` reads past a line's end for what follows a starred dot (73), and
  may match what an earlier line left there.
* `mywhich.c` copies the path into an array without room for its terminator
  (76).
* `mywhich.c` takes whatever `fopen` can read for the command (80-93); its
  header says executable (7-11).  `FindsFirst` is about readable files.
* `sat_add_signed` gives 0 for twice the least number (`bits.c` 117), where
  `bits.h` 97-102 promises the pegged minimum, and the
  literal `0xffff` is not all ones in types wider than 16 bits (87, 108, 120).
  `is_single` is true of nine bits, when no digit is left (74).  `disassemble`
  prints the lower two bytes of a four-byte immediate, each without leading
  zero (178), so 0x105 is printed as 0x15 and 0x10000 as 0x00; `bits.h` 108-110
  says that it prints the equivalent instruction.
* `warmup.c` copies eight bytes of a string where it means its address (46).

## 6. Not modelled

Formatting and printing (`print_freelist`, `allocator_error`'s text,
`print_hex_bytes`, the table of results), option parsing and directory reading
in `alloctest.c` and the programs' `main`; what sweeping the buffer of
`fcyc.c` does to the cache, a hardware effect without state in the program;
`warmup.c`, two fixed sequences of vector calls of which `VectorSpec` makes
all; the particular numbers and timings of `vectest.c` and `maptest.c`;
`bomb.c`, whose phases are not in the source; `assign6`, an exercise about a
program that is wrong on purpose; `assign0`, which is data.  Alignment within
a word is abstracted: every address the allocator forms is a multiple of 8.
Lengths that the code bounds by an array are left out where no property turns
on them: `CVector`'s `MoveRight` does not have the byte count in an `int` and
the array on the stack (`cvector.c` 89-91), `Thesaurus` not the 127 characters
of a word and the 9999 of a line (`thesaurus.c` 57-68).  So is the byte before
a buffer: when a line begins with a NUL, `strlen` is 0 and `mygrep.c` 154 and
`alloctest.c` 208 look at, and may overwrite, index -1; lines with a NUL
further on are modelled.  The double of `fcyc.c` rounds a reading above 2^53;
the models count exactly.  In `CapacityHolds`, `IntMax` keeps requests away
from `INT_MAX`, where the code is wrong (section 5).
A map's values are one byte, and its keys short strings over two or three
characters.

## 7. Plan

Every safety property of the passing runs has its theorem; liveness is left to
the runs.  What remains worth modelling: the allocator under a client that
breaks the rules, as `thesaurus.c` would be over it; and the map with keys that
are prefixes of each other, once `sameKey` is corrected.
