# The SLVM native runtime in TLA+

A TLA+ model of the runtime in `src/`: it links the Smalltalk machine code that the SLVM
compiler generates with a segmented Smalltalk stack, message sends, hashed collections,
classes and an object heap in Spur's format. The modules say what these parts do, TLC checks
them on small instances, and TLAPS proves the results that matter most for every value of
the constants.

`PROJECT.json` lists the components, the runs, the mutants that show that each property can
fail, the source lines that each definition stands for, the disagreements found, the hazards
and the theorems.

## 1. The system

The program is sequential C, apart from threads that share the stack pool without a lock. It
persists nothing, receives no messages and has no timers. What is hard in it is the order of
calls that cross two stacks, structures that are rebuilt while they are in use, tables that
refer to each other by number, and sizes encoded in a few bits.

| component | source | state | operations | what makes it correct |
|---|---|---|---|---|
| linked lists | `datastructures.c` | heads, links | add, remove | a list threads each node once |
| execution stack | `memory.c` 1-101 | segment headers, free list, per-thread data | get, create, pop a segment | a segment has one user; it comes back |
| sends and switches | `native/x86/send.c`, `native/x86_64/trampolines.nasm` | registers, two stacks, C pointers in the thread data | send from C and from Smalltalk, returns, overflow and underflow of a segment | control returns to the sender with its frame and the result |
| dictionaries | `classes/collections.c` 306-609 | array, tally | scan, add, add if absent, at:put:, lookups, growth | the map they stand for |
| method dictionaries | `classes/collections.c` 626-737 | keys, values, tally | at:put:, lookup, growth, retry | a lookup finds the last method put |
| object heap | `spur/objectmodel.c` 22-107, 168-461, `memory.c` 103-154 | pre-headers, headers, committed size | allocate plain and mixed objects, walk, sizes | objects apart, in committed memory, found by a walk, of the size asked for |
| classes | `spur/objectmodel.c` 84-162, `classes/kernel.c` | class table, behaviors, globals | register a class, a method, a behavior; lookup; send | an index leads to its class, a message to its method |
| static heaps | `spur/objectmodel.c` 474-621, `classes/kernel.c` | heap list, flags, forwarding pointers, class pools | register, unregister, fix symbols, globals, class variables | one symbol per text, one association per global and class variable |
| life cycle | `lifecycle.c` | `kernelInitialized` | initialize | heaps listed before it are linked as those listed after it |
| strings | `classes/collections.c` 1-250 | none | equality, hash | equal strings have equal hashes; equality tells texts apart |
| symbol table | `classes/collections.c` 250-304, 740-877 | weak sets | intern, find, grow | equal strings have one symbol |
| others | `context.c`, `magnitude.c`, `ffi.c`, `memory_unix.c` | none to speak of | primitives, class definitions, system calls | |

How they interact: a send finds the class of the receiver in the class table, the method in
the method dictionaries of the class and its superclasses, and then switches stacks if the
method runs on another. Dictionaries live in the object heap. Registering a class writes the
globals (an identity dictionary), the class table and two new method dictionaries. Static
heaps, registered before or after the kernel is initialised, have their symbols interned and
their globals merged into the system's.

## 2. The modules

| module | models | implements |
|---|---|---|
| `LinkedList` | `slvm_list_*` on a record of heads and links | |
| `SegmentPool` | *abstract*: free segments in order, a stack of segments per thread | |
| `ExecutionStack` | the segments, the trampolines and the sends | `SegmentPool` |
| `OpenAddressing` | what the hashed collections share: scan, full condition, grown size | |
| `AssociationMap` | *abstract*: a map from keys to associations and their values | |
| `IdentityDictionary` | `slvm_Dictionary_*`, `slvm_IdentityDictionary_*` | `AssociationMap` |
| `SelectorMap` | *abstract*: a map from selectors to methods | |
| `MethodDictionary` | `slvm_MethodDictionary_*` | `SelectorMap` |
| `SymbolInterning` | *abstract*: one symbol per text, for ever | |
| `Strings` | `slvm_String_equals`, `slvm_String_hash` and what they call, for byte and wide strings | |
| `SymbolTable` | `slvm_WeakSet_*`, `slvm_Symbol_internString`, over `OpenAddressing` and `Strings` | `SymbolInterning` |
| `ObjectHeap` | the object heap on the 64-bit model | |
| `ClassHierarchy` | *abstract*: the tree of classes and the methods as the packages declare them | |
| `KernelClasses` | class table, behaviors, globals, registration, lookup, dispatch | finds what `ClassHierarchy` declares |
| `StaticHeaps` | the list of static heaps, `slvm_dynrun_initialize`, the fix-up walks, package registration | |
| `X_proofs` | the theorems about module `X` | |
| `MC_X` | the instance of `X` that TLC checks | |

### ExecutionStack

A segment is a page named by its number; an address in it is a *depth*, the words between it
and the header at the page's end, so pushing makes it grow. The words are tagged with what was
stored (a return address into an activation, a frame pointer, an argument, a trap), which is
what a wrong copy or a wrong offset would confuse. `links`, `header`, `current`, `size` and
`cpointer` are the state of `memory.c`; `stack` has the words of each segment and `cstack` the
frames of each thread's C stack; `cpu` is the registers. `calls` is history: the activations
of each thread, with the frame and depth that each must find again. Each trampoline with the C
function it calls is one action: after `_slvm_dynrun_send_trampoline` no other code of the
thread runs until the method is entered or has answered. Compiled Smalltalk code is not in the
repository: `Prologue` and `SmalltalkReturn` are what the runtime expects of it, marked
external in the map.

`ReplaceContext` is the activation of a method in the place of a primitive that Smalltalk called. Where C
called the primitive, the same code makes a send from C, and the primitive answers what that
answers: `CSendToC` or `CSendToSmalltalk` from the primitive's activation, and its return. Aborts of `slvm_dynrun_send_activateMethod`
(a C method called from Smalltalk, a primitive that fails, a method of a strange class) end the
program, and the model has no step for them.

A pointer to a segment header is `<<segment, words past the header>>`, because
`slvm_ExecutionStack_getLastSegment` returns the address of the list node, six words on
(section 4). Sends that use such a pointer end in `running = FALSE`: the fields they touch are
in the next page, and what follows is undefined.

The threads take turns, a call at a time. Nothing in the code makes them do so; the
unlocked free list is a hazard that this model assumes away.

### IdentityDictionary, MethodDictionary

`OpenAddressing` sees a table through the keys in its slots. A scan is defined by the number
of steps from the hash: the first slot that is empty or has the key, or -1 after a full turn.
It is a plain expression rather than a recursive one, so that the provers can use it. A key
stands for a class of equal keys, which joins the two families of functions (`Dictionary`,
with a hash and an equality from the caller, and `IdentityDictionary`) in one module.

An operation is one step, but growth is a loop of steps, one per slot of the old array: the
states in between are where associations are in two arrays and the tally is being recounted.
The code's growth calls `addAssociation` (or `atPut`), which would grow in turn were the new
array full: such a step would set `phase` to `"nested"`, outside the type invariant, and it is
a theorem that it never happens.

`answer` records the key of the last call with what it stored or found, so that the refinement
ties each answer to its key.

### Strings, SymbolTable

A text is a sequence of code points. `Strings` reads the data of a string as bytes or as words,
as the two comparisons of the code do: `slvm_String_equals` asks of its *second* argument
whether the first is a symbol, so it compares a string of words byte by byte when the other
is a byte symbol, and a string of bytes word by word when the other is a wide one. `TextHash` is the
28-bit hash, a fold over the elements.

The weak set `newSymbols` is over the same `OpenAddressing` as the dictionaries. The object that
flags its empty slots is `nil` here. A scan for `o` sees the table through `SeenBy(o)`: a slot
holds what is looked for when `Equals(o, ...)` says so, with the arguments in the code's order.
`InternString` is given a string or a symbol (of a package, or the new one that
`internCString` makes); the search and the addition are one step, and the two passes of growth
are loops of steps: `"recreating"` in an array of the same size, then `"growing"`. Nothing in
the repository puts `nil` into the set, as a collector would, so recreating never makes room
and the array is always enlarged. Wide strings made at run time are left out (their sizes are
those of `wide_elements`), wide symbols of a package are in; so is not `symbolTable`, which
stays empty.

`EqualityAssumption` says of the symbols of a program what `Equals` should: that it tells texts
apart. The code does not give this for every text, see section 4.

### ObjectHeap

Addresses in words. `memory` keeps the words that say how large an object is: the forwarding
pointer's flag, the slot counts of a big object and the header's size and format. `Instantiate`
writes them as the two C functions do, and `HeaderAt`, `CountsAt`, `After`, `BasicSize` and
`FirstNativeData` read them back as the walk and the size functions do; the properties compare
the two. The walk's final assert (`position == end`) would fail for a heap that ends at an odd
word; the code never walks the compacting heap, whose size is what this module has, and a
static heap's size comes from the compiler.

### KernelClasses

A class and its metaclass are the behaviors `<<name, "instance">>` and `<<name, "class">>`. The
class table is a sequence of pages, read and written with the shifts and masks of the code as
divisions by `PageSpan` (4096) and `PageElements` (1024). `issued` is history: every class
index a behavior has had, any of which an instance made at that time still holds. An object
that the runtime makes of a compact class takes the class's identity hash of that moment
(`NewIndex`), and the runtime compares class indices with the first one (`KnownIndex`): after
Metaclass or MethodDictionary has been registered again, the two differ. So a metaclass and a
method dictionary keep their class index (`classIndex`, `dictIndex`), the method of a class whose metaclass
has another than the assert of kernel.c:289 expects stops a program built with asserts
(`HasKnownMetaclass`), and a lookup that comes to a dictionary of another class is `strange`, for
which the sends abort. `CompactAt` is `compactIndices.inc`, aliases included. Left out is a superclass
name whose global is a small integer (kernel.c:219): the globals here are classes or `nil`.
`ClassHierarchy` is kept beside it as history, as the packages declared it by name.
A method dictionary is the map that `MethodDictionary` implements, and the globals the one
that `IdentityDictionary` does. `status` is `"aborted"` where the code calls `abort` or an
assert fails, and `"undefined"` where, without asserts, it would write into `nil`.

### StaticHeaps

A package's heap is the sequence of its objects, and each object its class, as the fix-up tells
classes apart (`"symbol"`, `"global"`, `"classVariable"`, `"other"`), and its pointers. The
forwarding pointer of an object and the flag that is one of its low bits (a big object) are
two variables here, written together where the code writes the word. `Passes(h)` is the program
of `slvm_internal_init_staticHeap`, as its branches on the flags of the heap leave it; every
object that a walk visits is a step, and so is every class that a package registers. `Visiting`
is what the walks share (`slvm_spur_heap_iterate`), the second walk after each fix-up is
`ApplyForwarding`. `RegisterStaticHeap` runs the passes at once when the kernel is initialized;
otherwise `Initialize` lists the runtime's own heap and `NextHeap` goes through the list.

The runtime is not entered again before a call returns (`Idle`), which is what the package
registration, the only code of the program that runs inside, does: it registers classes. It is
`RegisterClass`, with the effect of `slvm_dynrun_subclassWithSomeNames` on globals and class
pool; the class table and the method dictionaries are those of `KernelClasses`. The symbol table, the
globals and a class pool are the maps that `SymbolTable` and `IdentityDictionary` implement;
that the pool is one keyed by texts, though it is a string dictionary, is what the functions
called here see of it.

`status` is `"aborted"` or `"undefined"` where the code asserts or reads what is not an object:
a class variable of a class that is not registered yet, and a walk that meets a big object whose
flag has been cleared (`Astray`).

## 3. The runs

| run | instance | shows | why the bounds are enough |
|---|---|---|---|
| `execution_stack` | 1 thread, 3 segments of 22 words, 5 activations, 0-1 arguments | `ReturnsToSender`, `CFramesSurvive`, `RunsOnNewestSegment`, `OutermostSendReleases` | overflow into a second and a third segment, a message with and without overlap of the return frame, C called from Smalltalk called from C, closures in place of primitives |
| `stack_threads` | 2 threads, 4 segments of 16 words | `ThreadDataShared`, `SegmentsHaveOnePlace`, refinement of `SegmentPool` | both threads hold several segments, reuse each other's, and empty the free list |
| `identity_dictionary` | 4 keys (one with two associations), 2 values, capacity 2 | invariants, `ScanSucceeds`, refinement of `AssociationMap`, `GrowthEnds` | growth from 2 to 4 and 8 slots, with colliding and wrapping keys |
| `method_dictionary` | 5 selectors, 2 methods, capacities 0 and 5 | invariants, `NoStrayMethod`, refinement of `SelectorMap`, `CallsEnd` | the retry of an empty array and the growth of a default one |
| `object_heap` | 3 objects, all formats, sizes 0, 3, 254, 255, 258 and 2033 | `ObjectsCommitted`, `ObjectsApart`, `WalkFindsObjects`, `SizesKept` | 254, 255 and 256 slots, odd and even sizes, several pages, every kind of padding, and 32 bit elements whose padding makes their format a mixed one |
| `kernel_classes` | 4 compact classes, one with an alias, and 2 package classes, 5 registrations, one again, 2 methods of one selector | `ClassIndexResolves`, `MessagesFindDeclared` | every order of classes, methods and re-registration on a three-level tree, of Metaclass and MethodDictionary too: a class before and one after |
| `symbol_table` | 7 texts with their real hashes, 8 symbols (3 wide), 2 strings, 4 slots | `Searchable`, `ScanSucceeds`, refinement of `SymbolInterning` | the set is recreated and enlarged to 8 and 16 slots; one text is asked for with a byte symbol, a wide one and a string |
| `static_heaps` | 4 heaps with 23 objects: two define one class, one only uses it, one has a big object | `SymbolsShared`, `GlobalsShared`, `ClassVariablesShared`, `HeapsInitialized` | every order of registering, initializing, taking off the list and putting back; the second definer finds the class there, the user may come too early |
| `nested_sends`, `wide_elements`, `known_classes`, `big_objects` | as above | the disagreements of section 4 | the shortest counterexamples |

`Capacities = {2}` in `identity_dictionary` is chosen to see two growths; the program creates
dictionaries with 5. The 4 slots of `symbol_table` stand for 128: both sizes fill up the same
way, the small one after 4 and 7 symbols. `MC_KernelClasses.cfg` has a page of 16 elements, larger than any index it
reaches, as the first 512 registrations of the program are; `MC_KnownClasses.cfg` has 12, so
that indices go past the page, as the 513th registration does.

**Fairness.** The liveness properties are those of loops inside one call: `WF` of the steps of
growth (and, for method dictionaries, of the retry). The program is sequential: once a
call has begun, it takes its own next step and no other operation starts. No fairness is
assumed of the callers.

**Deadlock** is checked everywhere. Modules that stop (`running = FALSE`, `status # "running"`,
a full `ObjectHeap`) say so with an action of their own.

## 4. What the code does otherwise than it says

* `nested_sends`: `slvm_ExecutionStack_getLastSegment` (and `getFirstSegment`, only compared
  with null) returns the address of the list node at the *end* of a segment header as that of
  the header. An outermost send creates its segment and is not affected. A send from C code
  that Smalltalk called reads the stack pointer and the thread data from the next page. So the
  save and restore of the C pointers of an outer switch is never put to use.
* `wide_elements`: objects of 16 and 32 bit elements get a wrong number of slots and a format
  of another kind. `SizesKept` therefore leaves these two formats out. The format of 32 bit
  elements can even become a mixed one, whose oops the walk then reads as 0 although all slots
  are there: `WalkFindsObjects` claims the number of oops of the other formats only.
* `known_classes`: class indices from 1024 on overwrite the compact classes. `KnownKept`
  (section 5) proves the claim for every program that stays below.
* `big_objects`: the fix-up walks clear the tag bits of every forwarding pointer
  (objectmodel.c:478 and its like), and one of these is the flag that says that a size
  pre-header comes first. The next walk of a static heap with a big object takes padding for a
  header.

Four limits are assumptions, guards or outcomes of the models instead of runs of their own:

* A wide symbol of one character whose low byte is that of a byte symbol of one character (U+0161
  and `a`) is equal to it for `slvm_String_equals`, and hashes to the same slot of arrays of up
  to 256: whichever is interned second gets the other. `EqualityAssumption` leaves such a pair out;
  with it dropped, TLC finds `InternSpec` violated in the first two calls.
* A class variable of a compact class is never merged: its class's global is a plain
  `Association`, which `slvm_globals_fixClassVariable` does not take for a global variable.
  `ClassVariablesShared` therefore speaks of the classes of packages only.
* A package that uses a class variable must be registered after the package that defines the
  class (`status`).
* `registerAsBehavior` may be sent to any behavior, but two compact classes do not stand it:
  after Metaclass, no method can be registered for a class made later (the assert of kernel.c:289),
  and after MethodDictionary, a lookup that comes to a class made later aborts (kernel.c:72).
  `MessagesFindDeclared` says that this is the only way for a lookup to fail.

## 5. What is proved

In `ExecutionStack_proofs`, every property of `execution_stack` and `stack_threads`, for any
number of threads, segments, nested activations and arguments, and segments of any size. All that is
assumed is `StackAssumption`: these are natural numbers, `MaxCalls` is at least 1 because a thread
starts in one activation, and the thread data takes an even, positive number of words. The properties speak of the top of the
stacks now, and the way back is in words that were stored long before, so the invariant `IInv`
says where all of them are:

* `ListsKept`: a list in the segment headers is a sequence without repetition (`IsList`), the free
  list and the threads' lists are apart, and a thread's list begins with the segment that
  `current` names. `SegmentsHaveOnePlace` is part of it. The lemmas on `AddNode` and
  `RemoveNode` say what they do to such a list and that they leave the others alone; they need
  the node to be in no list (or at the end of this one), which is why the segments have to be
  apart for the links to stay right, and the other way round.
* `TypesKept`: the kinds of all words, frames and registers, and that no segment is longer than
  `SegmentWords`.
* `ThreadKept`, for each thread: either it has no segment and only C has called C, or its calls are
  `k` activations of C, then Smalltalk ones up to `m`, then C again (`Nesting`); the switch frame
  on the C stack is right above the first `k` C frames, and the thread data says so (`Base`, the
  condition that drops of the C stack keep what is below); and each Smalltalk activation has its
  frame (`Frames`). A frame is described from the outside in: where its caller waits (`Caller`), the
  return address and frame pointer above the arguments, in the caller's segment (`Direct`) or, after
  an overflow, in a new segment at whose bottom the trap's return address stands in for the
  caller's (`Moved`). That frames lie one above another, in the order of the list of segments
  (`Above`), is what keeps a push or pop at the top from the words of the ones below. The last part
  is where control is: in a body, at an entry, past the stack check, at the trap's return
  address, about to leave for C, or in C that was called (`Runs`, six cases).

`NextKept` takes each action from whichever case it starts in to one it ends in. Most of that
proof is about the two places where words are moved: `StackLimitTrap` copies the message to a
new segment and leaves the way back in the old one, and `PopStackSegment` returns through it. What
the invariant does not cover is what the code leaves undefined, a send from C under Smalltalk
(section 4), which ends in `running = FALSE`.

`TypeCorrect`, `SendersReturnedTo`, `SuspendedFramesKept`, `NewestSegmentRuns`,
`OutermostSendGivesBack`, `ThreadDataKept` and `OneSegmentPlace` follow from `IInv`.
`ImplementsPool` is the refinement of `SegmentPool` with `ListNodes` as the mapping: a step takes
a segment for a thread (`Takes`: the first of the free list, or the next page), gives the newest
one back (`Releases`), or does not touch the lists. Of the pool on its own, `SegmentsApart` says
that a page is in one place and none is lost; it shares the lemmas on sequences (`Placed`) with
`ListsKept`.

In `OpenAddressing_proofs`, the lemmas on one table, for every size and hash function: where a
scan stops; that a table with an empty slot lets every scan succeed; that a key that is in a
table whose keys are reachable is found; that putting a key where its scan stops keeps keys
unique and all keys reachable; that the grown size leaves room.

In `IdentityDictionary_proofs` and `MethodDictionary_proofs`, the inductive invariant. Neither
uniqueness nor reachability is inductive alone: an insertion keeps keys unique only because the
scan would have found the key, which needs reachability; a scan ends only because a slot is
empty, which needs the tally to be exact and below the size; and during growth this needs that
the tally never exceeds the slots already passed, which are at most half of the new array, and
that no key is both in the new array and still waiting in the old one. `Invariance` is the
conjunction of these; `WellFormed`, `ScansSucceed` and `Implements` (the refinement of the
abstract map: initial states, and every step a step of the map or a stutter) follow. The
assumptions are `HashAssumption` and `DictionaryAssumption` (or its counterpart), which only
give the constants their kinds, and capacities of at least one for associations.

In `SymbolTable_proofs`, the same for the symbol table, with two differences. The table is
compared with `slvm_String_equals` rather than by key, so a lemma (`ScanText`) first shows that
a scan for a string or a symbol stops where a scan for its text would; it rests on
`EqualityAssumption`, and fails without it, as the code does (`SymbolAssumption` gives the other
constants their kinds, and the set at least 4 slots). And an array that is filled again
at the same size can be full to the last slot: an empty slot is only there for as long as
something waits, so the invariant bounds the tally by the old slots already passed, which are
fewer than the slots of the array until the last turn. `WellFormed`, `ScansSucceed` and
`Implements` (the refinement of `SymbolInterning`) follow.

In `ObjectHeap_proofs`, every property of the run `object_heap`, for any formats, sizes, number
of objects and page size (`HeapAssumption`). The properties speak of what a later reader makes of
words written long before, so the invariant has two halves. `Written`: the words of every
object are still those that its allocation wrote. `Chained`: the objects lie one behind the
other, each beginning at an even word where the one before it ends. The second keeps the first,
since an allocation writes only at or behind `size`; that alone is `WordsStay`, an action
property. What the allocation wrote is related to what the readers compute by `Sound`, which says
of the format in the header what is true of it *after* the padding was added to it, and so where
the padding goes wrong: of 32 bit elements it claims nothing but the slots. `PaddingKept` is
`PaddingKeepsFormat`, which `wide_elements` refutes, without the two formats at fault.

In `KernelClasses_proofs`, every property of `kernel_classes`, and the one that `known_classes`
refutes, under the hypothesis `FirstPageHolds`: `BaseSize + MaxRegistered` is at most the elements
of a page. The program has no such check (section 4); the run `kernel_classes` satisfies the
hypothesis with equality and `known_classes` does not satisfy it, so the hypothesis is what
separates the two. The invariant says that every index ever issued is below `BaseSize + tableSize`
and leads to the behavior it was issued for (`Indexed`), that the fields of the behaviors are those
of the declared tree (`Realized`), and that the classes are a tree (`Tree`); `Indexed` also says
that every class index held, of a behavior or of a method dictionary, was given to its class, and
that the compact classes' dictionaries have the first one. A class is made as an instance of a
metaclass that it finds through its own table (`SuperMetaclass`), so the fields of a new class are
right only because the indices are, and the indices are because every new one is above all issued.
`MessagesFind` needs more: `Lookup` climbs by `superclass` and returns at the first dictionary that
has the selector, while `ClassHierarchy` chooses among all definers the one below the others. Both
are recursive functions, and induction over them is not to be had, so the tree is described without
a path: every non-empty set of classes has one whose parent is outside it. A set of behaviors at
which lookup and declaration differ would then have one whose superclass is not in it, where they
must agree. This works because what should be found (`Found`) is decided by a behavior or by the one
above it: a strange dictionary aborts the search exactly if all definers are among what its behavior
inherits from (`ComesToStrange`), and no two behaviors inherit from each other. The same argument,
with the cardinalities of the first sets of ancestors, shows that `Ancestors` is closed after as
many steps as it takes. `ClassesAssumption` says that the compact classes are such a tree with
different indices on the first page.

In `StaticHeaps_proofs`, every property of `static_heaps`. The constants are any packages that
fit `HeapsAssumption` (no object is in two heaps, symbols have texts, the runtime's objects are
no package's) and `FieldsAssumption` (an object refers to its own package; a variable has a symbol
for its key; a class variable's value is the global of its class until the package registers
it). The proof follows a heap through its passes. `Left(h, n)` is what is left of the program of a heap at
stage `n`, 1 to 9, and `Done(h, k, n)` the objects that the pass of stage `k` has been at: all of
them, in a heap that is initialized; those already visited, in the one being worked on.
What a pass does to an object is claimed of `Done` alone, and every claim
is one that the later steps cannot undo, because names are only added. `Linking` has
four of these: symbols forwarded, references to symbols replaced, globals forwarded, references to
globals replaced. Each walk relies on the one before having been at *every* object of the heap: an object may
refer to one that its own walk has not come to. `IInv` is this with the types and the list;
`SymbolsAreShared`, `GlobalsAreShared` and `HeapsAreInitialized` follow from it without any hypothesis.

Class variables are different, as the associations that they share are made by
packages and their values come and go. `Shared` adds that a pool has the variables of its class
under their names (`PoolsKept`), that a registered class's global has the class for value, ever
(`GlobalsKept`), that variables stay as compiled until the third walk (`Fresh`), and what that walk has done
(`Pooling`). It holds if packages that define one class agree on its variables
(`PackagesAgree`): the code takes the pool of the first one (kernel.c:212) without looking at
the others, and a variable that this lacks would be forwarded to `nil`. So that `TypeOK`, which says
a class variable is never forwarded to `nil`, needs the hypothesis too. The packages of the
instance satisfy it. `SharedInv` joins both, with one stage for both, as the passes that are left
tell the stage (`StageUnique`). Class variables of compact classes are left out, as in
section 4.

Both invariants, as those of the other modules but `ExecutionStack` (whose `IInv` has
quantifiers over `Nat`), were checked by TLC on the instances before they were proved.

**Only model-checked**: liveness (`GrowthEnds`, `CallsEnd`), since the prover has no reasoning
about fairness; and that the hash and the equality of `Strings` tell the texts of a program
apart, which TLC evaluates for those of `MC_SymbolTable`. Every other property of a passing run is
a theorem.

## 6. What is not modelled, and the plan

Not modelled: the 32-bit trampolines (the same as the 64-bit ones), the contents of objects,
married contexts (written once, never read back here), arithmetic, string functions other than
equality and hash, and system calls. Of `slvm_dynrun_initialize`, the parts that make the
kernel's own classes and collections are the initial states of the modules about them. Behaviour
beyond the capacity of a heap and races between threads are undefined in the code and outside
the models; the hazards list them.

The plan, in order:

1. *Done*: `ExecutionStack` with `SegmentPool`; the dictionaries with their abstract maps and
   proofs; `ObjectHeap`; `KernelClasses` with `ClassHierarchy`.
2. *Done*: `Strings` and `SymbolTable` with `SymbolInterning`, and their proofs; `StaticHeaps`.
3. *Done*: proofs about `ObjectHeap`, `KernelClasses` and `StaticHeaps`.
4. *Done*: proofs about `ExecutionStack` with `LinkedList`, and the refinement of `SegmentPool`.
5. A finer model of the unlocked allocation of segments.
