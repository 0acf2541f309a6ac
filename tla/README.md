# Verification of ketlJIT

ketlJIT compiles sources of a small language to x86-64 code and calls the code.
This directory holds TLA+ models of its parts, configurations that model-check
them with TLC on small instances, and proofs of some of their properties for
every instance. All paths below are relative to the repository.

## The system

    source --lexer--> tokens --BNF parser--> stack of frames --syntax parser-->
    syntax tree --IR builder--> IR function --IR compiler--> opcodes
    --executable memory--> function --> called by the client

The library has one thread. Nothing is sent and nothing is stored outside the
process, so no message is lost and no crash is recovered from. What is hard in
it lies elsewhere: containers that hand out addresses of objects which clients
keep while the container grows, is reset or is iterated over; a parser that
goes back and must restore what it changed; pages that hold finished code and
are opened for writing again; limits (a full block, the last prime, the end of
a page) met after a long sequence of legal calls; and errors after which the
same objects are used for the next source.

An error is logged by `KETL_ERROR`. `ketl_logv` (`src/src/logging.c:7`) stops
the process at it unless the client raised the level with `ketl_log_set_level`;
what the code does after an error happens only then.

| component | state | operations | used by |
|---|---|---|---|
| lexer (`compiler/lexer.c`) | the place in the source | has_next_token, get_next_token | syntax solver |
| grammar (`compiler/bnf_scheme.c`) | a graph of nodes, built once | build_scheme | BNF parser, syntax parser |
| BNF parser (`compiler/bnf_parser.c`) | a stack of frames, the place in the tokens, the farthest error | parse | syntax solver |
| syntax solver (`compiler/syntax_solver.c`) | token pool, stack of frames, scheme | solve | state |
| syntax parser (`compiler/syntax_parser.c`) | an iterator over the frames | parse, count_lines | syntax solver |
| IR builder (`compiler/ir_builder.c`) | pools of operations, values and scopes, the maps of variables | build | state |
| IR compiler (`compiler/ir_compiler.c`) | maps of jumps and operations, a buffer of opcodes | compile | state |
| executable memory (`executable_memory.c`) | pages, the page in use, its first free byte | init, allocate, deinit | IR compiler |
| object pool (`containers/object_pool.c`) | a chain of blocks, the last one used, its count | get, get_array, used count, reset, iterator | everything |
| stack (`containers/stack.c`) | a chain of blocks, the current one, its count | push, pop, peek, reset, iterator | BNF parser, syntax solver |
| integer map (`containers/int_map.c`) | buckets, an array of chains, a free list, a size | get, get_or_create, reset, iterator with remove | atomic strings, IR builder, IR compiler, heap memory, state |
| atomic strings (`containers/atomic_strings.c`) | strings interned in a hash table | get | state, IR builder |
| heap memory (`heap_memory.c`) | a map of nodes with marks | allocate, allocate_root, prune | state |
| state and API (`ketl.c`) | all of the above, namespaces, the tree of function types | define, compile, eval | client |
| types, variables, functions | sizes and tags of values | call | IR builder, state |

What makes each part correct, in a sentence each:

* *Lexer*: no character with a meaning is lost or joined to another token,
  whatever blanks and comments lie between, and lexing ends.
* *BNF parser*: it accepts exactly the language of the grammar, the frames it
  leaves are a derivation without gaps, the error it reports is not before the
  end of the valid part, and it ends.
* *Syntax solver*: what one source is turned into does not depend on the
  sources before it.
* *Syntax parser*: the tree holds the commands of the source in their order,
  with the associativity of each operator.
* *IR builder*: a name means the innermost variable of that name, no two live
  variables share memory, an operation's result is used where the syntax tree
  says, and both branches of an if-else meet behind it.
* *IR compiler*: a jump leads to the first opcode of its operation, an operation
  is emitted once, and the frame of a function holds its variables.
* *Executable memory*: a returned address keeps its code, lies in its page, is
  aligned, and no page is writable outside a call.
* *Containers*: objects never overlap and never move while a client may use
  them, the stack is last-in-first-out, the map is a dictionary, iterators
  visit every object once.
* *Atomic strings*: two names have one address exactly when they are equal.
* *Heap memory*: a node that can be reached is never freed, one that cannot be is.

`PROJECT.json` lists the hazards line by line with the properties that watch them.

## The modules

| module | models | composed with |
|---|---|---|
| `ExecutableMemory` | `executable_memory.c` | |
| `ExecutableMemoryProofs` | its theorems | extends it |
| `ObjectPool` | `containers/object_pool.c` | |
| `ObjectPoolProofs` | its theorems | extends it |
| `Lifo` | what a stack promises | |
| `Stack` | `containers/stack.c` | implements `Lifo` |
| `StackProofs` | its theorems | extends it |
| `Dictionary` | what the integer map promises | |
| `IntMap` | `containers/int_map.c` | implements `Dictionary` |
| `HashTableProofs` | its theorems, and that it implements `Dictionary`; those of `AtomicStrings` | extends both and `ProofLemmas` |
| `ProofLemmas` | lemmas: induction over the natural numbers, repeated steps, linked lists | |
| `Lexer` | `compiler/lexer.c` | |
| `LexerProofs` | its theorems | extends it and `ProofLemmas` |
| `BnfScheme` | `compiler/bnf_scheme.c` | |
| `BnfParser` | `compiler/bnf_parser.c` and the head of `ketl_syntax_solver_solve` | tokens by `Lexer`, rules by `BnfScheme` |
| `BnfParserProofs` | its theorems | extends it and `ProofLemmas` |
| `BnfLanguage` | what the parser promises: the language of the grammar | extends `BnfParser` |
| `SyntaxParser` | `compiler/syntax_parser.c` | extends `BnfLanguage`; reads the stack of `BnfParser` |
| `SyntaxSolver` | `compiler/syntax_solver.c` | extends `SyntaxParser`, one source after the other |
| `IrNode` | `compiler/ir_node.h` | |
| `IrBuilder` | the stringing together of operations in `compiler/ir_builder.c` | makes sequences of `IrNode` |
| `IrCompiler` | `compiler/ir_compiler.c` and the run of what it emits | takes sequences of `IrNode` |
| `IrCompilerProofs` | its theorems | extends it and `ProofLemmas` |
| `CodeGeneration` | build, compile and call in `ketl.c` | extends `IrBuilder` and `IrCompiler` |
| `AtomicStrings` | `containers/atomic_strings.c` | names of `FunctionBuilder` |
| `Casting` | the choice of conversions in `compiler/ir_builder.c`, the operators of `ketl.c` | |
| `FunctionBuilder` | names, scopes, conversions and places in `compiler/ir_builder.c` | extends `AtomicStrings` and `Casting` |
| `Frame` | `bakeStackUsage`, and frame, header and operands in `compiler/ir_compiler.c` | extends `FunctionBuilder`, lays out what it built |
| `LexicalScopes` | what scopes promise | |
| `Session` | definition, compilation, `eval` and calls in `ketl.c` | extends `Frame`, implements `LexicalScopes` |
| `MC...` | the instances TLC checks | extend the module of their name |

An operator whose comment begins with "Mutant of" is a plausible bug; it is used
nowhere but in place of the definition it names, to see that a property fails.

### ExecutableMemory

`pages`, `currentPage` and `currentOffset` are the fields of
`ketl_executable_memory`; `memory` is what was written to the pages, byte by
byte, each byte being the function and the position it belongs to; `call` holds
the locals of a call in progress, and `code` is what the finished calls
returned. `BeginNewPage` and `BeginSamePage` are the two outcomes of the test at
the head of `ketl_executable_memory_allocate`, `CopyBlock` is a turn of its copy
loop, `Finish` the rest. `currentOffset` begins with any of `GarbageOffsets`
because `ketl_executable_memory_init` does not set it. The size of a page is
computed as the code computes it, by the shift that `init` finds in a loop.

Run `executable_memory`: pages of 32 bytes, blocks of 12, and up to four
functions of every length around the limits 12, 16, 24, 32 and 64. Functions
share a page, fill it to the last byte, overflow it by the rounding and span
two; that is every case the code tells apart. It shows that returned code keeps
its bytes (`CodeIntact`), that it has its alignment and lies in its page, and that the copy
stays in that page (`StaysInPage`), that only the target of a call is ever
writable (`OnlyTargetWritable`) and that a call returns (`AllocateReturns`,
under weak fairness of the steps of a call: the one thread runs on).

### ObjectPool

`next`, `last` and `occupied` are the chain of blocks and the fields `lastPool`
and `occupiedObjects`; `live` is a history of the objects handed out since the
last reset, `iterator` one `ketl_object_pool_iterator`, `seen` what it returned.
The actions are the functions of the header; `Get` and `GetArray` have the
three cases of the code (room, a block left from before a reset, a new block).
A reset drops the clients' objects and iterators, as the compiler does between
two sources. `ketl_object_pool_get_used_count` walks over the blocks: `walk` has its
locals, `UsedCountBegin` is its head, where the block behind `lastPool` is read once,
`UsedCountTurn` a turn of the loop, `UsedCountReturn` the break and the answer. `Use` is
every other call; none runs during the walk.

The walk stops by comparing what follows each block with what followed `lastPool`. That is
NULL at the end of the chain and a block left over behind a reset. `UsedCountExact` says that
it never comes to a block behind `lastPool`, and that its answer, if no arrays were
taken, is the number of objects in `live`. A turn goes one block on, so the walk ends.

Run `object_pool`: blocks of three objects, at most three blocks, arrays of
0 to 4. Three blocks are the least for a reset that leaves a middle block
behind; lengths 0 and 4 are refused. 21233 states. Deadlock is checked.

### Stack and Lifo

`Lifo` is a sequence with a cursor. `Stack` has the two-way chain of blocks, the
slots and the count; `Contents` and `Cursor` map it to `Lifo`, and
`ImplementsLifo` is its `Spec`. Clients pop what they pushed, and drop their
iterator when they pop or reset, as the syntax parser and the collector do.

`ChainOK` also says that the count in hand and the ends of the chain are what
`is_empty` and the iterator take them for.

Run `stack`: blocks of two, up to three blocks, three values.

### IntMap and Dictionary

`Dictionary` is a map from keys to addresses with an iteration over it. `IntMap`
has the array of chains, the buckets with `key` and `link`, the list of removed
buckets and the size. `GetOrCreate` has four cases (found, linked, grows,
refused); the relinking under the larger array is one step for each bucket,
because it changes the links it follows. During it no other operation runs.

Run `int_map`: keys 0, 2, 3, 6 and capacities 1, 2, 3, so keys collide, part and
collide again over two growths, and the fourth key is refused; removal during
iteration, reuse, and reset are interleaved with all of it. `BucketsPartitioned` says that each
bucket is in the chain of its hash, in the free list or behind the count of the
pool, and that the size counts those in chains. `GrowthEnds` needs
weak fairness of the relinking. (The refused key is answered with "not new" and
counted, against the comment at `int_map.h:26`; with the real table of primes that
takes more keys than memory holds.)

### Lexer

A source is a TLA+ string, a token its type, first position and length.
`GetNextToken` is one call. `Tokens(text)` is what the solver's loop collects, up to a
token that is refused.
The properties compare it with a second reading of the source that knows only
code, strings and comments: `TokensHoldMeaning` says that the tokens, in their
order, are exactly the characters with a meaning.

Run `lexer`: all sources of up to four characters over eight that stand for
their classes, and longer ones, one with the two spaces TLA+ has no escape for or nobody
types (`VerticalTab` holds the character itself); `MaxTokenLength` is 5 here. Run `lexer_comment`
shows that the slash that ends a block comment becomes a token.

### BnfScheme, BnfParser and BnfLanguage

`BnfScheme` has the rules of the language as trees, one operator for each
function of `bnf_scheme.c`. `BnfParser` is the machine of `ketl_bnf_parse`:
`Match` and `Mismatch` are the outcomes of `iterate`, `Descend` one turn of the
loop over `nextChild`, `Reject` one turn of that over `pop`. A frame names its
grammar node by rule and path. `Derivable`, in `BnfLanguage`, is the language, computed from the
grammar alone by the places where each node may end; it is what
`AcceptsLanguage` compares the machine with. `Derivable` follows the grammar as
`nextChild` walks it: a repetition repeats its first child. (In the rules for
lists the second child of the repetition is never entered, so `f(a, b);` is not
in the language the parser has.)

Run `bnf_parser`: all sources of up to three lexemes out of eight and some twenty
longer ones with nested brackets, chains of operators, dangling else, function
types and errors, with a space between all symbols, which makes every token one
symbol. Run `bnf_parser_touching` drops the spaces: going back restores the token and not the
offset in it, so `(a)+b;` is rejected.

### SyntaxParser

`Parse(i)` is `ketl_syntax_parse` with its iterator at the frame in slot `i`; it
returns the tree and the slot the iterator has come to. A tree is a record with
its children as a sequence (the chain of `nextSibling`). `Slot` is why `BnfParser`
keeps `above`: the builder of an if-else looks into the slot behind its last
frame, where a popped frame may have been. `Stopped` stands for
`KETL_DEBUGBREAK` and for a write through NULL. `TreeIsMeant` compares the tree
with one found in the row of lexemes alone, by brackets, weakest operator and
nearest if; it is checked in run `bnf_parser`. Symbols that touch are kept out of it
for a second reason: the operator of an expression is told by all the rest of its
token (`syntax_parser.c:273`), so `a+(b);`, whose token is `+(`, stops the process.

### SyntaxSolver

The state keeps one stack of frames and one pool of tokens for all sources, and
resets both behind a source that was parsed. `Solve` is the next call of
`ketl_syntax_solver_solve`: the frames that were in the stack stay in the slots above
it, where the builder of an if-else may look, and a frame whose slot is taken again
gets the token that is at that place now. A source that is not parsed, or whose tree
stops the builder, ends the process, so nothing follows it. An empty source returns
before anything is touched (lines 38 to 50).

In run `bnf_parser` each of the sources is followed by each of three `Followers`
(`MaxSolved` is 1): a short one, an if without else, which asks for an else in the
slots of the source before, and a longer one that overwrites part of them. All of
`AcceptsLanguage`, `FramesJoin`, `ErrorBehindValidPart` and `TreeIsMeant` hold of the
second source as of the first. `ParsingEnds` assumes weak fairness of `ParseOn`: the
thread runs on; that another source comes is not assumed.

The machine and the builder were compared with the compiled C code when they were
written, on 800 and 495 generated sources: same acceptance, same position of the
error, same tree or same stop.

### IrNode, IrBuilder, IrCompiler and CodeGeneration

Two models share the IR builder and the IR compiler. These four modules have how
control passes; what the operations compute is left out here, with names, types and
registers. `FunctionBuilder`, `Frame` and `Session` below have those, and let control
follow the branches an operation is in. The seam is sound in so far as `AsWritten`
holds here: the operations that run are those of the branches taken, in the order of
the source. What this excludes (`EmptyElse`, `RaggedBranch`) concerns bodies without
operations of their own; the conditions and bodies of the sessions all have some, or
are blocks whose emptiness `AsWritten` covers.

A statement is a record that says how many operations its expression takes. What is
kept is how control passes through the function, which is what is hard here: the
builder hands ranges (the operation to fill, the one to follow) up and down a tree
of blocks and branches, the compiler lays the operations out in a line and falls
from one into the next where it can, and jumps are patched when all offsets are
known.

`IrBuilder` is functional: `b` holds the pool of operations, the range in hand
(`root`, `next`), the returns met and whether the builder broke. `InnerRange`,
`EndInnerRange`, `FromRange` and `LastFromRange` are the functions of
`ir_builder.c:104`; `Build` is `buildIRCommandLoopIteration` with one operator per
kind of statement, `BuildList` is `buildIRCommand`; `ConvertReturn` is the last
pass over the returns, and `Number` and `Function` the numbering that fixes the order
in which the operations are laid out. An operation nobody filled has the code
"uninitialised".

`IrCompiler` is a machine: `Emit` is a turn of the loop over the operations,
`Patch` one of the loop over `jumpList`, and `RunBody`, `RunBranch` and `RunJump`
are the processor, with `pc` an offset into the code and both outcomes of each
condition. The length of an operation's instructions is chosen from
`BodySizes`, because it depends on the operands. `CodeGeneration` puts the two
together for any program in `Programs` and states what the run must do:

* `BuiltIsWellFormed`: every operation the compiler can reach was filled, its
  successors are in the function, only returns have none.
* `SuccessorsFollow`: when the code runs, each jump leads to the first byte of the
  successor it stands for, and what is not left by a jump runs on into it.
* `AsWritten`: the events of the run are one of `Traces`, a reading of the
  statements that knows no ranges, jumps or offsets.
* `StopsOnlyForReturns`: the builder breaks exactly on a statement behind one that
  always returns (it dereferences the missing root of the range) and on returns of
  which only some have a value.
* `ReturnsToCaller`: once a function is built, it is compiled, run, and left by a
  return (weak fairness of the compiler and the processor: one thread runs on;
  the language has no loops).

Run `code_generation`: all 2376 programs of up to four statements (expression,
definition, return, block, if, if-else, in every nesting; all returns of a program
alike), two lengths of instructions, every outcome of the conditions. Four
statements are enough for an if-else in a block behind another statement, for both
branches to return, and for empty branches and blocks; with five (tried without
definitions, 74146 states) nothing else came up. The programs leave out two forms,
`EmptyElse` and `RaggedBranch` of `MCCodeGeneration`, which the builder gets wrong:

* an empty else behind a true block that goes on leaves the operation of the false
  jump unfilled; the comments at `ir_builder.c:1099` and `1111` name the missing
  test;
* a body that ends with a statement that builds nothing, such as
  `if (a == 4) { t := 1; {} }`, ends in another operation than the one the false jump
  was led to. Run `code_generation_ragged` shows it: a false condition also skips
  the statement behind the if. The compiled library does the same: with `a = 3`
  and `t = 0`, `if (a == 4) { t := 1; {} } t := t + 7; t := t + 1;` leaves `t` at 1.

### AtomicStrings and Casting

Both are operators; the one variable is the table of the session, `strings`. `GetKey` is `ketl_atomic_strings_get`: a walk over a chain, or a
copy with a bucket in front of its chain, behind a growth that takes all chains apart, one
after the other (`Regrown`) and each from its front (`Relinked`). Whatever `FunctionBuilder`
does with the table is `Interned`, a row of such calls, which is what `Interning` says of it. The key of a name is the number of its copy, as an address stands for
it in the code. The hash is given by `HashOf`; 0 stands for a text that is too long.

`Casting` has the lists of options the builder passes around, in their order, because
the order decides: which of two equal sums refuses (`Deduce`), which option is the
first without cost (`BestOption`), and which types are left for all returns
(`ReturnType`, with the list that is rebuilt while it is walked). Costs, casts and
operators are the ones `ketl_state_create` registers.

### FunctionBuilder and Frame

One statement of a source is one action of `FunctionBuilder`: `DefineVariable`,
`Evaluate`, `EnterBlock` and `LeaveBlock`, `EnterIf`, `EnterElse` and `LeaveIf`,
`Return`, `ReturnVoid`, and `Begin` and `Finish` around them. Each is the whole of what
`buildIRCommandLoopIteration` does there, to the restored scope and the stacked
temporaries. `wip` is `KETLIRFunctionWIP` with what its pools hold: `map` is
`variablesMap`, whose chains have a variable and the number of its scope; `parent` is
the tree of who is stacked upon whom, from which `bakeStackUsage` makes offsets; `temps`
is `tempVariables`; `returns` is the list of return nodes, whose conversions `Finish`
puts in front of their operations, and at the end of an evaluated source `Export` makes
its variables external. An error logs and stops the process: `Stop`. What comes
after it, with the level raised, is left out.

A branch of an if is one statement, so `complete` says that it is built; nothing
follows a statement that always returns (`IrBuilder` shows that the builder breaks
there). `path` are the branches an operation is in.

`Frame` is bytes. `Places` is `ketl_ir_compiler_adapt_ir`, `Header` is
`placeFunctionHeader`, `Execute` an operation: its loads and stores, with the width of
each. Memory is a set of cells; writing drops every cell it touches, and
reading other bytes than were written together yields `Garbage`. A value is the term
that computes it, so nothing is computed and no two values are taken for one
another. `HasInstructions` are the operations the compiler has code for; at another
one it stops. A function without parameters stores its own pointer 8 bytes below its
frame; nothing reads it there.

### Session and LexicalScopes

A session defines external variables, builds sources statement by statement
(`Build`, of any statements in `Definitions`, `Statements`, `Conditions` and `Results`),
compiles and calls, in any order. `Call` runs a function whichever way each of its
conditions turns out, and compares with `Meant`, a reading of the statements with the
variables their names are bound to.

`LexicalScopes` is the abstract specification: a sequence of scopes, each a function
from names to definitions; a name stands for the innermost. `ImplementsLexical` maps
the chains of `map` to it: every name the builder looked up (`used`) is what scoping says,
a scope that ends leaves everything as before, no name is defined twice in one
scope. The other properties are

* `NamesAreCanonical`: a name keeps its one key however the table grows;
* `TypesAreCheapest`: operands, definitions and returns have the types of least cost,
  by enumeration of the types, and no step of the builder refuses anything but an unknown
  name, a second definition, operands or returns without a cheapest type, or a path that
  returns nothing beside one that returns a value;
* `FrameKept`: on every way through a function, what an operation reads was last
  written as that variable, and parameters lie apart;
* `ResultIsMeant`: value returned, values of conditions, externals afterwards, and the
  frame of the caller are what the source says.

Run `session`: a source of up to four statements and then one of one, so that
the second begins with what the first left in the tables; definitions with and without a
type, a widening in an operand, in a definition's expression and against a literal,
an assignment to an external variable; six parameters of four widths, so that one comes
from the caller's frame; two constructs deep, one external variable and one call. The
capacities of the table of names are the real primes 3, 11 and 23: the eight types fill
the first and part of the second, and the parameters make it grow again.
`x` and `g` have one hash. 133667 states. There is no deadlock check, because a
session ends when its bounds are used up or an error stops the process, and no
fairness, because every property is of safety: what has to end ends in one step.

Two returns in two branches combine an `i8`, an `i32`, an `i64` and a literal:
without a conversion, widened, at equal costs and from entries in different orders. With
five statements, for three returns and with sums of `i8` and `i16` (tried without `FrameKept`,
`ResultIsMeant` and calls, 73995 states), nothing else came up. `f32` is left out: there
`TypesAreCheapest` fails. An option that matches the first entry of the old list does not
unlink it (`ir_builder.c:1417`), the walk goes over into the new list, and entries behind the
first are lost. With an `i8` `a` and an `f32` `f`, `if (p == p) return a; return f;` returns an
`f64` at the cost 2 where `f32` costs 1. No comment or test says which it should be.

Six forms of sources go wrong, or wait for another part. `Forms` names those a run looks
at; `session` takes none, `session_shadowed` the first. The others were each looked at once,
as `Forms` of such a run. Of the last, `session` builds the sources, whose types are
chosen as in any other, and does not compile them:

| form | what happens |
|---|---|
| `shadowed` | a name defined in a scope and again inside reads the outer variable, because `possibleCastingForDelegate` (`ir_builder.c:487`) puts the options of each definition in front of those before |
| `other_branch` | `if (a == s) i64 y := 1; else ...`: the definition is a branch by itself, stays visible in the other branch and is read there unwritten (`FrameKept`) |
| `fifth_parameter` | the header stores four parameters (`ir_compiler.c:625`), the frame has room for five: the fifth reads what is there |
| `narrow_assignment` | only 64 bits can be assigned, so assigning to an `i32` widens it to a temporary and assigns that: the variable keeps its value |
| `wide_literal` | a literal goes through an `int32` (`ir_compiler.c:433`) |
| `widened_return` | a conversion of a returned value gets a temporary that `bakeStackUsage` no longer sees: its place is its stale size, which may be over the saved base pointer |

## What is proved

`ExecutableMemoryProofs` proves, for every page size that is a power of two and a
multiple of 16, every block size, every set of lengths and any number of
functions: `TypeOK`, `CodeIntact`, `StaysInPage` and
`OnlyTargetWritable`. Assumed are only `PageSizeAssumption` and
`ClientAssumption` of the module.

None of these is inductive by itself. The inductive invariant `IInv` adds what
they rest on: every page is a multiple of 16 long (`PageSizes`); between calls the
first free byte of the page in use is aligned, inside the page and not before the
end of any function in it (`FreePart`, so the rounding never leads out of the
page); and while a copy runs, its range lies in the page behind all functions
and the bytes from its start to the iterator are those of the new function
(`CallInv`). `RoundUpFits` and
`RequestedSizeFits` are the two facts of arithmetic: a rounded length is not
shorter, and the pages mapped hold the length. The proof has one step for each
action and under it one for each conjunct.

`ObjectPoolProofs` proves every invariant of `ObjectPool`, for every block size,
every set of array lengths and any number of blocks: `TypeOK`, `NoBlockLost`,
`ObjectsDisjoint`, `UsedCountExact`, `IteratorInOrder`, and `IteratorInBounds`, which
no run checks since it follows from `IInv`.
Assumed is only `PoolAssumption`. That an iterator returns the objects in order
says nothing of the blocks it crosses, so its `IInv` adds that the iterator is not
past the block being filled (`IteratorBehind`), that a block is entered only
together with its first object (`FillMark`, without which `has_next` would promise
an object in an empty block), and, for a pool of single objects, that the k-th
object is in the k-th slot counted through the blocks and the iterator stands at
the slot whose rank is the number of objects it returned (`Placed`), and that a walk of the
used count compares with the block that follows the one being filled, is at one of the
blocks in use and has counted those before it (`WalkCounts`). `RankSteps`,
`RankOrder` and `RankUnique` are the arithmetic of these ranks: the end of a block
is the beginning of the next, and no two slots have the same rank. That the links never lead to one block twice (`WalkFacts`) is why the
walk cannot meet its stop too late or too early. `get` and
`get_array` are one operation, `Take`, to the proof (`GetIsTake`), and `TakeShape`
and `GetNextShape` say where each finds its slot. Both invariants were checked
with TLC, on the instances of the runs, before they were proved.

`StackProofs` proves `TypeOK`, `ChainOK` and the refinement `ImplementsLifo`, for every
block size, set of values and number of blocks; assumed is only `StackAssumption`. Its
`IInv` adds to `TypeOK` the links of `ChainOK` (`Links`) and that the iterator is never
above the top (`IteratorPlaced`), without which `get_next` might follow the
link of a block that holds nothing. The sequence `Contents` is reached from a place by the
number of slots below it (`Depth`) and back by quotient and remainder (`PlaceOfDepth`,
`DepthOfPlace`); `LesserDepth` and `BelowIsLesser` say that the order of depths is that of
blocks and slots. So the three ways to push all add one value behind the others
(`Pushed`, `ContentsPushed`), and pop takes one away over the end of a block or not
(`ContentsPopped`). `StepIsAbstract` has one step for each action: it keeps `IInv` and
is a step of `Lifo`, or none.

`IrCompilerProofs` proves `SuccessorsFollow`, for every well-formed function and every length
its instructions may have, and with it that the processor of `Run` is always at the first
byte of an instruction (`ProcessorOnCode`, which no run checks). Assumed is only
`CompilerAssumption`. `IInv` ties the buffer to the two lists built beside it:
every jump in the buffer is in the list of jumps, with its distance once the loop is past it
(`JumpsListed`), and the list names one successor for each place (`JumpsApart`); what an
operation needs is there, and nothing else (`JumpsPresent`, `InstructionsMeant`); its bytes end
where those of the next begin (`OperationsClosed`, `OperationsBegin`); and behind
each instruction that may be passed there is another (`InstructionsRow`). That an operation
may take no bytes at all, so that its offset is the one of the next, is what makes the
last step an induction: `OperationOnCode` walks over such operations to the first
instruction behind them.

`HashTableProofs` proves `TypeOK`, `BucketsPartitioned` and, of `IntMap`, the refinement
`ImplementsDictionary`, for every set of keys, every increasing row of
capacities and every bound of the size; assumed is only `MapAssumption`. The lists of the map are
chains of pointers, of which the state shows only the beginnings, and the growth takes buckets
from one chain to another while it walks along it. `IInv` therefore does not walk: it says that
there are a home and a rank for each bucket (`Lists`), such that a pointer leads to the bucket
of the same home with the next smaller rank, and the head of each list, the removed
buckets and the chains not yet relinked included, has the largest. `Placed` adds that a bucket is in
the chain its key belongs to and no key is held twice, `Counted` that the size counts the
keys, with one more while a new key waits for the growth to end. Each action then gives a few buckets
another home or a rank above all others; `ProofLemmas` has the four moves there are (`Pushed`,
`FirstTaken`, `BehindTaken`, `Renumbered`), and its `ChainElements` is the one place where the
walk is looked at: it meets the buckets of the home with ranks up to that of its
first. The refinement has what clients see in these terms: the dictionary sends the key
of each held bucket to the bucket (`WhereIs`), and an iteration has the buckets of the
later slots and of smaller ranks ahead (`VisitIs`, `ContinueLeaves`); then one lemma for each
action says which step of `Dictionary` it is, or that clients see none
(`GrowthRefines`). `IInv` was checked with TLC on the instance of `MCIntMap` first.

It also proves `NamesAreCanonical` (`CanonicalNames`), for every set of texts, whatever their
hashes are, and every row of capacities: `Interning` is all that happens to the table of names.
`Session` itself cannot be reasoned about here, since it reaches recursive operators, but its
`strings` begins as `Interned(EmptyStrings, TypeNames)` and changes to `Interned(strings, ...)`
only, as the actions of `FunctionBuilder` show. The invariant is `Interns`: the
texts are different, and the bucket of each is in the chain of its hash. Why it survives the
growth is `RegrownHolds`, an induction over the chains with one over each chain in it
(`RelinkedHolds`): nothing that is in its slot is lost by linking another bucket in front
(`PutInFrontKeeps`). `AddressesStay` says what clients rely on, that the answer to a text is
the same whatever was asked for in between, for refusals too; `Follows` is the relation
between a table and those it can become. Assumed is only `StringsAssumption`.

`LexerProofs` proves `TypeOK` and `TokensHoldMeaning`, for every set of sources and every
limit of the length. A source is opaque to the provers: all they know of it is its length
(`LexerAssumption`) and that the classes of characters are disjoint and the end of the source is in
none (`ClassesAssumption`); TLC evaluates both with the real characters. `IInv` says that
the lexer stands at a token or at the end, and that the reading of `Reading`, which
starts at the beginning of the source and knows nothing of the lexer, takes that place for code
(`AtToken`); the tokens follow one another (`TokensRow`) and hold just what is meant before
that place. `SkipsLayout` walks over spaces and comments with both readings: `LineCommentRead` and
`BlockCommentRead` say that they agree where a comment ends, its closing slash
included. `TokenAtIs` is the one fact about the four kinds of tokens that the step needs:
everything in the token is meant, nothing from its end to where the lexer goes on is, and
it is code again there. `TokensCollected`
proves that the calls make `Tokens(source)` (`CollectsTokens`, which no run
checks): the recursion that the models of the parser take for the lexer is what the steps of the
lexer do. `TokensTyped` is what `TextsAssumption` asks of the texts of the parser, for every
text of a length.

`BnfParserProofs` proves `TypeOK` and `StateCountsChildren` of `Parsing`, the parser on one text
after the other, for every scheme of rules and all texts. `Parsing` is what the
specification of `SyntaxSolver` does to the variables of the parser, with no bound on the
number of texts. Assumed are `SchemeAssumption` (a node has one of
the types of `bnf_node.h`, a child of a
node is a node, a reference names a rule, a repetition and an alternative have a child) and
`TextsAssumption` (what the lexer makes of a text is a sequence of tokens); TLC evaluates both
with the grammar of the language. `IInv` says that the stack is a derivation
(`Derivation`): every frame names a node of the scheme and a frame below it as its
parent, only the first has none, and the state of each frame fits the frames that
have it as a parent (`Counted`), options included, which `StateCountsChildren` does not
ask for. It also says where `current` is in each part of the loop, which tells that `Reject` always pops
the frame it looks at. `NextChildIs` and `RejectedIs` are the facts about the switches of
`nextChild` and `childRejected`: what the one counts, the other takes back;
`DerivationGrows`, `DerivationShrinks` and `DerivationLeft` are the three things that happen to
a stack. `WayExists` and `NodeOfChild` show by induction that a path leads to a
node.

`FramesRow` proves `FramesJoin` under a condition, `SymbolsSeparated`: a symbol that begins a
token is the whole token. The condition is there because the code needs it: without it
the offset that `Reject` does not set back is not 0, and run
`bnf_parser_touching` shows a source that is rejected for that. 606 of the 608 sources of run
`bnf_parser` meet it. The other two hold `->`, which the symbol `-` begins; for them
`FramesJoin` is checked by TLC and not proved. The proof adds to `IInv` that all offsets are 0
and that each frame begins at the token at which the one before it ends (`Row`).

`AcceptsOnlyDerivations` proves one half of what `AcceptsLanguage` checks, for every scheme and
text, and without `SymbolsSeparated`: a text that is accepted is derived
(`AcceptedIsDerived`). The stack is then a tree of frames, in the order in which it is written,
that has all children its nodes demand and no others, each frame names the child of its node
that its place asks for, the leaves match, and
the tokens they take go from the first to the last with none skipped. The invariant is `DInv`.
When a frame is looked at, what lies beside the way from the first frame
to it is complete (`Partial`); when one is about to be popped, this is so for the top
(`Rejecting`); and in the end everything is (`Whole`). Going back has to keep that:
`InOrderShrinks` and `RejectingShrinks` show that a popped child leaves the children before it
in their order and that a parent which `childRejected` sends on knows it is incomplete again
(`Tried`). An alternative without children would be left as if it had entered one, therefore
the assumption. At which symbol of a token a leaf begins is what `FramesRow` is about.

`FirstDerivation` is the other half: what the parser gives up on the way is not lost. Under
`SymbolsSeparated` again, the stack `ketl_bnf_parse` ends with is, of all derivations of a
beginning of the text, the first in the order in which choices are tried, and it is empty
only if no beginning can be derived; the text is accepted if and only if that
derivation ends behind its last token (`FirstFound`). The derivations are all
sequences of frames that are such trees (`Beginning`), whether the parser has met them or
not. One derivation is `Preferred` to another where they first part: where it has one
more child of an option or a repetition, or a child that its alternative names
earlier. `PreferenceIsStrict` proves that no two derivations are preferred to each other.
The theorem does not say that every text with a derivation is accepted, since the code does
not do that for every scheme: `ketl_bnf_parse` returns when the root is left and does not
go back if tokens remain, so a text is rejected when the first derivation of a
beginning stops before its end. For the language's own grammar, `AcceptsLanguage` checks on the texts of
run `bnf_parser` that none is lost by this.

The invariant (`AllWait`) is about every derivation d that the stack is not preferred to.
While a frame is entered, d begins as the stack does; while a frame looks for its next child, d
goes on there with a child that is still to be tried (`Ahead`); and
when the top is popped there is no such d at all. The hard step is the pop: a derivation to which the popped
frame alone was preferred must be ahead of its parent afterwards, and the parent must
not give up (`PoppedChild`); in an alternative, the state which `childRejected`
leaves is shown to be the number of the popped child, and the derivation has a later
one (`PoppedChoice`, `ChoiceGoesOn`). `RepeatsReset` is needed with it: the state a
rejected repetition gets, 1, lasts to its end only and never forbids a child that was not
tried. `KidsClosed` and `NextBelow` are the facts about trees in the order in which they are
written; `FacesChild` and `FacesParent` say for each type of node that a
derivation ahead of a frame enters what `nextChild` enters, or leaves it too.

All of this speaks of frames and tokens only. `Derivable`, which `AcceptsLanguage` compares with,
is recursive over the grammar, so the comparison with it stays with TLC.

`ProofLemmas` has induction over the natural numbers for sets, from the existence of a least
element (`StepInduction` and `StrongInduction`), by which a recursive function over positions is shown to exist in
`LexerProofs`, `RepeatedStep` for loops that are functions of how often they were taken, and
the lists of `HashTableProofs`.

Not provable here and left to TLC are the properties under fairness (`AllocateReturns`,
`GrowthEnds`, `StopsOnlyForReturns` and the others), and the modules that are recursive over
trees: `Session`, `FunctionBuilder`, `BnfLanguage`, `SyntaxParser`, `IrBuilder` and what extends
them are written with recursive operators, which the provers here do not
take. What `PageSizeLog` computes enters its proof only through `PageSizeAssumption`.
Model-checked only are therefore that the first derivation takes the whole of every text
of this language, where the parser reports an error, the syntax trees, code generation as
a whole, and of the sessions everything but their table of names. Of `Lexer`, `LayoutIrrelevant` stays with TLC, since it writes out tokens and reads them again,
and to the provers a string has no characters.

## Not modelled, and what was seen on the way

Most lines of C in this repository are LuaJIT's headers, kept for a speed comparison
(`dependencies_tests/`); they are not part of this program. The library's own files that
are modelled have some 6000 lines, of which the models stand for 4250; the rest of them is
the encoding of instructions, declarations, and what is listed here.

* Heap memory: `ketl_heap_memory_prune` marks and frees, and nothing in the library
  calls it, so no session comes to it. What the other two functions do is put a node
  into an integer map.
* The tree of function types in `ketl.c`: types of equal parameters are one
  type; nothing in the builder or the compiler compares them yet.
* Calls of functions in a source: `doCall` is unfinished (it takes an array of one
  argument, `ir_builder.c:934`, and writes to its second place), and the values a
  call would return have no instruction.
* Assignments as operands of other expressions, names longer than 100 characters and
  functions of more than 16 parameters: their refusals are modelled
  (`GetKey`, `GetArrayRefused`), but no session has them.
* `deinit` of the containers and of the executable memory (each walks the chain that
  `NoBlockLost` and `ChainOK` speak of); the encodings of the instructions, which are
  bytes no property tells apart; the variant of the compiler for Windows; logging;
  allocation failure, which the code does not handle; a null lexer or source.
* What the library does after an error, with the log level raised.

Seen in the models and in the compiled code; but for the `eval`, kept out of the
sources of the passing runs: `;(` makes the parser match the semicolon again and again and push
frames for ever (the stale offset again); `f()();` leaves the loop over calls after
the first and reads the wrong frames; `if (a) ;` writes through the missing tree of
its branch; the `eval` of a source that defines a variable at its top turns the
variable into a pointer when its code is built, which the compiler cannot write to, so that
`Compile` stops as the process does (such sources are commented out at
`tests/main.cpp:54` and `56`); an unclosed string makes `ketl_lexer_get_next_token` return NULL, which
the solver dereferences (the model of the lexer stops there, `failed`).

## Plan

Written and checked, in this order, each module for itself:

1. `ExecutableMemory`, with its proofs
2. `ObjectPool`, with its proofs, `Stack` (implements `Lifo`), with its proofs, `IntMap` (implements `Dictionary`)
3. `Lexer`, `BnfScheme`, `BnfParser` (uses `Lexer` for its tokens), `SyntaxParser`
   (extends `BnfParser`)
4. `IrNode`, `IrBuilder`, `IrCompiler`, composed by `CodeGeneration`: from
   statements to the run of the code
5. `SyntaxSolver` (extends `SyntaxParser`): one source after the other
6. `AtomicStrings`, with its proofs, `Casting`, `FunctionBuilder` and `Frame`, composed by `Session`,
   which implements `LexicalScopes`: names, types and bytes, from sources to the
   results of calls

To come:

* calls of functions in sources, once the code has them
