-------------------------- MODULE ExecutableMemory --------------------------
(***************************************************************************)
(* The executable memory of the JIT (executable_memory.c): finished        *)
(* machine code is copied into pages obtained from the operating system,   *)
(* one function after the other.  A page is writable while code is copied  *)
(* into it and executable otherwise.                                       *)
(*                                                                         *)
(* One call of ketl_executable_memory_allocate is three kinds of steps:    *)
(* choosing the page (Begin...), one iteration of the copy loop            *)
(* (CopyBlock) and the copy of the last piece with the return (Finish).    *)
(* The program has one thread: nothing else happens until Finish.          *)
(***************************************************************************)
EXTENDS Integers, Sequences

CONSTANTS
  PageSize,        \* what getpagesize() returns
  BlockSize,       \* "blocksize": the bytes in one block of "opcodes"
  Lengths,         \* the code lengths the compiler may ask for
  GarbageOffsets,  \* what the uninitialised currentOffset may hold
  MaxCode          \* bound: how many functions a behaviour compiles

(***************************************************************************)
(* The loop of ketl_executable_memory_init: how often PageSize can be      *)
(* shifted right, less one.                                                *)
(***************************************************************************)
PageSizeLog[n \in Nat] == IF n = 0 THEN -1 ELSE PageSizeLog[n \div 2] + 1

(***************************************************************************)
(* Page sizes are powers of two and at least the alignment of the code.    *)
(***************************************************************************)
ASSUME PageSizeAssumption ==
  /\ PageSize \in Nat \ {0}
  /\ PageSize % 16 = 0
  /\ 2 ^ PageSizeLog[PageSize] = PageSize

ASSUME ClientAssumption ==
  /\ BlockSize \in Nat \ {0}
  /\ Lengths \subseteq Nat \ {0}
  /\ GarbageOffsets \subseteq Nat
  /\ GarbageOffsets # {}
  /\ MaxCode \in Nat

VARIABLES
  pages,          \* the mapped pages: size and protection of each
  memory,         \* what was written to them, by page and position
  currentPage,    \* index of the page in use, 0 for NULL
  currentOffset,  \* the first free byte of that page
  code,           \* what the finished calls returned
  call            \* the call in progress

vars == <<pages, memory, currentPage, currentOffset, code, call>>

-----------------------------------------------------------------------------

NULL == 0

(***************************************************************************)
(* A byte of code is the function it belongs to and its position in the    *)
(* code of that function.                                                  *)
(***************************************************************************)
Byte == Nat \X Nat

\* The byte opcodes[block][i] of function fn.
Opcode(fn, block, i) == <<fn, block * BlockSize + i>>

\* The size of the page mapped for "length" bytes.
RequestedSize(length) ==
  PageSize * ((length + (PageSize - 1)) \div 2 ^ PageSizeLog[PageSize])

\* Mutant of RoundUp: the next function begins inside the last one.
RoundDown(length) == (length \div 16) * 16

\* (length + 15) & (-16)
RoundUp(length) == ((length + 15) \div 16) * 16

Idle == [phase |-> "idle", page |-> 0, start |-> 0, total |-> 0,
         length |-> 0, iterator |-> 0, block |-> 0]

Init ==
  /\ pages = <<>>
  /\ memory = <<>>
  /\ currentPage = NULL
  /\ currentOffset \in GarbageOffsets
  /\ code = <<>>
  /\ call = Idle

\* mprotect: the pages with the protection of one of them changed.
Protect(page, prot) ==
  [pages EXCEPT ![page] = [size |-> pages[page].size, prot |-> prot]]

Copying(page, start, length) ==
  [phase |-> "copy", page |-> page, start |-> start, total |-> length,
   length |-> length, iterator |-> start, block |-> 0]

\* Mutant of NeedsPage: only the offset is compared with the page.
NeedsPageByOffset(length) ==
  currentPage # NULL => currentOffset > pages[currentPage].size

\* The test at the head of ketl_executable_memory_allocate.
NeedsPage(length) ==
  currentPage # NULL => currentOffset + length > pages[currentPage].size

(***************************************************************************)
(* The code does not fit: a page is mapped readable and writable.          *)
(***************************************************************************)
BeginNewPage(length) ==
  /\ call.phase = "idle"
  /\ Len(code) < MaxCode
  /\ NeedsPage(length)
  /\ pages' = Append(pages, [size |-> RequestedSize(length), prot |-> "RW"])
  /\ currentPage' = Len(pages) + 1
  /\ call' = Copying(Len(pages) + 1, 0, length)
  /\ UNCHANGED <<memory, currentOffset, code>>

(***************************************************************************)
(* The code fits behind the previous function: the page, and the functions *)
(* already in it, become writable.                                         *)
(***************************************************************************)
BeginSamePage(length) ==
  /\ call.phase = "idle"
  /\ Len(code) < MaxCode
  /\ ~NeedsPage(length)
  /\ pages' = Protect(currentPage, "RW")
  /\ call' = Copying(currentPage, currentOffset, length)
  /\ UNCHANGED <<memory, currentPage, currentOffset, code>>

\* memcpy of n bytes of opcodes[call.block] to the iterator.
Copy(n) ==
  LET target == {call.page} \X (call.iterator .. call.iterator + n - 1)
  IN  memory' = [a \in DOMAIN memory \cup target |->
        IF a \in target
        THEN Opcode(Len(code) + 1, call.block, a[2] - call.iterator)
        ELSE memory[a]]

\* Mutant of CopyBlock: it also runs for the last, shorter piece.
CopyBlockTooLong ==
  /\ call.phase = "copy"
  /\ call.length > 0
  /\ Copy(BlockSize)
  /\ call' = [call EXCEPT !.iterator = @ + BlockSize,
                          !.length = @ - BlockSize,
                          !.block = @ + 1]
  /\ UNCHANGED <<pages, currentPage, currentOffset, code>>

\* Mutant of CopyBlock: the loop does not move on.
CopyBlockStuck ==
  /\ call.phase = "copy"
  /\ call.length > BlockSize
  /\ Copy(BlockSize)
  /\ UNCHANGED <<pages, currentPage, currentOffset, code, call>>

\* One iteration of the loop over whole blocks.
CopyBlock ==
  /\ call.phase = "copy"
  /\ call.length > BlockSize
  /\ Copy(BlockSize)
  /\ call' = [call EXCEPT !.iterator = @ + BlockSize,
                          !.length = @ - BlockSize,
                          !.block = @ + 1]
  /\ UNCHANGED <<pages, currentPage, currentOffset, code>>

\* Mutant of Finish: the page stays writable.
FinishUnprotected ==
  /\ call.phase = "copy"
  /\ call.length <= BlockSize
  /\ Copy(call.length)
  /\ currentOffset' = call.start + RoundUp(call.total)
  /\ code' = Append(code, [page |-> call.page, offset |-> call.start,
                           length |-> call.total])
  /\ call' = Idle
  /\ UNCHANGED <<pages, currentPage>>

(***************************************************************************)
(* The last piece, the offset of the next function, the protection of the  *)
(* page, and the address returned to the compiler.                         *)
(***************************************************************************)
Finish ==
  /\ call.phase = "copy"
  /\ call.length <= BlockSize
  /\ Copy(call.length)
  /\ pages' = Protect(call.page, "RX")
  /\ currentOffset' = call.start + RoundUp(call.total)
  /\ code' = Append(code, [page |-> call.page, offset |-> call.start,
                           length |-> call.total])
  /\ call' = Idle
  /\ UNCHANGED currentPage

Next ==
  \/ \E length \in Lengths : BeginNewPage(length)
  \/ \E length \in Lengths : BeginSamePage(length)
  \/ CopyBlock
  \/ Finish

(***************************************************************************)
(* A call that was made runs to its end; no call need ever be made.        *)
(***************************************************************************)
Spec == Init /\ [][Next]_vars /\ WF_vars(CopyBlock \/ Finish)

-----------------------------------------------------------------------------

(***************************************************************************)
(* Types of the variables of ketl_executable_memory and of the locals of a *)
(* call of ketl_executable_memory_allocate.                                *)
(***************************************************************************)
TypeOK ==
  /\ pages \in Seq([size : Nat, prot : {"RW", "RX"}])
  /\ memory = [a \in DOMAIN memory |-> memory[a]]
  /\ \A a \in DOMAIN memory : a \in Nat \X Nat /\ memory[a] \in Byte
  /\ currentPage \in 0 .. Len(pages)
  /\ currentOffset \in Nat
  /\ code \in Seq([page : Nat, offset : Nat, length : Nat])
  /\ call \in [phase : {"idle", "copy"}, page : Nat, start : Nat,
               total : Nat, length : Nat, iterator : Nat, block : Nat]

(***************************************************************************)
(* Every returned address is 16-byte aligned and its whole code lies in    *)
(* the page it points into: the fit test uses the length, the offset grows *)
(* by the rounded length.                                                  *)
(***************************************************************************)
CodeInPage ==
  \A f \in DOMAIN code :
    /\ code[f].page \in DOMAIN pages
    /\ code[f].offset % 16 = 0
    /\ code[f].offset + code[f].length <= pages[code[f].page].size

(***************************************************************************)
(* The copy never writes outside the pages it was given.                   *)
(***************************************************************************)
WritesInPage ==
  \A a \in DOMAIN memory :
    /\ a[1] \in DOMAIN pages
    /\ a[2] \in 0 .. pages[a[1]].size - 1

\* Neither the code that is returned nor the copy leaves the pages.
StaysInPage == CodeInPage /\ WritesInPage

(***************************************************************************)
(* Every function ever returned still holds exactly the bytes the compiler *)
(* emitted for it, block by block, whatever was compiled after it and even *)
(* while its page is open for writing.                                     *)
(***************************************************************************)
CodeIntact ==
  \A f \in DOMAIN code :
    \A k \in 0 .. code[f].length - 1 :
      LET a == <<code[f].page, code[f].offset + k>>
      IN  a \in DOMAIN memory /\ memory[a] = <<f, k>>

(***************************************************************************)
(* While no allocation runs, every page is executable and none writable;   *)
(* during one, only the page it copies into is writable.                   *)
(***************************************************************************)
OnlyTargetWritable ==
  \A p \in DOMAIN pages :
    pages[p].prot = "RW" => call.phase = "copy" /\ call.page = p

(***************************************************************************)
(* The copy loop ends: every call that chose a page returns an address.    *)
(***************************************************************************)
AllocateReturns == call.phase = "copy" ~> call.phase = "idle"

=============================================================================
