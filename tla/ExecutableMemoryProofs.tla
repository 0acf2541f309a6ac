----------------------- MODULE ExecutableMemoryProofs -----------------------
(***************************************************************************)
(* Machine-checked proofs about ExecutableMemory, for every page size,     *)
(* block size, set of lengths and number of compiled functions.            *)
(***************************************************************************)
EXTENDS ExecutableMemory, TLAPS

(***************************************************************************)
(* What a requested page is: large enough for the code, and a whole number *)
(* of alignment units.                                                     *)
(***************************************************************************)
LEMMA RequestedSizeFits ==
  ASSUME NEW length \in Nat
  PROVE  /\ RequestedSize(length) \in Nat
         /\ RequestedSize(length) >= length
         /\ RequestedSize(length) % 16 = 0
<1> DEFINE n == (length + (PageSize - 1)) \div PageSize
<1>1. RequestedSize(length) = PageSize * n
  BY PageSizeAssumption DEF RequestedSize
<1>2. n \in Nat /\ PageSize * n >= length
  BY PageSizeAssumption
<1>3. PageSize = 16 * (PageSize \div 16) /\ PageSize \div 16 \in Nat
  BY PageSizeAssumption
<1> HIDE DEF n
<1>4. PageSize * n = 16 * ((PageSize \div 16) * n) /\ (PageSize \div 16) * n \in Nat
  <2>1. \A q, m \in Nat : (16 * q) * m = 16 * (q * m) /\ q * m \in Nat
    OBVIOUS
  <2> QED
    BY <1>2, <1>3, <2>1
<1>5. \A m \in Nat : (16 * m) % 16 = 0 /\ 16 * m \in Nat
  OBVIOUS
<1> QED
  BY <1>1, <1>2, <1>4, <1>5

(***************************************************************************)
(* The alignment arithmetic of allocate.                                   *)
(***************************************************************************)
LEMMA RoundUpFits ==
  ASSUME NEW length \in Nat
  PROVE  /\ RoundUp(length) \in Nat
         /\ RoundUp(length) >= length
         /\ RoundUp(length) % 16 = 0
         /\ \A end \in Nat : end % 16 = 0 /\ length <= end => RoundUp(length) <= end
BY DEF RoundUp

(***************************************************************************)
(* What Append does to a sequence, in the form the steps below use.        *)
(***************************************************************************)
LEMMA AppendFacts ==
  ASSUME NEW S, NEW s \in Seq(S), NEW e \in S
  PROVE  /\ Append(s, e) \in Seq(S)
         /\ Len(s) \in Nat
         /\ Len(Append(s, e)) = Len(s) + 1
         /\ DOMAIN s = 1 .. Len(s)
         /\ DOMAIN Append(s, e) = DOMAIN s \cup {Len(s) + 1}
         /\ Append(s, e)[Len(s) + 1] = e
         /\ \A i \in DOMAIN s : Append(s, e)[i] = s[i]
OBVIOUS

(* An element of a sequence over S is in S. *)
LEMMA ElementOfSeq ==
  ASSUME NEW S, NEW s \in Seq(S)
  PROVE  \A i \in DOMAIN s : s[i] \in S
OBVIOUS

(***************************************************************************)
(* The types of one page and of one function.                              *)
(***************************************************************************)
LEMMA ElementTypes ==
  ASSUME TypeOK
  PROVE  /\ DOMAIN pages = 1 .. Len(pages) /\ Len(pages) \in Nat
         /\ DOMAIN code = 1 .. Len(code) /\ Len(code) \in Nat
         /\ \A p \in DOMAIN pages :
              pages[p].size \in Nat /\ pages[p].prot \in {"RW", "RX"}
         /\ \A f \in DOMAIN code :
              /\ code[f].page \in Nat
              /\ code[f].offset \in Nat
              /\ code[f].length \in Nat
<1>1. /\ pages \in Seq([size : Nat, prot : {"RW", "RX"}])
      /\ code \in Seq([page : Nat, offset : Nat, length : Nat])
  BY DEF TypeOK
<1>2. /\ DOMAIN pages = 1 .. Len(pages) /\ Len(pages) \in Nat
      /\ DOMAIN code = 1 .. Len(code) /\ Len(code) \in Nat
  BY <1>1
<1>3. \A p \in DOMAIN pages : pages[p] \in [size : Nat, prot : {"RW", "RX"}]
  BY <1>1, ElementOfSeq
<1>4. \A f \in DOMAIN code : code[f] \in [page : Nat, offset : Nat, length : Nat]
  BY <1>1, ElementOfSeq
<1> QED
  BY <1>2, <1>3, <1>4

(***************************************************************************)
(* What changing the protection of a page leaves alone.                    *)
(***************************************************************************)
LEMMA ProtectFacts ==
  ASSUME TypeOK, NEW p \in DOMAIN pages, NEW prot \in {"RW", "RX"}
  PROVE  /\ Protect(p, prot) \in Seq([size : Nat, prot : {"RW", "RX"}])
         /\ DOMAIN Protect(p, prot) = DOMAIN pages
         /\ Len(Protect(p, prot)) = Len(pages)
         /\ Protect(p, prot)[p] = [size |-> pages[p].size, prot |-> prot]
         /\ \A q \in DOMAIN pages :
              /\ Protect(p, prot)[q].size = pages[q].size
              /\ q # p => Protect(p, prot)[q] = pages[q]
<1> DEFINE Pages == [size : Nat, prot : {"RW", "RX"}]
           page == [size |-> pages[p].size, prot |-> prot]
<1>1. pages \in Seq(Pages)
  BY DEF TypeOK
<1>2. page \in Pages /\ page.size = pages[p].size
  BY ElementTypes
<1>3. Protect(p, prot) = [pages EXCEPT ![p] = page]
  BY DEF Protect
<1> HIDE DEF Pages, page
<1>4. /\ Protect(p, prot) \in Seq(Pages)
      /\ DOMAIN Protect(p, prot) = DOMAIN pages
      /\ Len(Protect(p, prot)) = Len(pages)
      /\ Protect(p, prot)[p] = page
      /\ \A q \in DOMAIN pages : q # p => Protect(p, prot)[q] = pages[q]
  BY <1>1, <1>2, <1>3
<1> QED
  BY <1>2, <1>4 DEF Pages, page

-----------------------------------------------------------------------------

\* Pages are whole numbers of alignment units.
PageSizes == \A p \in DOMAIN pages : pages[p].size % 16 = 0

\* Between two calls the current page has its free part behind its code.
FreePart ==
  call.phase = "idle" /\ currentPage # NULL =>
    /\ currentOffset % 16 = 0
    /\ currentOffset <= pages[currentPage].size
    /\ \A f \in DOMAIN code :
         code[f].page = currentPage =>
           code[f].offset + code[f].length <= currentOffset

\* A call in progress has copied a prefix of its code into its own range.
CallInv ==
  call.phase = "copy" =>
    /\ call.page = currentPage
    /\ call.page \in DOMAIN pages
    /\ call.start % 16 = 0
    /\ call.start + call.total <= pages[call.page].size
    /\ call.iterator = call.start + call.block * BlockSize
    /\ call.iterator + call.length = call.start + call.total
    /\ \A f \in DOMAIN code :
         code[f].page = call.page =>
           code[f].offset + code[f].length <= call.start
    /\ \A k \in 0 .. call.iterator - call.start - 1 :
         /\ <<call.page, call.start + k>> \in DOMAIN memory
         /\ memory[<<call.page, call.start + k>>] = <<Len(code) + 1, k>>

(***************************************************************************)
(* The inductive invariant.                                                *)
(***************************************************************************)
IInv ==
  /\ TypeOK
  /\ PageSizes
  /\ FreePart
  /\ CallInv
  /\ CodeInPage
  /\ WritesInPage
  /\ CodeIntact
  /\ OnlyTargetWritable

(* ketl_executable_memory_init establishes the inductive invariant: there is *)
(* no page and no function yet.                                            *)
LEMMA InitIInv == Init => IInv
BY ClientAssumption
   DEF Init, IInv, TypeOK, PageSizes, FreePart, CallInv, CodeInPage,
       WritesInPage, CodeIntact, OnlyTargetWritable, Idle, NULL

(***************************************************************************)
(* What the locals of a call in progress satisfy.                          *)
(***************************************************************************)
LEMMA CallFacts ==
  ASSUME IInv, call.phase = "copy"
  PROVE  /\ call.page \in DOMAIN pages /\ call.page \in Nat
         /\ call.page = currentPage
         /\ call.start \in Nat /\ call.total \in Nat /\ call.length \in Nat
         /\ call.iterator \in Nat /\ call.block \in Nat
         /\ call.start % 16 = 0
         /\ call.start + call.total <= pages[call.page].size
         /\ pages[call.page].size \in Nat
         /\ call.block * BlockSize \in Nat
         /\ call.iterator = call.start + call.block * BlockSize
         /\ call.iterator + call.length = call.start + call.total
<1>1. TypeOK /\ CallInv
  BY DEF IInv
<1>2. /\ call.page \in DOMAIN pages
      /\ call.page = currentPage
      /\ call.start % 16 = 0
      /\ call.start + call.total <= pages[call.page].size
      /\ call.iterator = call.start + call.block * BlockSize
      /\ call.iterator + call.length = call.start + call.total
  BY <1>1 DEF CallInv
<1>3. /\ call.page \in Nat /\ call.start \in Nat /\ call.total \in Nat
      /\ call.length \in Nat /\ call.iterator \in Nat /\ call.block \in Nat
  BY <1>1 DEF TypeOK
<1>4. pages[call.page].size \in Nat
  BY <1>1, <1>2, ElementTypes
<1>5. call.block * BlockSize \in Nat
  BY <1>3, ClientAssumption
<1> QED
  BY <1>2, <1>3, <1>4, <1>5

(***************************************************************************)
(* A piece of at most the remaining length lands in the page of the call,  *)
(* behind every finished function and behind the pieces already copied.    *)
(***************************************************************************)
LEMMA CopyFacts ==
  ASSUME IInv, call.phase = "copy",
         NEW n \in Nat, n <= call.length, Copy(n)
  PROVE  /\ memory' = [a \in DOMAIN memory' |-> memory'[a]]
         /\ \A a \in DOMAIN memory' :
              /\ a \in Nat \X Nat /\ memory'[a] \in Byte
              /\ a[1] \in DOMAIN pages /\ a[2] \in 0 .. pages[a[1]].size - 1
         /\ \A f \in DOMAIN code : \A k \in 0 .. code[f].length - 1 :
              /\ <<code[f].page, code[f].offset + k>> \in DOMAIN memory'
              /\ memory'[<<code[f].page, code[f].offset + k>>] = <<f, k>>
         /\ \A k \in 0 .. call.iterator + n - call.start - 1 :
              /\ <<call.page, call.start + k>> \in DOMAIN memory'
              /\ memory'[<<call.page, call.start + k>>] = <<Len(code) + 1, k>>
<1> DEFINE target == {call.page} \X (call.iterator .. call.iterator + n - 1)
           written(a) == Opcode(Len(code) + 1, call.block, a[2] - call.iterator)
<1>types. TypeOK
  BY DEF IInv
<1>call. /\ call.page \in DOMAIN pages /\ call.page \in Nat
         /\ call.start \in Nat /\ call.total \in Nat /\ call.length \in Nat
         /\ call.iterator \in Nat /\ call.block \in Nat
         /\ call.start + call.total <= pages[call.page].size
         /\ pages[call.page].size \in Nat
         /\ call.block * BlockSize \in Nat
         /\ call.iterator = call.start + call.block * BlockSize
         /\ call.iterator + call.length = call.start + call.total
  BY CallFacts
<1>order. call.iterator >= call.start
          /\ call.iterator + n <= pages[call.page].size
  BY <1>call
<1>1. memory' = [a \in DOMAIN memory \cup target |->
                   IF a \in target THEN written(a) ELSE memory[a]]
  BY DEF Copy
<1>2. /\ DOMAIN memory' = DOMAIN memory \cup target
      /\ memory' = [a \in DOMAIN memory' |-> memory'[a]]
      /\ \A a \in target : memory'[a] = written(a)
      /\ \A a \in DOMAIN memory : a \notin target => memory'[a] = memory[a]
  <2> HIDE DEF target, written
  <2> QED
    BY <1>1
<1>3. \A a \in target :
        /\ a \in Nat \X Nat /\ a[1] = call.page
        /\ a[2] \in Nat /\ a[2] >= call.iterator /\ a[2] < call.iterator + n
        /\ written(a) = <<Len(code) + 1, a[2] - call.start>>
        /\ a[2] - call.start \in Nat
  BY <1>call DEF Opcode
<1>4. \A i \in Nat : i >= call.iterator /\ i < call.iterator + n
                       => <<call.page, i>> \in target
  BY <1>call
<1> HIDE DEF target, written
<1>5. Len(code) + 1 \in Nat
  BY <1>types, ElementTypes
<1>6. \A a \in DOMAIN memory' :
        /\ a \in Nat \X Nat /\ memory'[a] \in Byte
        /\ a[1] \in DOMAIN pages /\ a[2] \in 0 .. pages[a[1]].size - 1
  <2> TAKE a \in DOMAIN memory'
  <2>1. CASE a \in target
    <3>1. memory'[a] \in Byte
      BY <1>2, <1>3, <1>5, <2>1 DEF Byte
    <3>2. a[2] \in 0 .. pages[a[1]].size - 1
      <4>1. a[1] = call.page /\ a[2] \in Nat /\ a[2] < call.iterator + n
        BY <1>3, <2>1
      <4>2. a[2] \in 0 .. pages[call.page].size - 1
        BY <1>call, <1>order, <4>1
      <4> QED
        BY <4>1, <4>2
    <3> QED
      BY <1>3, <1>call, <2>1, <3>1, <3>2
  <2>2. CASE a \notin target
    BY <1>2, <1>types, <2>2 DEF TypeOK, IInv, WritesInPage
  <2> QED
    BY <2>1, <2>2
<1>7. ASSUME NEW f \in DOMAIN code, NEW k \in 0 .. code[f].length - 1
      PROVE  /\ <<code[f].page, code[f].offset + k>> \in DOMAIN memory'
             /\ memory'[<<code[f].page, code[f].offset + k>>] = <<f, k>>
  <2> DEFINE a == <<code[f].page, code[f].offset + k>>
  <2>1. a \in DOMAIN memory /\ memory[a] = <<f, k>>
    BY <1>7 DEF IInv, CodeIntact
  <2>2. /\ code[f].page \in Nat /\ code[f].offset \in Nat
        /\ code[f].length \in Nat
    BY <1>types, ElementTypes
  <2>3. a \notin target
    <3>1. SUFFICES ASSUME a \in target
                   PROVE  FALSE
      OBVIOUS
    <3>2. a[1] = code[f].page /\ a[2] = code[f].offset + k
      OBVIOUS
    <3>3. code[f].page = call.page /\ code[f].offset + k >= call.iterator
      BY <1>3, <3>1, <3>2
    <3>4. code[f].offset + code[f].length <= call.start
      BY <3>3 DEF IInv, CallInv
    <3> QED
      BY <1>call, <2>2, <3>3, <3>4
  <2> HIDE DEF a
  <2>4. a \in DOMAIN memory' /\ memory'[a] = <<f, k>>
    BY <1>2, <2>1, <2>3
  <2> QED
    BY <2>4 DEF a
<1>8. ASSUME NEW k \in 0 .. call.iterator + n - call.start - 1
      PROVE  /\ <<call.page, call.start + k>> \in DOMAIN memory'
             /\ memory'[<<call.page, call.start + k>>] = <<Len(code) + 1, k>>
  <2> DEFINE a == <<call.page, call.start + k>>
  <2>0. a[2] = call.start + k /\ call.start + k \in Nat /\ k \in Nat
    BY <1>call
  <2>1. CASE call.start + k >= call.iterator
    <3>1. a \in target
      BY <1>4, <1>call, <2>0, <2>1
    <3> HIDE DEF a
    <3>2. a \in DOMAIN memory' /\ memory'[a] = <<Len(code) + 1, k>>
      <4>1. a \in DOMAIN memory' /\ memory'[a] = <<Len(code) + 1, a[2] - call.start>>
        BY <1>2, <1>3, <3>1
      <4>2. a[2] - call.start = k
        BY <1>call, <2>0
      <4> QED
        BY <4>1, <4>2
    <3> QED
      BY <3>2 DEF a
  <2>2. CASE call.start + k < call.iterator
    <3>1. a \in DOMAIN memory /\ memory[a] = <<Len(code) + 1, k>>
      <4>1. k \in 0 .. call.iterator - call.start - 1
        BY <1>call, <2>0, <2>2
      <4> QED
        BY <4>1 DEF IInv, CallInv
    <3>2. a \notin target
      BY <1>3, <1>call, <2>0, <2>2
    <3> HIDE DEF a
    <3>3. a \in DOMAIN memory' /\ memory'[a] = <<Len(code) + 1, k>>
      BY <1>2, <3>1, <3>2
    <3> QED
      BY <3>3 DEF a
  <2>3. call.start + k >= call.iterator \/ call.start + k < call.iterator
    BY <1>call, <2>0
  <2> QED
    BY <2>1, <2>2, <2>3
<1> QED
  BY <1>2, <1>6, <1>7, <1>8

(* Every step of ketl_executable_memory_allocate keeps the inductive        *)
(* invariant: one step of the proof per action.                            *)
LEMMA NextIInv == IInv /\ [Next]_vars => IInv'
<1> SUFFICES ASSUME IInv, [Next]_vars
             PROVE  IInv'
  OBVIOUS
<1> USE ClientAssumption DEF NULL
<1>types. TypeOK
  BY DEF IInv
<1>1. ASSUME NEW length \in Lengths, BeginNewPage(length)
      PROVE  IInv'
  <2> DEFINE new == Len(pages) + 1
             size == RequestedSize(length)
  <2>1. length \in Nat \ {0} /\ size \in Nat /\ size >= length /\ size % 16 = 0
    BY RequestedSizeFits
  <2> HIDE DEF size
  <2>2. /\ new \in Nat \ {0} /\ new \notin DOMAIN pages
        /\ DOMAIN pages' = DOMAIN pages \cup {new}
        /\ Len(pages') = new
        /\ pages'[new] = [size |-> size, prot |-> "RW"]
        /\ \A p \in DOMAIN pages : pages'[p] = pages[p]
    <3> DEFINE Pages == [size : Nat, prot : {"RW", "RX"}]
               page == [size |-> size, prot |-> "RW"]
    <3>1. pages \in Seq(Pages) /\ page \in Pages
      BY <1>types, <2>1 DEF TypeOK
    <3>2. pages' = Append(pages, page)
      BY <1>1 DEF BeginNewPage, size
    <3> HIDE DEF Pages, page
    <3>3. /\ Len(pages) \in Nat /\ DOMAIN pages = 1 .. Len(pages)
          /\ DOMAIN pages' = DOMAIN pages \cup {Len(pages) + 1}
          /\ Len(pages') = Len(pages) + 1
          /\ pages'[Len(pages) + 1] = page
          /\ \A p \in DOMAIN pages : pages'[p] = pages[p]
      BY <3>1, <3>2, AppendFacts
    <3> QED
      BY <3>3 DEF page
  <2>3. call' = Copying(new, 0, length) /\ currentPage' = new
        /\ UNCHANGED <<memory, currentOffset, code>>
    BY <1>1 DEF BeginNewPage
  <2>4. TypeOK'
    BY <1>1, <1>types, <2>1, <2>2, <2>3 DEF TypeOK, BeginNewPage, Copying, size
  <2>5. PageSizes'
    BY <2>1, <2>2 DEF IInv, PageSizes
  <2>6. CodeInPage' /\ CodeIntact'
    BY <2>2, <2>3 DEF IInv, CodeInPage, CodeIntact
  <2>7. WritesInPage'
    BY <2>2, <2>3 DEF IInv, WritesInPage
  <2>8. OnlyTargetWritable'
    BY <1>1, <2>2, <2>3 DEF IInv, OnlyTargetWritable, BeginNewPage, Copying
  <2>9. FreePart'
    BY <2>3 DEF FreePart, Copying
  <2>10. CallInv'
    BY <2>1, <2>2, <2>3 DEF IInv, CallInv, Copying, CodeInPage
  <2> QED
    BY <2>4, <2>5, <2>6, <2>7, <2>8, <2>9, <2>10 DEF IInv
<1>2. ASSUME NEW length \in Lengths, BeginSamePage(length)
      PROVE  IInv'
  <2>1. length \in Nat \ {0} /\ currentPage \in DOMAIN pages
        /\ currentOffset + length <= pages[currentPage].size
    <3>1. length \in Nat \ {0} /\ currentPage # 0
          /\ ~(currentOffset + length > pages[currentPage].size)
      BY <1>2 DEF BeginSamePage, NeedsPage
    <3>2. currentPage \in DOMAIN pages
      BY <1>types, <3>1 DEF TypeOK
    <3>3. pages[currentPage].size \in Nat /\ currentOffset \in Nat
      BY <1>types, <3>2, ElementTypes DEF TypeOK
    <3> QED
      BY <3>1, <3>2, <3>3
  <2>2. /\ DOMAIN pages' = DOMAIN pages
        /\ \A p \in DOMAIN pages : pages'[p].size = pages[p].size
        /\ \A p \in DOMAIN pages : p # currentPage => pages'[p] = pages[p]
        /\ Len(pages') = Len(pages)
        /\ pages' \in Seq([size : Nat, prot : {"RW", "RX"}])
    BY <1>2, <1>types, <2>1, ProtectFacts DEF BeginSamePage
  <2>3. call' = Copying(currentPage, currentOffset, length)
        /\ call.phase = "idle"
        /\ UNCHANGED <<memory, currentPage, currentOffset, code>>
    BY <1>2 DEF BeginSamePage
  <2>4. TypeOK'
    BY <1>types, <2>1, <2>2, <2>3 DEF TypeOK, Copying
  <2>5. PageSizes'
    BY <2>2 DEF IInv, PageSizes
  <2>6. CodeInPage' /\ CodeIntact'
    BY <2>2, <2>3 DEF IInv, CodeInPage, CodeIntact
  <2>7. WritesInPage'
    BY <2>2, <2>3 DEF IInv, WritesInPage
  <2>8. OnlyTargetWritable'
    BY <2>2, <2>3 DEF IInv, OnlyTargetWritable, Copying
  <2>9. FreePart'
    BY <2>3 DEF FreePart, Copying
  <2>10. CallInv'
    <3>1. call.phase = "idle" /\ currentPage # 0 /\ currentOffset \in Nat
      BY <1>types, <2>1, <2>3 DEF TypeOK
    <3>2. currentOffset % 16 = 0
          /\ \A f \in DOMAIN code : code[f].page = currentPage =>
                code[f].offset + code[f].length <= currentOffset
      BY <3>1 DEF IInv, FreePart
    <3>3. call'.page = currentPage /\ call'.start = currentOffset
          /\ call'.total = length /\ call'.length = length
          /\ call'.iterator = currentOffset /\ call'.block = 0
      BY <2>3 DEF Copying
    <3> QED
      BY <2>1, <2>2, <2>3, <3>1, <3>2, <3>3 DEF CallInv
  <2> QED
    BY <2>4, <2>5, <2>6, <2>7, <2>8, <2>9, <2>10 DEF IInv
<1>3. ASSUME CopyBlock
      PROVE  IInv'
  <2>1. /\ call.phase = "copy" /\ call.length > BlockSize
        /\ Copy(BlockSize)
        /\ UNCHANGED <<pages, currentPage, currentOffset, code>>
    BY <1>3 DEF CopyBlock
  <2>2. /\ call' \in [phase : {"idle", "copy"}, page : Nat, start : Nat,
                      total : Nat, length : Nat, iterator : Nat, block : Nat]
        /\ call'.phase = "copy" /\ call'.page = call.page
        /\ call'.start = call.start /\ call'.total = call.total
        /\ call'.iterator = call.iterator + BlockSize
        /\ call'.length = call.length - BlockSize
        /\ call'.block = call.block + 1
    <3> DEFINE it == call.iterator + BlockSize
               len == call.length - BlockSize
               blk == call.block + 1
    <3>1. it \in Nat /\ len \in Nat /\ blk \in Nat
      BY <2>1, CallFacts
    <3>2. call' = [call EXCEPT !.iterator = it, !.length = len, !.block = blk]
      BY <1>3 DEF CopyBlock
    <3>3. call \in [phase : {"idle", "copy"}, page : Nat, start : Nat,
                   total : Nat, length : Nat, iterator : Nat, block : Nat]
      BY <1>types DEF TypeOK
    <3> HIDE DEF it, len, blk
    <3>4. /\ call' \in [phase : {"idle", "copy"}, page : Nat, start : Nat,
                        total : Nat, length : Nat, iterator : Nat, block : Nat]
          /\ call'.phase = call.phase /\ call'.page = call.page
          /\ call'.start = call.start /\ call'.total = call.total
          /\ call'.iterator = it /\ call'.length = len /\ call'.block = blk
      BY <3>1, <3>2, <3>3
    <3> QED
      BY <2>1, <3>4 DEF it, len, blk
  <2>3. /\ memory' = [a \in DOMAIN memory' |-> memory'[a]]
        /\ \A a \in DOMAIN memory' :
             /\ a \in Nat \X Nat /\ memory'[a] \in Byte
             /\ a[1] \in DOMAIN pages /\ a[2] \in 0 .. pages[a[1]].size - 1
        /\ \A f \in DOMAIN code : \A k \in 0 .. code[f].length - 1 :
             /\ <<code[f].page, code[f].offset + k>> \in DOMAIN memory'
             /\ memory'[<<code[f].page, code[f].offset + k>>] = <<f, k>>
        /\ \A k \in 0 .. call.iterator + BlockSize - call.start - 1 :
             /\ <<call.page, call.start + k>> \in DOMAIN memory'
             /\ memory'[<<call.page, call.start + k>>] = <<Len(code) + 1, k>>
    <3>1. BlockSize \in Nat /\ BlockSize <= call.length
      BY <2>1, CallFacts
    <3> QED
      BY <2>1, <3>1, CopyFacts
  <2>4. TypeOK'
    BY <1>types, <2>1, <2>2, <2>3 DEF TypeOK
  <2>5. PageSizes' /\ CodeInPage'
    BY <2>1 DEF IInv, PageSizes, CodeInPage
  <2>6. WritesInPage' /\ CodeIntact'
    BY <2>1, <2>3 DEF WritesInPage, CodeIntact
  <2>7. OnlyTargetWritable'
    BY <2>1, <2>2 DEF IInv, OnlyTargetWritable
  <2>8. FreePart'
    BY <2>2 DEF FreePart
  <2>9. CallInv'
    <3>1. /\ call.iterator + BlockSize = call.start + (call.block + 1) * BlockSize
          /\ call.iterator + BlockSize + (call.length - BlockSize)
             = call.start + call.total
      <4>1. (call.block + 1) * BlockSize = call.block * BlockSize + BlockSize
        BY <2>1, CallFacts
      <4> QED
        BY <2>1, <4>1, CallFacts
    <3>2. /\ call.page = currentPage /\ call.page \in DOMAIN pages
          /\ call.start % 16 = 0
          /\ call.start + call.total <= pages[call.page].size
          /\ \A f \in DOMAIN code :
               code[f].page = call.page =>
                 code[f].offset + code[f].length <= call.start
      BY <2>1 DEF IInv, CallInv
    <3>3. /\ call'.iterator = call'.start + call'.block * BlockSize
          /\ call'.iterator + call'.length = call'.start + call'.total
      BY <2>2, <3>1
    <3>4. /\ call'.page = currentPage' /\ call'.page \in DOMAIN pages'
          /\ call'.start % 16 = 0
          /\ call'.start + call'.total <= pages'[call'.page].size
          /\ \A f \in DOMAIN code' :
               code'[f].page = call'.page =>
                 code'[f].offset + code'[f].length <= call'.start
      BY <2>1, <2>2, <3>2
    <3>5. \A k \in 0 .. call'.iterator - call'.start - 1 :
             /\ <<call'.page, call'.start + k>> \in DOMAIN memory'
             /\ memory'[<<call'.page, call'.start + k>>] = <<Len(code') + 1, k>>
      <4>1. call'.iterator - call'.start - 1
              = call.iterator + BlockSize - call.start - 1
        <5>1. call.iterator \in Nat /\ call.start \in Nat
          BY <2>1, CallFacts
        <5> QED
          BY <2>2, <5>1
      <4>3. code' = code
        BY <2>1
      <4>2. \A k \in 0 .. call.iterator + BlockSize - call.start - 1 :
             /\ <<call.page, call.start + k>> \in DOMAIN memory'
             /\ memory'[<<call.page, call.start + k>>] = <<Len(code) + 1, k>>
        BY <2>3
      <4> QED
        BY <2>2, <4>1, <4>2, <4>3
    <3> QED
      BY <3>3, <3>4, <3>5 DEF CallInv
  <2> QED
    BY <2>4, <2>5, <2>6, <2>7, <2>8, <2>9 DEF IInv
<1>4. ASSUME Finish
      PROVE  IInv'
  <2> DEFINE new == [page |-> call.page, offset |-> call.start,
                     length |-> call.total]
             fn == Len(code) + 1
  <2>1. /\ call.phase = "copy" /\ Copy(call.length)
        /\ pages' = Protect(call.page, "RX")
        /\ currentOffset' = call.start + RoundUp(call.total)
        /\ code' = Append(code, new)
        /\ call' = Idle
        /\ currentPage' = currentPage
    BY <1>4 DEF Finish
  <2>2. /\ call.page \in DOMAIN pages /\ call.page \in Nat
        /\ call.page = currentPage
        /\ call.start \in Nat /\ call.total \in Nat /\ call.length \in Nat
        /\ call.iterator \in Nat
        /\ call.start % 16 = 0
        /\ call.start + call.total <= pages[call.page].size
        /\ pages[call.page].size \in Nat
        /\ call.iterator + call.length = call.start + call.total
    BY <2>1, CallFacts
  <2>3. /\ pages' \in Seq([size : Nat, prot : {"RW", "RX"}])
        /\ DOMAIN pages' = DOMAIN pages
        /\ Len(pages') = Len(pages)
        /\ pages'[call.page] = [size |-> pages[call.page].size, prot |-> "RX"]
        /\ \A q \in DOMAIN pages :
             /\ pages'[q].size = pages[q].size
             /\ q # call.page => pages'[q] = pages[q]
    BY <1>types, <2>1, <2>2, ProtectFacts
  <2>4. /\ memory' = [a \in DOMAIN memory' |-> memory'[a]]
        /\ \A a \in DOMAIN memory' :
             /\ a \in Nat \X Nat /\ memory'[a] \in Byte
             /\ a[1] \in DOMAIN pages /\ a[2] \in 0 .. pages[a[1]].size - 1
        /\ \A f \in DOMAIN code : \A k \in 0 .. code[f].length - 1 :
             /\ <<code[f].page, code[f].offset + k>> \in DOMAIN memory'
             /\ memory'[<<code[f].page, code[f].offset + k>>] = <<f, k>>
        /\ \A k \in 0 .. call.total - 1 :
             /\ <<call.page, call.start + k>> \in DOMAIN memory'
             /\ memory'[<<call.page, call.start + k>>] = <<Len(code) + 1, k>>
    <3>1. call.length <= call.length
      BY <2>2
    <3>2. call.iterator + call.length - call.start - 1 = call.total - 1
      BY <2>2
    <3>3. \A k \in 0 .. call.iterator + call.length - call.start - 1 :
             /\ <<call.page, call.start + k>> \in DOMAIN memory'
             /\ memory'[<<call.page, call.start + k>>] = <<Len(code) + 1, k>>
      BY <2>1, <2>2, <3>1, CopyFacts
    <3>4. \A k \in 0 .. call.total - 1 :
             /\ <<call.page, call.start + k>> \in DOMAIN memory'
             /\ memory'[<<call.page, call.start + k>>] = <<Len(code) + 1, k>>
      BY <3>2, <3>3
    <3>5. /\ memory' = [a \in DOMAIN memory' |-> memory'[a]]
          /\ \A a \in DOMAIN memory' :
             /\ a \in Nat \X Nat /\ memory'[a] \in Byte
             /\ a[1] \in DOMAIN pages /\ a[2] \in 0 .. pages[a[1]].size - 1
          /\ \A f \in DOMAIN code : \A k \in 0 .. code[f].length - 1 :
             /\ <<code[f].page, code[f].offset + k>> \in DOMAIN memory'
             /\ memory'[<<code[f].page, code[f].offset + k>>] = <<f, k>>
      BY <2>1, <2>2, <3>1, CopyFacts
    <3> QED
      BY <3>4, <3>5
  <2>5. /\ code' \in Seq([page : Nat, offset : Nat, length : Nat])
        /\ fn \in Nat
        /\ DOMAIN code' = DOMAIN code \cup {fn}
        /\ code'[fn] = new
        /\ code'[fn].page = call.page /\ code'[fn].offset = call.start
        /\ code'[fn].length = call.total
        /\ \A f \in DOMAIN code : code'[f] = code[f]
    <3> DEFINE Codes == [page : Nat, offset : Nat, length : Nat]
    <3>1. code \in Seq(Codes) /\ new \in Codes
      BY <1>types, <2>2 DEF TypeOK
    <3> HIDE DEF Codes, new
    <3>2. /\ code' \in Seq(Codes)
          /\ fn \in Nat
          /\ DOMAIN code' = DOMAIN code \cup {fn}
          /\ code'[fn] = new
          /\ \A f \in DOMAIN code : code'[f] = code[f]
      BY <2>1, <3>1, AppendFacts
    <3> QED
      BY <3>2 DEF Codes, new
  <2>6. /\ call'.phase = "idle"
        /\ call' \in [phase : {"idle", "copy"}, page : Nat, start : Nat,
                      total : Nat, length : Nat, iterator : Nat, block : Nat]
    BY <2>1 DEF Idle
  <2>7. /\ RoundUp(call.total) \in Nat
        /\ RoundUp(call.total) >= call.total
        /\ RoundUp(call.total) % 16 = 0
        /\ call.start + RoundUp(call.total) <= pages[call.page].size
        /\ (call.start + RoundUp(call.total)) % 16 = 0
    <3> DEFINE end == pages[call.page].size - call.start
    <3>1. pages[call.page].size % 16 = 0
      BY <2>2 DEF IInv, PageSizes
    <3>2. end \in Nat /\ end % 16 = 0 /\ call.total <= end
      BY <2>2, <3>1
    <3>3. /\ RoundUp(call.total) \in Nat
          /\ RoundUp(call.total) >= call.total
          /\ RoundUp(call.total) % 16 = 0
          /\ RoundUp(call.total) <= end
      BY <2>2, <3>2, RoundUpFits
    <3> QED
      BY <2>2, <3>3
  <2>8. TypeOK'
    <3>1. currentPage' \in 0 .. Len(pages')
      BY <1>types, <2>1, <2>3 DEF TypeOK
    <3>2. currentOffset' \in Nat
      <4>1. RoundUp(call.total) \in Nat /\ call.start \in Nat
        BY <2>2, <2>7
      <4> QED
        BY <2>1, <4>1
    <3> QED
      BY <2>3, <2>4, <2>5, <2>6, <3>1, <3>2 DEF TypeOK
  <2>9. PageSizes'
    BY <2>3 DEF IInv, PageSizes
  <2>10. FreePart'
    <3>1. \A f \in DOMAIN code' :
            code'[f].page = currentPage' =>
              code'[f].offset + code'[f].length <= currentOffset'
      <4> TAKE f \in DOMAIN code'
      <4>1. CASE f = fn
        BY <2>1, <2>2, <2>5, <2>7, <4>1
      <4>2. CASE f \in DOMAIN code
        <5>1. code'[f] = code[f] /\ code[f].offset \in Nat /\ code[f].length \in Nat
          BY <1>types, <2>5, <4>2, ElementTypes
        <5>2. code[f].page = call.page =>
                code[f].offset + code[f].length <= call.start
          BY <2>1, <4>2 DEF IInv, CallInv
        <5>3. RoundUp(call.total) \in Nat /\ call.start \in Nat
          BY <2>2, <2>7
        <5>4. currentOffset' \in Nat /\ call.start <= currentOffset'
          BY <2>1, <5>3
        <5>5. code[f].page = call.page =>
                code[f].offset + code[f].length <= currentOffset'
          BY <2>2, <5>1, <5>2, <5>3, <5>4
        <5> QED
          BY <2>1, <2>2, <5>1, <5>5
      <4> QED
        BY <2>5, <4>1, <4>2
    <3> QED
      BY <2>1, <2>2, <2>3, <2>7, <3>1 DEF FreePart
  <2>11. CallInv'
    BY <2>6 DEF CallInv
  <2>12. CodeInPage'
    <3> SUFFICES ASSUME NEW f \in DOMAIN code'
                 PROVE  /\ code'[f].page \in DOMAIN pages'
                        /\ code'[f].offset % 16 = 0
                        /\ code'[f].offset + code'[f].length
                           <= pages'[code'[f].page].size
      BY DEF CodeInPage
    <3>1. CASE f = fn
      BY <2>2, <2>3, <2>5, <3>1
    <3>2. CASE f \in DOMAIN code
      <4>1. /\ code[f].page \in DOMAIN pages /\ code[f].offset % 16 = 0
            /\ code[f].offset + code[f].length <= pages[code[f].page].size
        BY <3>2 DEF IInv, CodeInPage
      <4>2. code'[f] = code[f] /\ pages'[code[f].page].size = pages[code[f].page].size
        BY <2>3, <2>5, <3>2, <4>1
      <4> QED
        BY <2>3, <4>1, <4>2
    <3> QED
      BY <2>5, <3>1, <3>2
  <2>13. WritesInPage'
    BY <2>3, <2>4 DEF WritesInPage
  <2>14. CodeIntact'
    <3> SUFFICES ASSUME NEW f \in DOMAIN code',
                        NEW k \in 0 .. code'[f].length - 1
                 PROVE  /\ <<code'[f].page, code'[f].offset + k>> \in DOMAIN memory'
                        /\ memory'[<<code'[f].page, code'[f].offset + k>>] = <<f, k>>
      BY DEF CodeIntact
    <3>1. CASE f = fn
      BY <2>4, <2>5, <3>1
    <3>2. CASE f \in DOMAIN code
      BY <2>4, <2>5, <3>2
    <3> QED
      BY <2>5, <3>1, <3>2
  <2>15. OnlyTargetWritable'
    <3> SUFFICES ASSUME NEW p \in DOMAIN pages', pages'[p].prot = "RW"
                 PROVE  FALSE
      BY DEF OnlyTargetWritable
    <3>1. CASE p = call.page
      BY <2>3, <3>1
    <3>2. CASE p # call.page
      <4>1. p \in DOMAIN pages /\ pages[p].prot = "RW"
        BY <2>3, <3>2
      <4> QED
        BY <3>2, <4>1 DEF IInv, OnlyTargetWritable
    <3> QED
      BY <3>1, <3>2
  <2> QED
    BY <2>8, <2>9, <2>10, <2>11, <2>12, <2>13, <2>14, <2>15 DEF IInv
<1>5. CASE UNCHANGED vars
  <2>1. /\ pages' = pages /\ memory' = memory /\ currentPage' = currentPage
        /\ currentOffset' = currentOffset /\ code' = code /\ call' = call
    BY <1>5 DEF vars
  <2>2. TypeOK' /\ PageSizes' /\ FreePart' /\ CodeInPage'
    BY <2>1 DEF IInv, TypeOK, PageSizes, FreePart, CodeInPage
  <2>3. CallInv'
    BY <2>1 DEF IInv, CallInv
  <2>4. WritesInPage' /\ CodeIntact' /\ OnlyTargetWritable'
    BY <2>1 DEF IInv, WritesInPage, CodeIntact, OnlyTargetWritable
  <2> QED
    BY <2>2, <2>3, <2>4 DEF IInv
<1> QED
  BY <1>1, <1>2, <1>3, <1>4, <1>5 DEF Next

(* The inductive invariant holds of every behaviour of the allocator. *)
LEMMA Inductive == Spec => []IInv
BY InitIInv, NextIInv, PTL DEF Spec

(***************************************************************************)
(* The variables of the allocator keep their types.                        *)
(***************************************************************************)
THEOREM TypeCorrect == Spec => []TypeOK
<1>1. IInv => TypeOK
  BY DEF IInv
<1> QED
  BY <1>1, Inductive, PTL

(***************************************************************************)
(* However many functions are compiled, of whatever lengths, each keeps    *)
(* the machine code emitted for it.                                        *)
(***************************************************************************)
THEOREM CodeStaysIntact == Spec => []CodeIntact
<1>1. IInv => CodeIntact
  BY DEF IInv
<1> QED
  BY <1>1, Inductive, PTL

(***************************************************************************)
(* Every returned address is aligned and its code inside one page, and the *)
(* copy never writes outside the pages.                                    *)
(***************************************************************************)
THEOREM CodeStaysInPage == Spec => []StaysInPage
<1>1. IInv => StaysInPage
  BY DEF IInv, StaysInPage
<1> QED
  BY <1>1, Inductive, PTL

(***************************************************************************)
(* Between calls nothing is writable; during one, only its own page is.    *)
(***************************************************************************)
THEOREM WritableOnlyWhileCopying == Spec => []OnlyTargetWritable
<1>1. IInv => OnlyTargetWritable
  BY DEF IInv
<1> QED
  BY <1>1, Inductive, PTL

=============================================================================
