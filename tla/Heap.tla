-------------------------------- MODULE Heap --------------------------------
(***************************************************************************)
(* The allocator behind the crypto library (lib/allocator): a heap is a    *)
(* buffer cut into blocks, each behind a header; the headers form a list   *)
(* in address order and the free ones a second list.  One PE and one heap: *)
(* a heap belongs to a REC or to the boot code and is used only by the PE  *)
(* it is assigned to, so the operations of a heap are a sequence.  Headers *)
(* are kept with the pointers the code keeps; addresses count bytes from   *)
(* the start of the buffer.                                                *)
(***************************************************************************)
EXTENDS Naturals, FiniteSets

CONSTANTS
  NULL,       \* the null pointer
  HdrSize,    \* sizeof(struct memory_header_s)
  Align,      \* MBEDTLS_MEMORY_ALIGN_MULTIPLE
  Width,      \* number of values of a size_t: 2^64 in the code
  Counts,     \* values of n the clients of calloc use
  Sizes,      \* values of size the clients of calloc use
  Buffers     \* the buffers a heap is made of: [len, skew], skew = buf % Align

VARIABLES
  ctx,        \* ctx_per_cpu: whether the heap is assigned to this PE
  heap,       \* struct buffer_alloc_ctx with the headers in its buffer
  live        \* the pointers calloc has returned and free has not seen, with
              \* the number of bytes that were asked for

vars == <<ctx, heap, live>>

\* A heap after memset, before mbedtls_memory_buffer_alloc_init.
NoHeap == [len |-> 0, first |-> NULL, first_free |-> NULL, hdr |-> <<>>]

\* A header the code has cleared: its magic numbers are gone.
Cleared == [magic |-> FALSE, size |-> 0, alloc |-> 0, prev |-> NULL, next |-> NULL,
            prev_free |-> NULL, next_free |-> NULL]

Header(size, prev, next, prev_free, next_free) ==
  [magic |-> TRUE, size |-> size, alloc |-> 0, prev |-> prev, next |-> next,
   prev_free |-> prev_free, next_free |-> next_free]

\* ptr->field = value, when ptr is not NULL.
Put(h, ptr, field, value) ==
  IF ptr = NULL THEN h ELSE [h EXCEPT !.hdr[ptr] = [@ EXCEPT ![field] = value]]

verify_header(m) ==
  /\ m.magic
  /\ m.alloc <= 1
  /\ m.prev = NULL \/ m.prev # m.next
  /\ m.prev_free = NULL \/ m.prev_free # m.next_free

\* The blocks in the order of a list: `at[k]` is the k-th from `from`.
Chain(h, from, link) ==
  LET at[k \in 1..(h.len + 1)] ==
        IF k = 1 THEN from
        ELSE IF at[k - 1] = NULL THEN NULL ELSE h.hdr[at[k - 1]][link]
  IN  at

InChain(h, from, link) ==
  {Chain(h, from, link)[k] : k \in 1..(h.len + 1)} \ {NULL}

verify_chain(h) ==
  /\ h.first # NULL /\ h.hdr[h.first].prev = NULL
  /\ \A b \in InChain(h, h.first, "next") :
       /\ verify_header(h.hdr[b])
       /\ h.hdr[b].next # NULL => h.hdr[h.hdr[b].next].prev = b

Init == ctx = FALSE /\ heap = NoHeap /\ live = {}

-----------------------------------------------------------------------------
(***************************************************************************)
(* calloc(n, size) refuses nothing at all, a product that does not fit a   *)
(* size_t, and a length that rounding up would wrap.                       *)
(***************************************************************************)
Refused(n, size) ==
  LET len == (n * size) % Width
  IN  n = 0 \/ size = 0 \/ len \div n # size \/ len > Width - Align

\* The number of bytes calloc looks for: rounded up to the alignment.
RoundedLen(n, size) ==
  LET len == (n * size) % Width
      pad == IF len % Align = 0 THEN 0 ELSE Align - (len % Align)
  IN  (len + pad) % Width

\* The first block of the free list that is large enough, or NULL.
FirstFit(h, len) ==
  LET at   == Chain(h, h.first_free, "next_free")
      fits == {k \in DOMAIN at : at[k] # NULL /\ h.hdr[at[k]].size >= len}
  IN  IF fits = {} THEN NULL ELSE at[CHOOSE k \in fits : \A j \in fits : k <= j]

\* Takes block b out of the free list.
Unlink(h, b) ==
  LET m  == h.hdr[b]
      h1 == IF m.prev_free # NULL THEN Put(h, m.prev_free, "next_free", m.next_free)
            ELSE [h EXCEPT !.first_free = m.next_free]
  IN  Put(h1, m.next_free, "prev_free", m.prev_free)

\* Puts block b where block `old` is in the free list.
Replace(h, old, b) ==
  LET m  == h.hdr[old]
      h1 == Put(Put(h, b, "prev_free", m.prev_free), b, "next_free", m.next_free)
      h2 == IF m.prev_free # NULL THEN Put(h1, m.prev_free, "next_free", b)
            ELSE [h1 EXCEPT !.first_free = b]
  IN  Put(h2, m.next_free, "prev_free", b)

\* Block b is handed out as a whole.
TakeWhole(h, b) ==
  LET h1 == Unlink(h, b)
  IN  [h1 EXCEPT !.hdr[b] = [@ EXCEPT !.alloc = 1, !.prev_free = NULL, !.next_free = NULL]]

\* Block b is cut: its first len bytes are handed out, the rest is a new block.
Split(h, b, len) ==
  LET m   == h.hdr[b]
      new == b + HdrSize + len
      h1  == [h EXCEPT !.hdr[new] = Header(m.size - len - HdrSize, b, m.next, NULL, NULL)]
      h2  == Replace(Put(h1, m.next, "prev", new), b, new)
  IN  [h2 EXCEPT !.hdr[b] = [@ EXCEPT !.alloc = 1, !.size = len, !.next = new,
                                      !.prev_free = NULL, !.next_free = NULL]]

buffer_alloc_calloc_with_heap(n, size) ==
  LET len == RoundedLen(n, size)
      b   == FirstFit(heap, len)
  IN  IF heap.first = NULL \/ Refused(n, size) \/ b = NULL
      THEN UNCHANGED <<heap, live>>                             \* NULL
      ELSE /\ heap' = IF heap.hdr[b].size - len < HdrSize + Align
                      THEN TakeWhole(heap, b) ELSE Split(heap, b, len)
           /\ live' = live \cup {[ptr |-> b + HdrSize, bytes |-> n * size]}

buffer_alloc_calloc(n, size) ==
  /\ ctx
  /\ buffer_alloc_calloc_with_heap(n, size)
  /\ UNCHANGED ctx

-----------------------------------------------------------------------------
\* Block `old` behind b becomes part of b; its header is cleared.
Swallow(h, b, old) ==
  LET m == h.hdr[old]
      h1 == [h EXCEPT !.hdr[b] = [@ EXCEPT !.size = @ + HdrSize + m.size, !.next = m.next],
                      !.hdr[old] = Cleared]
  IN  Put(h1, m.next, "prev", b)

\* Mutant of MergeAfter: b stays in the free list at its old place as well.
MergeAfterTwice(h, b) ==
  LET old == h.hdr[b].next
  IN  IF old = NULL \/ h.hdr[old].alloc # 0 THEN h
      ELSE Swallow(Replace(h, old, b), b, old)

\* Regroup with the block after: b takes its place in the free list.
MergeAfter(h, b) ==
  LET old == h.hdr[b].next
      out == IF h.hdr[b].prev_free # NULL \/ h.hdr[b].next_free # NULL
             THEN Unlink(h, b) ELSE h
  IN  IF old = NULL \/ h.hdr[old].alloc # 0 THEN h
      ELSE Swallow(Replace(out, old, b), b, old)

\* Prepend to the free list.
Prepend(h, b) ==
  LET h1 == Put(Put(h, b, "next_free", h.first_free), h.first_free, "prev_free", b)
  IN  [h1 EXCEPT !.first_free = b]

(***************************************************************************)
(* free: the block is regrouped with the one before, then with the one     *)
(* after, and goes to the head of the free list only if it was not         *)
(* regrouped.  A pointer outside of the heap, or whose header is not that  *)
(* of an allocated block, trips an assertion.                              *)
(***************************************************************************)
buffer_alloc_free_with_heap(p) ==
  LET b    == p.ptr - HdrSize
      m    == heap.hdr[b]
      h0   == Put(heap, b, "alloc", 0)
      back == m.prev # NULL /\ heap.hdr[m.prev].alloc = 0
      c    == IF back THEN m.prev ELSE b
      h1   == IF back THEN Swallow(h0, c, b) ELSE h0
      h2   == MergeAfter(h1, c)
  IN  /\ heap' = IF ~back /\ h2 = h1 THEN Prepend(h1, c) ELSE h2
      /\ live' = live \ {p}

buffer_alloc_free ==
  /\ ctx
  /\ \E p \in live : buffer_alloc_free_with_heap(p)
  /\ UNCHANGED ctx

(***************************************************************************)
(* mbedtls_memory_buffer_alloc_init: the heap is one free block.  Blocks   *)
(* that were handed out before are forgotten with the context that holds   *)
(* the pointers (attest_token_ctx_init).  A buffer too small for a block   *)
(* leaves a heap from which nothing can be allocated.                      *)
(***************************************************************************)
mbedtls_memory_buffer_alloc_init(buf) ==
  LET len == IF buf.skew = 0 THEN buf.len ELSE buf.len - (Align - buf.skew)
  IN  /\ ctx
      /\ heap' = IF buf.len < HdrSize + Align THEN NoHeap
                 ELSE [len |-> len, first |-> 0, first_free |-> 0,
                       hdr |-> [a \in 0..(len - 1) |->
                                  IF a = 0 THEN Header(len - HdrSize, NULL, NULL, NULL, NULL)
                                  ELSE Cleared]]
      /\ live' = {}
      /\ UNCHANGED ctx

\* Assigning twice is refused, unassigning twice trips an assertion.
buffer_alloc_ctx_assign   == ~ctx /\ ctx' = TRUE /\ UNCHANGED <<heap, live>>
buffer_alloc_ctx_unassign == ctx /\ ctx' = FALSE /\ UNCHANGED <<heap, live>>

Next ==
  \/ buffer_alloc_ctx_assign \/ buffer_alloc_ctx_unassign
  \/ \E buf \in Buffers : mbedtls_memory_buffer_alloc_init(buf)
  \/ \E n \in Counts, size \in Sizes : buffer_alloc_calloc(n, size)
  \/ buffer_alloc_free

Spec == Init /\ [][Next]_vars

-----------------------------------------------------------------------------
Blocks == InChain(heap, heap.first, "next")

FreeBlocks == {b \in Blocks : heap.hdr[b].alloc = 0}

\* Every byte of the heap is in one block, and no two free blocks touch.
BlocksTile ==
  /\ verify_chain(heap)
  /\ \A b \in Blocks :
       LET m == heap.hdr[b] IN
       /\ b + HdrSize + m.size = IF m.next = NULL THEN heap.len ELSE m.next
       /\ m.alloc = 0 /\ m.next # NULL => heap.hdr[m.next].alloc = 1

\* The free list holds the free blocks, each once, and can be walked both ways.
FreeListExact ==
  /\ InChain(heap, heap.first_free, "next_free") = FreeBlocks
  /\ Cardinality({k \in 1..(heap.len + 1) :
                    Chain(heap, heap.first_free, "next_free")[k] # NULL})
       = Cardinality(FreeBlocks)
  /\ \A b \in FreeBlocks :
       LET m == heap.hdr[b] IN
       IF m.prev_free = NULL THEN heap.first_free = b
       ELSE heap.hdr[m.prev_free].next_free = b

(***************************************************************************)
(* After any sequence of calls the two lists of memory_alloc.c agree with  *)
(* each other and with what the clients hold: the blocks tile the buffer,  *)
(* the free list is the free blocks, and every pointer handed out is an    *)
(* allocated block of its own, at least as long as was asked for, so that  *)
(* the memset of calloc and the client's writes stay inside of it.         *)
(***************************************************************************)
HeapExact ==
  heap.first # NULL =>
    /\ BlocksTile
    /\ FreeListExact
    /\ {p.ptr - HdrSize : p \in live} = Blocks \ FreeBlocks
    /\ \A p \in live : heap.hdr[p.ptr - HdrSize].size >= p.bytes
    /\ Cardinality(live) = Cardinality(Blocks \ FreeBlocks)
=============================================================================
