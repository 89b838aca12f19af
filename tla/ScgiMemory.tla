----------------------------- MODULE ScgiMemory -----------------------------
(***************************************************************************)
(* mem.c of the SCGI backend: an allocator over a fixed buffer and a reader*)
(* that stores digits from a socket in a block.  The server makes an       *)
(* allocator for every connection and allocates nothing from it yet, so    *)
(* the caller here is any: it allocates blocks of any size and then lets a *)
(* reader loose on one of them.  size_t wraps at SIZE_MAX + 1.             *)
(***************************************************************************)
EXTENDS ResourceLedger

CONSTANTS BUFFER_LEN, SIZE_MAX,
          Sizes,        \* what a caller asks for
          MaxDigits,    \* values of max_digits
          MaxBlocks     \* bound: how often the caller allocates

ASSUME ScgiMemoryAssumption ==
  /\ BUFFER_LEN \in Nat \ {0} /\ SIZE_MAX \in Nat /\ BUFFER_LEN <= SIZE_MAX
  /\ Sizes \subseteq 1 .. SIZE_MAX /\ MaxDigits \subseteq Nat

VARIABLES bytes,        \* the buffer
          used,         \* allocator->allocated
          blocks,       \* what malloc returned: start and size
          reader        \* block, cursor and max_digits of the buffered reader

memoryVars == << bytes, used, blocks, reader >>

size_t(n) == n % (SIZE_MAX + 1)

\* fixed_buffer_allocator_from_buffer or _from_slice, over bytes of no known value.
MemoryInit ==
  /\ bytes = [ a \in 0 .. BUFFER_LEN - 1 |-> "junk" ]
  /\ used = 0
  /\ blocks = << >>
  /\ reader = [ block |-> 0, cursor |-> 0, max_digits |-> 0 ]

\* malloc returns NULL.
Refused(size) == size_t(used + size) > BUFFER_LEN

fixed_buffer_allocator_malloc(size) ==
  /\ blocks' = Append(blocks, [ start |-> used, size |-> size ])
  /\ used' = size_t(used + size)

\* malloc, or calloc with its memset, as long as the caller likes.
allocate ==
  /\ At("allocate") /\ Len(blocks) < MaxBlocks
  /\ \E size \in Sizes :
       /\ ~Refused(size)
       /\ fixed_buffer_allocator_malloc(size)
       /\ \/ UNCHANGED bytes
          \/ bytes' = [ a \in DOMAIN bytes |->
                          IF a \in used .. used + size - 1 THEN "zero" ELSE bytes[a] ]
  /\ UNCHANGED << processVars, reader >>

\* buffered_reader_init over one of the blocks.
buffered_reader_init ==
  /\ At("allocate") /\ GoTo("read")
  /\ \E b \in 1 .. Len(blocks), max_digits \in MaxDigits :
       reader' = [ block |-> b, cursor |-> blocks[b].start, max_digits |-> max_digits ]
  /\ KeepsAll
  /\ UNCHANGED << rc, bytes, used, blocks >>

BlockEnd(b) == blocks[b].start + blocks[b].size

\* Mutated form of ReaderFull: the buffer end is not looked at.
ReaderFull_never == FALSE

\* The cursor is at the end of the reader's block.
ReaderFull == reader.cursor >= BlockEnd(reader.block)

\* digits_count is compared with max_digits and never counted up.
TooManyDigits == 0 >= reader.max_digits

\* A turn of buffered_reader_read_digits_until that ends it, by what recv_char
\* (external) gives it: nothing when the peer has left.
reader_returns ==
  /\ At("read") /\ GoTo("end")
  /\ \/ ReaderFull /\ rc' = 1
     \/ /\ ~ReaderFull
        /\ \E c \in {"delim", "other", "nothing", "digit"} :
             /\ c = "digit" => TooManyDigits
             /\ rc' = IF c = "delim" THEN 0 ELSE 1
  /\ KeepsAll
  /\ UNCHANGED << bytes, used, blocks, reader >>

\* A turn that stores a digit.  (A block whose size wrapped ends behind the
\* buffer; what is written there is not in the buffer.)
reader_stores ==
  /\ At("read") /\ ~ReaderFull /\ ~TooManyDigits
  /\ bytes' = [ a \in DOMAIN bytes |->
                 IF a = reader.cursor THEN "digit" ELSE bytes[a] ]
  /\ reader' = [ reader EXCEPT !.cursor = @ + 1 ]
  /\ UNCHANGED << processVars, used, blocks >>

MemoryUser ==
  allocate \/ buffered_reader_init \/ reader_returns \/ reader_stores
=============================================================================
