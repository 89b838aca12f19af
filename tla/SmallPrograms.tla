--------------------------- MODULE SmallPrograms ---------------------------
(***************************************************************************)
(* The small programs of the repository: defer, zlib, libcurl and the      *)
(* memory helpers of the SCGI backend, which are about getting resources   *)
(* and giving them back, and the hash table.  They are separate processes; *)
(* program says which one runs.                                            *)
(***************************************************************************)
EXTENDS DeferExample, Uncompress, ResponseBody, ScgiMemory, HashTable

VARIABLE program

resourceVars == << processVars, deferVars, uncompressVars, responseVars, memoryVars >>
vars == << program, resourceVars, tableVars >>

\* Where each program starts.
Start == [ defer |-> "malloc", defer_user |-> "scope", zlib |-> "uncompress",
           curl |-> "global_init", scgi_memory |-> "allocate", hash_table |-> "table" ]

Init ==
  /\ program \in DOMAIN Start /\ step = Start[program]
  /\ LedgerInit /\ DeferInit /\ UncompressInit /\ ResponseInit /\ MemoryInit
  /\ TableInit
  /\ program # "hash_table" => \A key \in Keys : hash[key] = Min(HashValues)

UsesResources ==
  /\ UNCHANGED << program, tableVars >>
  /\ \/ /\ program \in {"defer", "defer_user"} /\ (DeferMain \/ DeferUser)
        /\ UNCHANGED << uncompressVars, responseVars, memoryVars >>
     \/ /\ program = "zlib" /\ hbmo_uncompress
        /\ UNCHANGED << deferVars, responseVars, memoryVars >>
     \/ /\ program = "curl" /\ CurlMain
        /\ UNCHANGED << deferVars, uncompressVars, memoryVars >>
     \/ /\ program = "scgi_memory" /\ MemoryUser
        /\ UNCHANGED << deferVars, uncompressVars, responseVars >>

UsesTable == program = "hash_table" /\ TableNext /\ UNCHANGED << program, resourceVars >>

TableWorks == program = "hash_table" /\ Working /\ UNCHANGED << program, resourceVars >>

Next == UsesResources \/ UsesTable

\* A call of the hash table that has begun goes on; nothing else must happen.
Spec == Init /\ [][Next]_vars /\ WF_vars(TableWorks)

-----------------------------------------------------------------------------
Resource ==
  ({"x"} \X (1 .. BLOCKS + DEFER_ITEMS_MAX_SIZE))
    \cup ({"chunk", "input", "output", "global", "easy", "body"} \X {1})

Lifo == INSTANCE LifoResources

\* Whatever call fails, the programs give up what they hold in the reverse order
\* and nothing twice: the error paths of defer/main.c, the labels of
\* hbmo_uncompress and the clean-up of hello-libcurl.c implement LifoResources.
ReleasedInReverse == Lifo!Spec /\ [](~misused)

\* A program that returns, or exits on purpose, holds nothing any more, nor does
\* defer/main.c between its functions.  The one
\* block nobody can free is the body of a response whose buffer could not grow
\* (hello-libcurl.c:35), and then the program fails.  The deferred calls give up
\* everything their scope deferred, up to the size of their array.
NothingLeftHeld ==
  /\ step \in {"end", "exited"} \/ (step = "malloc" /\ allocated = 0) => held = << >>
  /\ lost # {} => lost = {Body} /\ rc = 1
  /\ step = "aborted" => Len(held) = DEFER_ITEMS_MAX_SIZE + 1

\* Where bytes can be missing although hbmo_uncompress returns 0.  All that was
\* compressed was given to fwrite, unless gzclose told of an input that was cut short,
\* which nobody looks at, or the size of the buffer is a multiple of 2^32 and gzread
\* is asked for nothing (zlib-uncompress.c:123).  And all that fwrite took is in the
\* file, unless fclose, whose result is not used either, could not write it.
OutputShortOnlyForCause ==
  program = "zlib" /\ step = "end" /\ rc = 0 =>
    /\ accepted = total \/ "gzclose" \in ignored \/ len = 0
    /\ on_disk = accepted \/ "fclose" \in ignored

\* hello-libcurl.c collects the whole body or fails: through every growth of the
\* buffer nothing is written outside the block, whatever the lengths of the pieces.
\* Of a body whose length is an int it prints all that stands in front of the first
\* NUL byte, which is all of it if there is none, and reads nothing behind it.  (A
\* longer one is cut, or read beyond its end: hello-libcurl.c:93.)
BodyPrinted ==
  /\ ~overrun
  /\ program = "curl" /\ rc = 0 =>
       /\ step = "buffer_free" => size = delivered
       /\ delivered <= INT_MAX => printed = text /\ ~overread

NoSizeWraps == \A k \in 1 .. Len(blocks) : blocks[k].size <= SIZE_MAX - BUFFER_LEN

\* Blocks of the fixed buffer allocator lie in the buffer and do not overlap (as
\* long as no size was so large that the sum wrapped), and a reader that is given
\* one of them writes into no other, however many digits arrive; when it succeeds
\* its block begins with exactly the digits in front of the delimiter.
BlocksStayApart ==
  NoSizeWraps =>
    /\ \A k \in 1 .. Len(blocks) :
         /\ BlockEnd(k) <= BUFFER_LEN
         /\ k > 1 => blocks[k].start = BlockEnd(k - 1)
    /\ \A a \in DOMAIN bytes :
         bytes[a] = "digit" <=> /\ step \in {"read", "end"} /\ program = "scgi_memory"
                                /\ a \in blocks[reader.block].start .. reader.cursor - 1
    /\ reader.block # 0 => reader.cursor <= BlockEnd(reader.block)
=============================================================================
