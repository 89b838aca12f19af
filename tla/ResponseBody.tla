---------------------------- MODULE ResponseBody ----------------------------
(***************************************************************************)
(* hello-libcurl.c: one GET request whose body a callback collects in a    *)
(* growing buffer.  libcurl (external) calls the callback for each piece of*)
(* the body and gives up when it returns less than the piece's size.       *)
(***************************************************************************)
EXTENDS ResourceLedger, FiniteSetsExt

CONSTANTS ChunkSizes,   \* lengths of the pieces
          MaxChunks     \* bound: how many pieces the body has

ASSUME ResponseAssumption == ChunkSizes \subseteq Nat \ {0} /\ MaxChunks \in Nat

VARIABLES size, capacity,   \* struct buffer; its data is NULL when block = 0
          block,            \* the length of the allocated block
          delivered,        \* bytes the server has sent
          chunks,           \* pieces it has sent
          text,             \* bytes in front of the first NUL byte, or all
          printed,          \* bytes of the body main has printed
          overrun,          \* a byte was written outside the block
          overread          \* bytes behind the body were read

responseVars == << size, capacity, block, delivered, chunks, text, printed, overrun,
                   overread >>

Body == << "body", 1 >>

ResponseInit ==
  /\ size = 0 /\ capacity = 0 /\ block = 0
  /\ delivered = 0 /\ chunks = 0 /\ text = 0 /\ printed = 0
  /\ overrun = FALSE /\ overread = FALSE

\* init_curl_or_exit.
global_init ==
  /\ At("global_init")
  /\ \/ GoTo("exited") /\ KeepsAll
     \/ GoTo("easy_init") /\ Acquire(<< "global", 1 >>)
  /\ UNCHANGED << rc, responseVars >>

easy_init ==
  /\ At("easy_init")
  /\ \/ GoTo("easy_init_failed") /\ KeepsAll
     \/ GoTo("perform") /\ Acquire(<< "easy", 1 >>)
  /\ UNCHANGED << rc, responseVars >>

\* The handle was not given: curl_global_cleanup, exit(1).
easy_init_failed ==
  /\ At("easy_init_failed") /\ GoTo("exited")
  /\ Release(<< "global", 1 >>)
  /\ UNCHANGED << rc, responseVars >>

grow_factor == 8

new_capacity(chunk_size) == (capacity + chunk_size) * grow_factor

\* memcpy behind what is there; the callback returns chunk_size.
Copies(length, chunk_size) ==
  /\ block' = length
  /\ size' = size + chunk_size
  /\ overrun' = (overrun \/ size' > length)
  /\ UNCHANGED << step, rc >>

\* Mutated form of GivesUp: the callback forgets to report that there was no memory.
GivesUp_silently ==
  /\ block' = 0
  /\ IF block = 0 THEN KeepsAll ELSE Lose(Body)
  /\ UNCHANGED << step, rc, size, capacity, overrun >>

\* realloc returned NULL: the only pointer to the old block is overwritten, the
\* callback returns 0, and curl_easy_perform fails.
GivesUp ==
  /\ block' = 0
  /\ IF block = 0 THEN KeepsAll ELSE Lose(Body)
  /\ GoTo("buffer_free") /\ rc' = 1
  /\ UNCHANGED << size, capacity, overrun >>

\* A piece arrives whose first NUL byte has the offset nul (chunk_size if it has none).
Delivers(chunk_size, nul) ==
  /\ delivered' = delivered + chunk_size
  /\ text' = IF text = delivered THEN text + nul ELSE text

res_body_write_callback ==
  /\ At("perform") /\ chunks < MaxChunks
  /\ chunks' = chunks + 1
  /\ UNCHANGED << printed, overread >>
  /\ \E chunk_size \in ChunkSizes :
       /\ \E nul \in 0 .. chunk_size : Delivers(chunk_size, nul)
       /\ \/ /\ size + chunk_size > capacity
             /\ capacity' = new_capacity(chunk_size)
             /\ Copies(capacity', chunk_size)
             /\ IF block = 0 THEN Acquire(Body) ELSE KeepsAll
          \/ /\ size + chunk_size > capacity
             /\ GivesUp
          \/ /\ size + chunk_size <= capacity
             /\ Copies(block, chunk_size)
             /\ KeepsAll /\ UNCHANGED capacity

\* printf("%.*s", (int) size, data): up to the first NUL byte, at most as many bytes
\* as the precision says.  A negative one counts as none, and the output then goes on
\* behind the body if there is no NUL byte in it.
PrintsBody ==
  \/ /\ ToInt(size) >= 0
     /\ printed' = Min({text, ToInt(size)})
     /\ UNCHANGED overread
  \/ /\ ToInt(size) < 0
     /\ printed' = text
     /\ overread' = (text = size)

\* curl_easy_perform returns: the body is complete and main prints it, or the
\* transfer failed.
curl_easy_perform ==
  /\ At("perform") /\ GoTo("buffer_free")
  /\ \/ rc' = 0 /\ PrintsBody
     \/ rc' = 1 /\ UNCHANGED << printed, overread >>
  /\ KeepsAll /\ UNCHANGED << size, capacity, block, delivered, chunks, text, overrun >>

\* buffer_free and the two clean-ups, the same on both paths of main.
buffer_free ==
  /\ At("buffer_free") /\ GoTo("easy_cleanup")
  /\ IF block = 0 THEN KeepsAll ELSE Release(Body)
  /\ block' = 0 /\ size' = 0 /\ capacity' = 0
  /\ UNCHANGED << rc, delivered, chunks, text, printed, overrun, overread >>

curl_easy_cleanup ==
  /\ At("easy_cleanup") /\ GoTo("global_cleanup")
  /\ Release(<< "easy", 1 >>)
  /\ UNCHANGED << rc, responseVars >>

curl_global_cleanup ==
  /\ At("global_cleanup") /\ GoTo("end")
  /\ Release(<< "global", 1 >>)
  /\ UNCHANGED << rc, responseVars >>

CurlMain ==
  \/ global_init \/ easy_init \/ easy_init_failed \/ res_body_write_callback
  \/ curl_easy_perform \/ buffer_free \/ curl_easy_cleanup \/ curl_global_cleanup
=============================================================================
