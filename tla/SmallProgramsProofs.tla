------------------------ MODULE SmallProgramsProofs ------------------------
(***************************************************************************)
(* Proofs about the small programs, for deferred-call stacks, buffers,     *)
(* files, bodies and blocks of any size.  The invariant says, for every    *)
(* step of every program, what it holds and in which order.                *)
(***************************************************************************)
EXTENDS SmallPrograms, SequenceTheorems, TLAPS

(* zlib: what is held at each label, and where the bytes of the file are.  *)

zlibHeld ==
  LET buffer == << "chunk", 1 >>
      file == << "input", 1 >>
  IN  /\ step \in {"uncompress", "end", "exited"} => held = << >>
      /\ step \in {"gzopen", "err_buffer_free"} => held = << buffer >>
      /\ step \in {"fopen", "err_close_input_file"} => held = << buffer, file >>
      /\ step \in {"gzread", "fwrite", "fclose", "err_close_output_file"} =>
           held = << buffer, file, << "output", 1 >> >>

zlibTypeOK ==
  /\ step \in {"uncompress", "gzopen", "fopen", "gzread", "fwrite", "fclose", "end",
               "exited", "err_close_output_file", "err_close_input_file",
               "err_buffer_free"}
  /\ buffer_size \in Nat /\ total \in Nat /\ readable \in Nat /\ chunk \in Nat
  /\ accepted \in Nat /\ on_disk \in Nat

\* A byte of a file that is not cut short is still in it, in the chunk or accepted.
zlibBytes ==
  /\ step \in {"uncompress", "gzopen", "fopen"} => accepted = 0
  /\ step \in {"fopen", "gzread"} /\ input # "truncated" => accepted + readable = total
  /\ step = "fwrite" /\ input # "truncated" => accepted + chunk + readable = total

\* What has been found out once the end of the file was reached.
zlibResult ==
  /\ rc = 0 =>
       /\ step \in {"fclose", "err_close_input_file", "err_buffer_free", "end"}
       /\ len # 0 => readable = 0
       /\ len # 0 /\ input # "truncated" => accepted = total
       /\ step # "fclose" => on_disk = accepted \/ "fclose" \in ignored
       /\ step \in {"err_buffer_free", "end"} /\ len # 0 /\ input = "truncated" =>
            "gzclose" \in ignored

zlibInv == zlibTypeOK /\ zlibHeld /\ lost = {} /\ zlibBytes /\ zlibResult

-----------------------------------------------------------------------------
(* curl: the body is in the block, the block is as long as capacity says   *)
(* whenever a piece may still come, and the text in it is no longer than it.*)

curlHeld ==
  LET library == << "global", 1 >>
      handle == << "easy", 1 >>
  IN  /\ step \in {"global_init", "end", "exited"} => held = << >>
      /\ step \in {"easy_init", "easy_init_failed", "global_cleanup"} =>
           held = << library >>
      /\ step = "easy_cleanup" => held = << library, handle >>
      /\ step \in {"perform", "buffer_free"} =>
           held = IF block = 0 THEN << library, handle >>
                               ELSE << library, handle, Body >>

curlTypeOK ==
  /\ step \in {"global_init", "easy_init", "easy_init_failed", "perform", "buffer_free",
               "easy_cleanup", "global_cleanup", "end", "exited"}
  /\ size \in Nat /\ capacity \in Nat /\ block \in Nat /\ delivered \in Nat
  /\ text \in Nat

curlBytes ==
  /\ ~overrun
  /\ step \in {"global_init", "easy_init"} => size = 0 /\ delivered = 0 /\ capacity = 0 /\ block = 0
  /\ text <= delivered
  /\ step = "perform" => size = delivered /\ block = capacity /\ size <= block
  /\ step \in {"global_init", "easy_init", "easy_init_failed", "perform"} =>
       lost = {} /\ rc = -1 /\ ~overread
  /\ rc = 0 =>
       /\ step = "buffer_free" => size = delivered
       /\ delivered <= INT_MAX => printed = text /\ ~overread
  /\ lost # {} => lost = {Body} /\ rc = 1

curlInv == curlTypeOK /\ curlHeld /\ curlBytes

-----------------------------------------------------------------------------
(* defer: block n is the n-th held, and the frees that are due are those of *)
(* the blocks held, the last first.                                         *)

BlocksInOrder == \A n \in 1 .. Len(held) : held[n] = Block(n)

FreesInReverse ==
  /\ Len(frees) = Len(held)
  /\ \A n \in 1 .. Len(frees) : frees[n] = Len(held) + 1 - n

ItemsAreHeld ==
  /\ Len(items) = Len(held)
  /\ \A n \in 1 .. Len(items) : items[n].block = n

deferTypeOK ==
  /\ step \in {"malloc", "free", "scope", "calls", "aborted", "end"}
  /\ function \in {Functions[n] : n \in 1 .. 3}
  /\ done \in Nat /\ allocated \in 0 .. BLOCKS
  /\ frees \in Seq(Nat) /\ items \in Seq([ kind : KINDS, block : Nat ])

deferInv ==
  /\ deferTypeOK
  /\ BlocksInOrder /\ lost = {}
  /\ Len(items) <= DEFER_ITEMS_MAX_SIZE
  /\ step = "malloc" =>
       /\ Len(held) = allocated
       /\ function = "defer_gotoless_approach" => ItemsAreHeld
  /\ step = "scope" => ItemsAreHeld
  /\ step \in {"free", "calls"} => FreesInReverse
  /\ step \in {"malloc", "scope"} => frees = << >>
  /\ step = "end" => held = << >>
  /\ step = "aborted" => Len(held) = DEFER_ITEMS_MAX_SIZE + 1

-----------------------------------------------------------------------------
(* scgi_memory: while no size wraps, the blocks fill the buffer from its    *)
(* start up to used.                                                        *)

AllocatedInOrder ==
  /\ used <= BUFFER_LEN
  /\ used = IF blocks = << >> THEN 0 ELSE BlockEnd(Len(blocks))
  /\ \A k \in 1 .. Len(blocks) : BlockEnd(k) <= BUFFER_LEN
  /\ \A k \in 2 .. Len(blocks) : blocks[k].start = BlockEnd(k - 1)

memoryTypeOK ==
  /\ step \in {"allocate", "read", "end"}
  /\ DOMAIN bytes = 0 .. BUFFER_LEN - 1
  /\ used \in Nat
  /\ blocks \in Seq([ start : Nat, size : Nat \ {0} ])
  /\ reader \in [ block : 0 .. Len(blocks), cursor : Nat, max_digits : Nat ]

NoDigits == reader.block = 0 /\ \A a \in DOMAIN bytes : bytes[a] # "digit"

\* The digits are those that lie between the start of the block and the cursor.
ReaderInBlock ==
  /\ reader.block # 0
  /\ reader.cursor \in blocks[reader.block].start .. BlockEnd(reader.block)
  /\ \A a \in DOMAIN bytes :
       bytes[a] = "digit" <=> a \in blocks[reader.block].start .. reader.cursor - 1

memoryInv ==
  /\ memoryTypeOK
  /\ held = << >> /\ lost = {}
  /\ NoSizeWraps => AllocatedInOrder
  /\ step = "allocate" => NoDigits
  /\ step # "allocate" => ReaderInBlock

-----------------------------------------------------------------------------
Inv ==
  /\ program \in DOMAIN Start
  /\ held \in Seq(Resource) /\ misused = FALSE /\ rc \in Int
  /\ program = "zlib" => zlibInv
  /\ program = "curl" => curlInv
  /\ program \in {"defer", "defer_user"} => deferInv
  /\ program = "scgi_memory" => memoryInv
  /\ program = "hash_table" => step = "table" /\ held = << >> /\ lost = {}
  /\ program # "curl" => ~overrun
  /\ program # "scgi_memory" => MemoryInit

\* A step of LifoResources, or one that leaves what is held alone.
LifoStep == Lifo!Obtain \/ Lifo!GiveUp \/ UNCHANGED held

-----------------------------------------------------------------------------
(* Sequences and the ledger.                                               *)

\* Obtaining something that is not held is a step of LifoResources.
LEMMA AcquireIsLifo ==
  ASSUME NEW r \in Resource, held \in Seq(Resource), Acquire(r),
         \A n \in 1 .. Len(held) : held[n] # r
  PROVE  /\ held' \in Seq(Resource) /\ held' = Append(held, r)
         /\ Len(held') = Len(held) + 1 /\ held'[Len(held) + 1] = r
         /\ \A n \in 1 .. Len(held) : held'[n] = held[n]
         /\ lost' = lost /\ misused' = misused /\ Lifo!Obtain
<1>1. r \notin ToSet(held)  BY DEF ToSet
<1> QED  BY <1>1 DEF Acquire, Lifo!Obtain, Lifo!ToSet, ToSet

\* Taking the last element out of the middle of a sequence leaves its front.
LEMMA RemoveLast ==
  ASSUME NEW S, NEW s \in Seq(S), s # << >>
  PROVE  RemoveAt(s, Len(s)) = Front(s) /\ Front(s) \in Seq(S)
         /\ Len(Front(s)) = Len(s) - 1
         /\ \A n \in 1 .. Len(s) - 1 : Front(s)[n] = s[n]
<1>1. Len(s) \in Nat /\ Len(s) >= 1  OBVIOUS
<1>2. /\ Front(s) \in Seq(S) /\ Len(Front(s)) = Len(s) - 1
      /\ \A n \in 1 .. Len(s) - 1 : Front(s)[n] = s[n]
  <2>1. \A n \in 1 .. Len(s) - 1 : s[n] \in S  BY <1>1
  <2>2. 1 \in Int /\ Len(s) - 1 \in Int  BY <1>1
  <2>3. /\ SubSeq(s, 1, Len(s) - 1) \in Seq(S)
        /\ Len(SubSeq(s, 1, Len(s) - 1)) =
             IF 1 <= Len(s) - 1 THEN Len(s) - 1 - 1 + 1 ELSE 0
        /\ \A n \in 1 .. Len(s) - 1 - 1 + 1 : SubSeq(s, 1, Len(s) - 1)[n] = s[1 + n - 1]
    BY <2>1, <2>2, SubSeqProperties
  <2>4. \A n \in 1 .. Len(s) - 1 : n \in 1 .. Len(s) - 1 - 1 + 1 /\ s[1 + n - 1] = s[n]
    BY <1>1
  <2>5. 1 <= Len(s) - 1 \/ Len(s) - 1 = 0
    <3>1. \A k \in Nat : k >= 1 => 1 <= k - 1 \/ k - 1 = 0  OBVIOUS
    <3> QED  BY <1>1, <3>1, Zenon
  <2>6. Len(s) - 1 - 1 + 1 = Len(s) - 1  BY <1>1
  <2>7. Len(SubSeq(s, 1, Len(s) - 1)) = Len(s) - 1  BY <2>3, <2>5, <2>6, Zenon
  <2> QED  BY <2>3, <2>4, <2>7, Zenon DEF Front
<1>3. SubSeq(s, Len(s) + 1, Len(s)) = << >>  BY <1>1
<1>4. Front(s) \o << >> = Front(s)  BY <1>2, ConcatEmptySeq
<1> QED  BY <1>2, <1>3, <1>4 DEF RemoveAt, Front

\* Giving away what was obtained last is a step of LifoResources.
LEMMA GiveAwayIsLifo ==
  ASSUME NEW r, held \in Seq(Resource), held # << >>, held[Len(held)] = r,
         \A n \in 1 .. Len(held) - 1 : held[n] # r, GivesAway(r)
  PROVE  /\ held' = Front(held) /\ held' \in Seq(Resource)
         /\ Held(r) /\ Lifo!GiveUp
         /\ Len(held') = Len(held) - 1
         /\ \A n \in 1 .. Len(held') : held'[n] = held[n]
<1>1. Len(held) \in 1 .. Len(held) /\ Held(r)  BY DEF Held
<1>2. held' = RemoveAt(held, Len(held))  BY <1>1 DEF GivesAway
<1>3. /\ held' = Front(held) /\ Front(held) \in Seq(Resource)
      /\ Len(Front(held)) = Len(held) - 1
      /\ \A n \in 1 .. Len(held) - 1 : Front(held)[n] = held[n]
  BY <1>2, RemoveLast
<1>4. Lifo!GiveUp  BY <1>3 DEF Lifo!GiveUp, Lifo!Front, Front
<1> QED  BY <1>1, <1>3, <1>4

LEMMA ReleaseIsLifo ==
  ASSUME NEW r, held \in Seq(Resource), held # << >>, held[Len(held)] = r,
         \A n \in 1 .. Len(held) - 1 : held[n] # r, Release(r), misused = FALSE
  PROVE  /\ held' = Front(held) /\ held' \in Seq(Resource)
         /\ misused' = FALSE /\ lost' = lost /\ Lifo!GiveUp
         /\ Len(held') = Len(held) - 1
         /\ \A n \in 1 .. Len(held') : held'[n] = held[n]
BY GiveAwayIsLifo DEF Release

\* The short sequences of the clean-up ladders.
LEMMA ShortSeq ==
  ASSUME NEW S, NEW s \in Seq(S)
  PROVE  /\ Len(s) = 0 => s = << >>
         /\ Len(s) = 1 => s = << s[1] >>
         /\ Len(s) = 2 => s = << s[1], s[2] >>
         /\ Len(s) = 3 => s = << s[1], s[2], s[3] >>
<1>1. Len(s) = 0 => s = << >>  OBVIOUS
<1>2. Len(s) = 1 => s = << s[1] >>  OBVIOUS
<1>3. Len(s) = 2 => s = << s[1], s[2] >>  OBVIOUS
<1>4. Len(s) = 3 => s = << s[1], s[2], s[3] >>  OBVIOUS
<1> QED  BY <1>1, <1>2, <1>3, <1>4

LEMMA MinOfTwo ==
  ASSUME NEW a \in Nat, NEW b \in Nat
  PROVE  /\ Min({a, b}) \in Nat /\ Min({a, b}) <= b
         /\ a <= b => Min({a, b}) = a
<1>1. \E x \in {a, b} : \A y \in {a, b} : x <= y
  <2>1. CASE a <= b  BY <2>1
  <2>2. CASE ~(a <= b)  BY <2>2
  <2> QED  BY <2>1, <2>2
<1>2. Min({a, b}) \in {a, b} /\ \A y \in {a, b} : Min({a, b}) <= y
  BY <1>1 DEF Min
<1> QED  BY <1>2

\* What an int can hold passes the conversions unchanged.
LEMMA Conversions ==
  ASSUME NEW n \in Nat
  PROVE  /\ ToUnsigned(n) \in Nat
         /\ n <= INT_MAX => ToInt(n) = n
<1>1. UINT_MAX \in Nat /\ INT_MAX \in Nat /\ INT_MAX <= UINT_MAX
  BY LedgerAssumption DEF INT_MAX
<1>2. ToUnsigned(n) \in Nat  BY <1>1 DEF ToUnsigned
<1>3. n <= INT_MAX => n < UINT_MAX + 1  BY <1>1
<1>4. \A k \in Nat, m \in Nat : k < m => k % m = k  OBVIOUS
<1>5. n <= INT_MAX => ToUnsigned(n) = n
  BY <1>1, <1>3, <1>4 DEF ToUnsigned
<1> QED  BY <1>2, <1>5 DEF ToInt

LEMMA Singles ==
  \A s \in {"chunk", "input", "output", "global", "easy", "body"} : << s, 1 >> \in Resource
BY DEF Resource

\* A ladder that obtains r on top of at most two other things.
LEMMA AcquireOnLadder ==
  ASSUME NEW r \in Resource, held \in Seq(Resource), Acquire(r),
         \A n \in 1 .. Len(held) : held[n] # r
  PROVE  /\ held' \in Seq(Resource) /\ lost' = lost /\ misused' = misused /\ LifoStep
         /\ held = << >> => held' = << r >>
         /\ Len(held) = 1 => held' = << held[1], r >>
         /\ Len(held) = 2 => held' = << held[1], held[2], r >>
<1>1. /\ held' \in Seq(Resource) /\ lost' = lost /\ misused' = misused /\ LifoStep
      /\ Len(held') = Len(held) + 1 /\ held'[Len(held) + 1] = r
      /\ \A n \in 1 .. Len(held) : held'[n] = held[n]
  BY AcquireIsLifo DEF LifoStep
<1>2. held = << >> => held' = << r >>  BY <1>1, ShortSeq
<1>3. Len(held) = 1 => held' = << held[1], r >>  BY <1>1, ShortSeq
<1>4. Len(held) = 2 => held' = << held[1], held[2], r >>  BY <1>1, ShortSeq
<1> QED  BY <1>1, <1>2, <1>3, <1>4

\* A ladder that gives up its top.
LEMMA ReleaseOnLadder ==
  ASSUME NEW r, held \in Seq(Resource), held # << >>, held[Len(held)] = r,
         \A n \in 1 .. Len(held) - 1 : held[n] # r, Release(r), misused = FALSE
  PROVE  /\ held' \in Seq(Resource) /\ lost' = lost /\ misused' = FALSE /\ LifoStep
         /\ Len(held) = 1 => held' = << >>
         /\ Len(held) = 2 => held' = << held[1] >>
         /\ Len(held) = 3 => held' = << held[1], held[2] >>
<1>1. /\ held' \in Seq(Resource) /\ lost' = lost /\ misused' = FALSE /\ LifoStep
      /\ Len(held') = Len(held) - 1
      /\ \A n \in 1 .. Len(held') : held'[n] = held[n]
  BY ReleaseIsLifo DEF LifoStep
<1>2. Len(held) = 1 => held' = << >>  BY <1>1, ShortSeq
<1>3. Len(held) = 2 => held' = << held[1] >>  BY <1>1, ShortSeq
<1>4. Len(held) = 3 => held' = << held[1], held[2] >>  BY <1>1, ShortSeq
<1> QED  BY <1>1, <1>2, <1>3, <1>4

-----------------------------------------------------------------------------
(* zlib.                                                                   *)

LEMMA zlibStep ==
  ASSUME held \in Seq(Resource), misused = FALSE, rc \in Int, zlibInv, hbmo_uncompress
  PROVE  /\ held' \in Seq(Resource) /\ misused' = FALSE /\ rc' \in Int
         /\ zlibInv' /\ LifoStep
<1> USE DEF At, GoTo, Fails, KeepsAll, ledgerVars, processVars
<1>a. lost = {} /\ zlibTypeOK /\ zlibHeld /\ zlibBytes /\ zlibResult  BY DEF zlibInv
<1>1. CASE buffer_alloc
  <2>1. step = "uncompress" /\ held = << >> /\ rc # 0
    BY <1>1, <1>a DEF buffer_alloc, zlibHeld, zlibResult
  <2>2. CASE KeepsAll /\ step' \in {"end", "exited"} /\ rc' \in {1, rc}
    <3>1. LifoStep  BY <2>2 DEF LifoStep
    <3> QED  BY <1>1, <1>a, <2>1, <2>2, <3>1, UncompressAssumption
             DEF buffer_alloc, zlibInv, zlibTypeOK, zlibHeld, zlibBytes, zlibResult
  <2>3. CASE Acquire(<< "chunk", 1 >>) /\ step' = "gzopen" /\ rc' = rc
    <3>1. /\ held' \in Seq(Resource) /\ lost' = lost /\ misused' = misused /\ LifoStep
          /\ held' = << << "chunk", 1 >> >>
      BY <2>1, <2>3, AcquireOnLadder, Singles
    <3> QED  BY <1>1, <1>a, <2>1, <2>3, <3>1, UncompressAssumption
             DEF buffer_alloc, zlibInv, zlibTypeOK, zlibHeld, zlibBytes, zlibResult
  <2> QED  BY <1>1, <2>2, <2>3 DEF buffer_alloc
<1>2. CASE open_input
  <2>1. step = "gzopen" /\ held = << << "chunk", 1 >> >> /\ rc # 0
    BY <1>2, <1>a DEF open_input, zlibHeld, zlibResult
  <2>2. CASE Fails("err_buffer_free", 1) /\ UNCHANGED << input, total, readable >>
    <3>1. LifoStep  BY <2>2 DEF LifoStep
    <3> QED  BY <1>2, <1>a, <2>1, <2>2, <3>1
             DEF open_input, zlibInv, zlibTypeOK, zlibHeld, zlibBytes, zlibResult
  <2>3. CASE /\ GoTo("fopen") /\ Acquire(<< "input", 1 >>) /\ UNCHANGED rc
             /\ total' \in 0 .. MaxBytes /\ readable' \in 0 .. total'
             /\ readable' = total' <=> input' # "truncated"
    <3>1. /\ held' \in Seq(Resource) /\ lost' = lost /\ misused' = misused /\ LifoStep
          /\ held' = << << "chunk", 1 >>, << "input", 1 >> >>
      BY <2>1, <2>3, AcquireOnLadder, Singles
    <3>2. total' \in Nat /\ readable' \in Nat  BY <2>3, UncompressAssumption
    <3>3. step' = "fopen" /\ rc' = rc
          /\ UNCHANGED << buffer_size, chunk, accepted, on_disk, ignored >>
      BY <1>2, <2>3 DEF open_input
    <3>4. accepted = 0 /\ zlibTypeOK  BY <1>a, <2>1 DEF zlibBytes
    <3>5. input' # "truncated" => accepted' + readable' = total'
      <4>1. input' # "truncated" => readable' = total'  BY <2>3, Zenon
      <4>2. accepted' = 0  BY <3>3, <3>4
      <4>3. \A k \in Nat : 0 + k = k  OBVIOUS
      <4> QED  BY <3>2, <4>1, <4>2, <4>3, Zenon
    <3> QED  BY <1>a, <2>1, <3>1, <3>2, <3>3, <3>4, <3>5
             DEF zlibInv, zlibTypeOK, zlibHeld, zlibBytes, zlibResult
  <2> QED  BY <1>2, <2>2, <2>3 DEF open_input
<1>3. CASE open_output
  <2>1. step = "fopen" /\ held = << << "chunk", 1 >>, << "input", 1 >> >> /\ rc # 0
    BY <1>3, <1>a DEF open_output, zlibHeld, zlibResult
  <2>2. CASE Fails("err_close_input_file", 1)
    <3>1. LifoStep  BY <2>2 DEF LifoStep
    <3> QED  BY <1>3, <1>a, <2>1, <2>2, <3>1
             DEF open_output, zlibInv, zlibTypeOK, zlibHeld, zlibBytes, zlibResult,
                 uncompressVars
  <2>3. CASE GoTo("gzread") /\ Acquire(<< "output", 1 >>) /\ UNCHANGED rc
    <3>1. /\ held' \in Seq(Resource) /\ lost' = lost /\ misused' = misused /\ LifoStep
          /\ held' = << << "chunk", 1 >>, << "input", 1 >>, << "output", 1 >> >>
      BY <2>1, <2>3, AcquireOnLadder, Singles
    <3> QED  BY <1>3, <1>a, <2>1, <2>3, <3>1
             DEF open_output, zlibInv, zlibTypeOK, zlibHeld, zlibBytes, zlibResult,
                 uncompressVars
  <2> QED  BY <1>3, <2>2, <2>3 DEF open_output
<1>4. CASE read_chunk
  <2>1. KeepsAll /\ LifoStep  BY <1>4 DEF read_chunk, LifoStep
  <2>2. len \in Nat  BY <1>a, Conversions DEF zlibTypeOK, len
  <2>3. Min({len, readable}) \in Nat /\ Min({len, readable}) <= readable
    BY <1>a, <2>2, MinOfTwo DEF zlibTypeOK
  <2>4. len' = len  BY <1>4 DEF read_chunk, len, ToUnsigned
  <2>5. /\ step = "gzread" /\ rc # 0
        /\ UNCHANGED << buffer_size, input, total, accepted, on_disk, ignored >>
    BY <1>4, <1>a DEF read_chunk, zlibResult
  <2>6. CASE Fails("err_close_output_file", 1) /\ UNCHANGED << readable, chunk >>
    BY <1>a, <2>1, <2>4, <2>5, <2>6
       DEF zlibInv, zlibTypeOK, zlibHeld, zlibBytes, zlibResult
  <2>7. CASE /\ chunk' = Min({len, readable}) /\ readable' = readable - chunk'
             /\ GoTo("fwrite") /\ UNCHANGED rc
    <3>1. chunk' \in Nat /\ readable' \in Nat /\ accepted \in Nat
          /\ accepted + readable = accepted + chunk' + readable'
      BY <1>a, <2>3, <2>7 DEF zlibTypeOK
    <3>2. zlibTypeOK' /\ zlibHeld'
      BY <1>a, <2>1, <2>5, <2>7, <3>1 DEF zlibTypeOK, zlibHeld
    <3>3. zlibBytes'  BY <1>a, <2>5, <2>7, <3>1 DEF zlibBytes
    <3>4. zlibResult'  BY <2>5, <2>7 DEF zlibResult
    <3> QED  BY <1>a, <2>1, <2>7, <3>2, <3>3, <3>4 DEF zlibInv
  <2>8. CASE /\ len = 0 \/ readable = 0
             /\ Fails("fclose", 0) /\ UNCHANGED << readable, chunk >>
    BY <1>a, <2>1, <2>4, <2>5, <2>8
       DEF zlibInv, zlibTypeOK, zlibHeld, zlibBytes, zlibResult
  <2> QED  BY <1>4, <2>6, <2>7, <2>8 DEF read_chunk
<1>5. CASE write_chunk
  <2>1. KeepsAll /\ LifoStep  BY <1>5 DEF write_chunk, LifoStep
  <2> QED  BY <1>5, <1>a, <2>1
           DEF write_chunk, zlibInv, zlibTypeOK, zlibHeld, zlibBytes, zlibResult
<1>6. CASE close_output
  <2>1. held = << << "chunk", 1 >>, << "input", 1 >>, << "output", 1 >> >>
    BY <1>6, <1>a DEF close_output, zlibHeld
  <2>2. /\ held' \in Seq(Resource) /\ lost' = lost /\ misused' = misused /\ LifoStep
        /\ held' = << << "chunk", 1 >>, << "input", 1 >> >>
    <3>1. /\ held # << >> /\ Len(held) = 3 /\ held[Len(held)] = << "output", 1 >>
          /\ \A n \in 1 .. Len(held) - 1 : held[n] # << "output", 1 >>
      BY <2>1
    <3>2. Release(<< "output", 1 >>)  BY <1>6 DEF close_output
    <3> QED  BY <2>1, <3>1, <3>2, ReleaseOnLadder
  <2>3. /\ step \in {"fclose", "err_close_output_file"} /\ step' = "err_close_input_file"
        /\ UNCHANGED << rc, buffer_size, input, total, readable, chunk, accepted >>
    BY <1>6 DEF close_output, At, GoTo
  <2>4. on_disk' \in Nat /\ (on_disk' = accepted \/ "fclose" \in ignored')
    <3>1. accepted \in Nat  BY <1>a DEF zlibTypeOK
    <3>2. CASE on_disk' = accepted  BY <3>1, <3>2
    <3>3. CASE on_disk' \in 0 .. accepted - 1 /\ ignored' = ignored \cup {"fclose"}
      <4>1. on_disk' \in Nat  BY <3>1, <3>3
      <4>2. "fclose" \in ignored'  BY <3>3
      <4> QED  BY <4>1, <4>2
    <3> QED  BY <1>6, <3>2, <3>3 DEF close_output
  <2>5. zlibTypeOK' /\ zlibHeld'
    BY <1>a, <2>2, <2>3, <2>4 DEF zlibTypeOK, zlibHeld
  <2>6. zlibBytes' /\ zlibResult'
    BY <1>a, <2>3, <2>4 DEF zlibBytes, zlibResult, len, ToUnsigned
  <2> QED  BY <1>a, <2>2, <2>3, <2>5, <2>6 DEF zlibInv
<1>7. CASE close_input
  <2>1. held = << << "chunk", 1 >>, << "input", 1 >> >>
    BY <1>7, <1>a DEF close_input, zlibHeld
  <2>2. /\ held' \in Seq(Resource) /\ lost' = lost /\ misused' = misused /\ LifoStep
        /\ held' = << << "chunk", 1 >> >>
    <3>1. /\ held # << >> /\ Len(held) = 2 /\ held[Len(held)] = << "input", 1 >>
          /\ \A n \in 1 .. Len(held) - 1 : held[n] # << "input", 1 >>
      BY <2>1
    <3>2. Release(<< "input", 1 >>)  BY <1>7 DEF close_input
    <3> QED  BY <2>1, <3>1, <3>2, ReleaseOnLadder
  <2> QED  BY <1>7, <1>a, <2>2
           DEF close_input, zlibInv, zlibTypeOK, zlibHeld, zlibBytes, zlibResult, len,
               ToUnsigned
<1>8. CASE free_chunk
  <2>1. held = << << "chunk", 1 >> >>
    BY <1>8, <1>a DEF free_chunk, zlibHeld
  <2>2. /\ held' \in Seq(Resource) /\ lost' = lost /\ misused' = misused /\ LifoStep
        /\ held' = << >>
    <3>1. /\ held # << >> /\ Len(held) = 1 /\ held[Len(held)] = << "chunk", 1 >>
          /\ \A n \in 1 .. Len(held) - 1 : held[n] # << "chunk", 1 >>
      BY <2>1
    <3>2. Release(<< "chunk", 1 >>)  BY <1>8 DEF free_chunk
    <3> QED  BY <2>1, <3>1, <3>2, ReleaseOnLadder
  <2> QED  BY <1>8, <1>a, <2>2
           DEF free_chunk, zlibInv, zlibTypeOK, zlibHeld, zlibBytes, zlibResult,
               uncompressVars, len, ToUnsigned
<1> QED  BY <1>1, <1>2, <1>3, <1>4, <1>5, <1>6, <1>7, <1>8 DEF hbmo_uncompress

-----------------------------------------------------------------------------
(* curl.                                                                   *)

\* A piece that does not fit makes the block longer than the body.
LEMMA CapacityGrows ==
  ASSUME NEW c \in ChunkSizes, capacity \in Nat, size \in Nat, size <= capacity
  PROVE  c \in Nat /\ new_capacity(c) \in Nat \ {0} /\ size + c <= new_capacity(c)
BY ResponseAssumption DEF new_capacity, grow_factor

LEMMA curlStep ==
  ASSUME held \in Seq(Resource), misused = FALSE, rc \in Int, curlInv, CurlMain
  PROVE  /\ held' \in Seq(Resource) /\ misused' = FALSE /\ rc' \in Int
         /\ curlInv' /\ LifoStep
<1> DEFINE library == << "global", 1 >>
           handle == << "easy", 1 >>
<1> USE DEF At, GoTo, KeepsAll, ledgerVars, Body
<1>a. curlTypeOK /\ curlHeld /\ curlBytes  BY DEF curlInv
<1>b. /\ library # handle /\ library # Body /\ handle # Body
      /\ library \in Resource /\ handle \in Resource /\ Body \in Resource
  BY Singles
<1>1. CASE global_init
  <2>1. step = "global_init" /\ held = << >>  BY <1>1, <1>a DEF global_init, curlHeld
  <2>2. CASE GoTo("exited") /\ KeepsAll
    <3>1. LifoStep  BY <2>2 DEF LifoStep
    <3> QED  BY <1>1, <1>a, <2>1, <2>2, <3>1
             DEF global_init, curlInv, curlTypeOK, curlHeld, curlBytes, responseVars
  <2>3. CASE GoTo("easy_init") /\ Acquire(library)
    <3>1. /\ held' \in Seq(Resource) /\ lost' = lost /\ misused' = misused /\ LifoStep
          /\ held' = << library >>
      BY <1>b, <2>1, <2>3, AcquireOnLadder
    <3> QED  BY <1>1, <1>a, <2>1, <2>3, <3>1
             DEF global_init, curlInv, curlTypeOK, curlHeld, curlBytes, responseVars
  <2> QED  BY <1>1, <2>2, <2>3 DEF global_init
<1>2. CASE easy_init
  <2>1. step = "easy_init" /\ held = << library >>  BY <1>2, <1>a DEF easy_init, curlHeld
  <2>2. CASE GoTo("easy_init_failed") /\ KeepsAll
    <3>1. LifoStep  BY <2>2 DEF LifoStep
    <3> QED  BY <1>2, <1>a, <2>1, <2>2, <3>1
             DEF easy_init, curlInv, curlTypeOK, curlHeld, curlBytes, responseVars
  <2>3. CASE GoTo("perform") /\ Acquire(handle)
    <3>1. /\ held' \in Seq(Resource) /\ lost' = lost /\ misused' = misused /\ LifoStep
          /\ held' = << library, handle >>
      BY <1>b, <2>1, <2>3, AcquireOnLadder
    <3> QED  BY <1>2, <1>a, <2>1, <2>3, <3>1
             DEF easy_init, curlInv, curlTypeOK, curlHeld, curlBytes, responseVars
  <2> QED  BY <1>2, <2>2, <2>3 DEF easy_init
<1>3. CASE easy_init_failed
  <2>1. step = "easy_init_failed" /\ held = << library >>
    BY <1>3, <1>a DEF easy_init_failed, curlHeld
  <2>2. /\ held' \in Seq(Resource) /\ lost' = lost /\ misused' = misused /\ LifoStep
        /\ held' = << >>
    <3>1. /\ held # << >> /\ Len(held) = 1 /\ held[Len(held)] = library
          /\ \A n \in 1 .. Len(held) - 1 : held[n] # library
      BY <2>1
    <3>2. Release(library)  BY <1>3 DEF easy_init_failed
    <3> QED  BY <3>1, <3>2, ReleaseOnLadder
  <2> QED  BY <1>3, <1>a, <2>1, <2>2
           DEF easy_init_failed, curlInv, curlTypeOK, curlHeld, curlBytes, responseVars
<1>5. CASE curl_easy_perform
  <2>1. LifoStep  BY <1>5 DEF curl_easy_perform, LifoStep
  <2>2. rc' = 0 /\ delivered <= INT_MAX => printed' = text /\ ~overread'
    <3> SUFFICES ASSUME rc' = 0, delivered <= INT_MAX
                 PROVE  printed' = text /\ ~overread'
      OBVIOUS
    <3>1. /\ size = delivered /\ text <= size /\ ~overread
          /\ size \in Nat /\ text \in Nat
      BY <1>5, <1>a DEF curl_easy_perform, curlBytes, curlTypeOK
    <3>2. PrintsBody  BY <1>5 DEF curl_easy_perform
    <3>3. ToInt(size) = size  BY <3>1, Conversions
    <3>4. Min({text, size}) = text  BY <3>1, MinOfTwo
    <3> QED  BY <3>1, <3>2, <3>3, <3>4 DEF PrintsBody
  <2> QED  BY <1>5, <1>a, <2>1, <2>2
           DEF curl_easy_perform, curlInv, curlTypeOK, curlHeld, curlBytes
<1>7. CASE curl_easy_cleanup
  <2>1. step = "easy_cleanup" /\ held = << library, handle >>
    BY <1>7, <1>a DEF curl_easy_cleanup, curlHeld
  <2>2. /\ held' \in Seq(Resource) /\ lost' = lost /\ misused' = misused /\ LifoStep
        /\ held' = << library >>
    <3>1. /\ held # << >> /\ Len(held) = 2 /\ held[Len(held)] = handle
          /\ \A n \in 1 .. Len(held) - 1 : held[n] # handle
      BY <2>1, <1>b
    <3>2. Release(handle)  BY <1>7 DEF curl_easy_cleanup
    <3> QED  BY <2>1, <3>1, <3>2, ReleaseOnLadder
  <2> QED  BY <1>7, <1>a, <2>1, <2>2
           DEF curl_easy_cleanup, curlInv, curlTypeOK, curlHeld, curlBytes, responseVars
<1>8. CASE curl_global_cleanup
  <2>1. step = "global_cleanup" /\ held = << library >>
    BY <1>8, <1>a DEF curl_global_cleanup, curlHeld
  <2>2. /\ held' \in Seq(Resource) /\ lost' = lost /\ misused' = misused /\ LifoStep
        /\ held' = << >>
    <3>1. /\ held # << >> /\ Len(held) = 1 /\ held[Len(held)] = library
          /\ \A n \in 1 .. Len(held) - 1 : held[n] # library
      BY <2>1
    <3>2. Release(library)  BY <1>8 DEF curl_global_cleanup
    <3> QED  BY <2>1, <3>1, <3>2, ReleaseOnLadder
  <2> QED  BY <1>8, <1>a, <2>1, <2>2
           DEF curl_global_cleanup, curlInv, curlTypeOK, curlHeld, curlBytes, responseVars
<1>4. CASE res_body_write_callback
  <2>1. /\ step = "perform" /\ size = delivered /\ block = capacity /\ size <= block
        /\ lost = {} /\ rc = -1 /\ ~overrun /\ curlTypeOK
        /\ held = IF block = 0 THEN << library, handle >> ELSE << library, handle, Body >>
    BY <1>4, <1>a DEF res_body_write_callback, curlHeld, curlBytes
  <2>2. PICK c \in ChunkSizes :
          /\ \E nul \in 0 .. c : Delivers(c, nul)
          /\ \/ /\ size + c > capacity
                /\ capacity' = new_capacity(c)
                /\ Copies(capacity', c)
                /\ IF block = 0 THEN Acquire(Body) ELSE KeepsAll
             \/ size + c > capacity /\ GivesUp
             \/ /\ size + c <= capacity
                /\ Copies(block, c)
                /\ KeepsAll /\ UNCHANGED capacity
    BY <1>4 DEF res_body_write_callback
  <2>a. UNCHANGED << printed, overread >> /\ ~overread
    BY <1>4, <1>a DEF res_body_write_callback, curlBytes
  <2>3. c \in Nat /\ new_capacity(c) \in Nat \ {0} /\ size + c <= new_capacity(c)
    BY <2>1, CapacityGrows DEF curlTypeOK
  <2>b. delivered' = delivered + c /\ text' \in Nat /\ text' <= delivered'
    <3>1. text \in Nat /\ text <= delivered /\ delivered \in Nat
      BY <1>a DEF curlBytes, curlTypeOK
    <3> QED  BY <2>2, <2>3, <3>1 DEF Delivers
  <2>4. CASE /\ capacity' = new_capacity(c) /\ Copies(capacity', c)
             /\ IF block = 0 THEN Acquire(Body) ELSE KeepsAll
    <3>1. /\ step' = "perform" /\ rc' = -1 /\ block' = capacity' /\ size' = size + c
          /\ ~overrun'
      <4>1. overrun' = (overrun \/ size' > capacity')  BY <2>4, Zenon DEF Copies
      <4>2. step' = "perform" /\ rc' = -1 /\ block' = capacity' /\ size' = size + c
        BY <2>1, <2>4 DEF Copies
      <4>3. ~(size' > capacity')  BY <2>1, <2>3, <2>4, <4>2 DEF curlTypeOK
      <4> QED  BY <2>1, <4>1, <4>2, <4>3, Zenon
    <3>2. /\ held' \in Seq(Resource) /\ lost' = lost /\ misused' = misused /\ LifoStep
          /\ held' = << library, handle, Body >>
      <4>1. CASE block = 0
        <5>1. Acquire(Body) /\ held = << library, handle >>  BY <2>1, <2>4, <4>1
        <5> QED  BY <1>b, <5>1, AcquireOnLadder
      <4>2. CASE block # 0
        <5>1. KeepsAll  BY <2>4, <4>2
        <5> QED  BY <2>1, <4>2, <5>1 DEF LifoStep
      <4> QED  BY <4>1, <4>2
    <3> QED  BY <2>1, <2>a, <2>b, <2>3, <2>4, <3>1, <3>2
             DEF curlInv, curlTypeOK, curlHeld, curlBytes
  <2>5. CASE GivesUp
    <3>1. /\ step' = "buffer_free" /\ rc' = 1 /\ block' = 0 /\ UNCHANGED << size, capacity, overrun >>
      BY <2>5 DEF GivesUp
    <3>2. /\ held' \in Seq(Resource) /\ lost' \in {{}, {Body}} /\ misused' = misused
          /\ LifoStep /\ held' = << library, handle >>
      <4>1. CASE block = 0
        <5>1. KeepsAll  BY <2>5, <4>1 DEF GivesUp
        <5> QED  BY <2>1, <4>1, <5>1 DEF LifoStep
      <4>2. CASE block # 0
        <5>1. Lose(Body)  BY <2>5, <4>2 DEF GivesUp
        <5>2. held = << library, handle, Body >>  BY <2>1, <4>2
        <5>3. /\ held # << >> /\ Len(held) = 3 /\ held[Len(held)] = Body
              /\ \A n \in 1 .. Len(held) - 1 : held[n] # Body
          BY <1>b, <5>2
        <5>4. /\ held' \in Seq(Resource) /\ Lifo!GiveUp /\ Len(held') = 2
              /\ held'[1] = held[1] /\ held'[2] = held[2]
          BY <5>1, <5>3, GiveAwayIsLifo DEF Lose
        <5>5. held' = << library, handle >>  BY <5>2, <5>4, ShortSeq
        <5> QED  BY <2>1, <5>1, <5>4, <5>5 DEF Lose, LifoStep
      <4> QED  BY <4>1, <4>2
    <3> QED  BY <2>1, <2>a, <2>b, <2>3, <3>1, <3>2
             DEF curlInv, curlTypeOK, curlHeld, curlBytes
  <2>6. CASE size + c <= capacity /\ Copies(block, c) /\ KeepsAll /\ UNCHANGED capacity
    <3>1. LifoStep  BY <2>6 DEF LifoStep
    <3>2. ~overrun'
      <4>1. overrun' = (overrun \/ size' > block)  BY <2>6, Zenon DEF Copies
      <4>2. ~(size' > block)  BY <2>1, <2>3, <2>6 DEF Copies, curlTypeOK
      <4> QED  BY <2>1, <4>1, <4>2, Zenon
    <3>3. step' = step /\ rc' = rc /\ block' = block /\ size' = size + c
      BY <2>6 DEF Copies
    <3> QED  BY <2>1, <2>a, <2>b, <2>3, <2>6, <3>1, <3>2, <3>3
             DEF curlInv, curlTypeOK, curlHeld, curlBytes
  <2> QED  BY <2>2, <2>4, <2>5, <2>6
<1>6. CASE buffer_free
  <2>1. /\ step = "buffer_free"
        /\ held = IF block = 0 THEN << library, handle >> ELSE << library, handle, Body >>
    BY <1>6, <1>a DEF buffer_free, curlHeld
  <2>2. /\ held' \in Seq(Resource) /\ lost' = lost /\ misused' = misused /\ LifoStep
        /\ held' = << library, handle >>
    <3>1. CASE block = 0
      <4>1. KeepsAll  BY <1>6, <3>1 DEF buffer_free
      <4> QED  BY <2>1, <3>1, <4>1 DEF LifoStep
    <3>2. CASE block # 0
      <4>1. held = << library, handle, Body >>  BY <2>1, <3>2
      <4>2. /\ held # << >> /\ Len(held) = 3 /\ held[Len(held)] = Body
            /\ \A n \in 1 .. Len(held) - 1 : held[n] # Body
        BY <1>b, <4>1
      <4>3. Release(Body)  BY <1>6, <3>2 DEF buffer_free
      <4> QED  BY <4>1, <4>2, <4>3, ReleaseOnLadder
    <3> QED  BY <3>1, <3>2
  <2> QED  BY <1>6, <1>a, <2>1, <2>2
           DEF buffer_free, curlInv, curlTypeOK, curlHeld, curlBytes
<1> QED  BY <1>1, <1>2, <1>3, <1>4, <1>5, <1>6, <1>7, <1>8 DEF CurlMain

-----------------------------------------------------------------------------
(* defer.                                                                  *)

LEMMA BlocksAreResources ==
  /\ \A n \in 1 .. BLOCKS + DEFER_ITEMS_MAX_SIZE : Block(n) \in Resource
  /\ \A m, n \in Int : Block(m) = Block(n) => m = n
BY DeferAssumption DEF Block, Resource, BLOCKS

\* Every error path, and the end of the scope, frees the blocks held, the last first.
LEMMA ScopeEndReverses ==
  ASSUME held \in Seq(Resource), deferTypeOK, ItemsAreHeld
  PROVE  /\ defer_scope_end \in Seq(Nat) /\ Len(defer_scope_end) = Len(held)
         /\ \A n \in 1 .. Len(defer_scope_end) : defer_scope_end[n] = Len(held) + 1 - n
<1>1. Len(items) \in Nat /\ Len(items) = Len(held)  BY DEF deferTypeOK, ItemsAreHeld
<1>2. \A n \in 1 .. Len(items) : items[Len(items) + 1 - n].block = Len(items) + 1 - n
  BY <1>1 DEF ItemsAreHeld
<1>3. defer_scope_end = [ n \in 1 .. Len(items) |-> Len(items) + 1 - n ]
  BY <1>2 DEF defer_scope_end
<1> QED  BY <1>1, <1>3

LEMMA FreesReverse ==
  ASSUME held \in Seq(Resource), deferInv, step = "malloc"
  PROVE  /\ Frees(allocated + 1) \in Seq(Nat) /\ Len(Frees(allocated + 1)) = Len(held)
         /\ \A n \in 1 .. Len(held) : Frees(allocated + 1)[n] = Len(held) + 1 - n
<1>1. allocated \in 0 .. 4 /\ Len(held) = allocated /\ deferTypeOK
  BY DEF deferInv, deferTypeOK, BLOCKS
<1>2. CASE function = "gotoless_duplicated_approach"
  <2>1. Frees(allocated + 1) = gotoless_frees(allocated + 1)  BY <1>2 DEF Frees
  <2>2. CASE allocated = 0
    <3>1. Frees(allocated + 1) = << >>  BY <2>1, <2>2 DEF gotoless_frees
    <3>2. << >> \in Seq(Nat) /\ Len(<< >>) = 0  OBVIOUS
    <3>3. \A n \in 1 .. 0 : << >>[n] = 0 + 1 - n  OBVIOUS
    <3> QED  BY <1>1, <2>2, <3>1, <3>2, <3>3
  <2>3. CASE allocated = 1
    <3>1. Frees(allocated + 1) = << 1 >>  BY <2>1, <2>3 DEF gotoless_frees
    <3>2. << 1 >> \in Seq(Nat) /\ Len(<< 1 >>) = 1  OBVIOUS
    <3>3. \A n \in 1 .. 1 : << 1 >>[n] = 1 + 1 - n  OBVIOUS
    <3> QED  BY <1>1, <2>3, <3>1, <3>2, <3>3
  <2>4. CASE allocated = 2
    <3>1. Frees(allocated + 1) = << 2, 1 >>  BY <2>1, <2>4 DEF gotoless_frees
    <3>2. << 2, 1 >> \in Seq(Nat) /\ Len(<< 2, 1 >>) = 2  OBVIOUS
    <3>3. \A n \in 1 .. 2 : << 2, 1 >>[n] = 2 + 1 - n  OBVIOUS
    <3> QED  BY <1>1, <2>4, <3>1, <3>2, <3>3
  <2>5. CASE allocated = 3
    <3>1. Frees(allocated + 1) = << 3, 2, 1 >>  BY <2>1, <2>5 DEF gotoless_frees
    <3>2. << 3, 2, 1 >> \in Seq(Nat) /\ Len(<< 3, 2, 1 >>) = 3  OBVIOUS
    <3>3. \A n \in 1 .. 3 : << 3, 2, 1 >>[n] = 3 + 1 - n  OBVIOUS
    <3> QED  BY <1>1, <2>5, <3>1, <3>2, <3>3
  <2>6. CASE allocated = 4
    <3>1. Frees(allocated + 1) = << 4, 3, 2, 1 >>  BY <2>1, <2>6 DEF gotoless_frees
    <3>2. << 4, 3, 2, 1 >> \in Seq(Nat) /\ Len(<< 4, 3, 2, 1 >>) = 4  OBVIOUS
    <3>3. \A n \in 1 .. 4 : << 4, 3, 2, 1 >>[n] = 4 + 1 - n  OBVIOUS
    <3> QED  BY <1>1, <2>6, <3>1, <3>2, <3>3
  <2> QED  BY <1>1, <2>2, <2>3, <2>4, <2>5, <2>6
<1>3. CASE function = "goto_approach"
  <2>1. Frees(allocated + 1) = [ n \in 1 .. allocated |-> allocated + 1 - n ]
    BY <1>1, <1>3 DEF Frees, goto_frees
  <2> QED  BY <1>1, <2>1
<1>4. CASE function = "defer_gotoless_approach"
  <2>1. Frees(allocated + 1) = defer_scope_end  BY <1>4 DEF Frees
  <2> QED  BY <1>1, <1>4, <2>1, ScopeEndReverses DEF deferInv
<1> QED  BY <1>1, <1>2, <1>3, <1>4 DEF deferTypeOK, Functions

LEMMA PushBlock ==
  ASSUME held \in Seq(Resource), BlocksInOrder, Len(held) < BLOCKS + DEFER_ITEMS_MAX_SIZE,
         Acquire(Block(Len(held) + 1))
  PROVE  /\ held' \in Seq(Resource) /\ Len(held') = Len(held) + 1 /\ BlocksInOrder'
         /\ lost' = lost /\ misused' = misused /\ LifoStep
<1> DEFINE r == Block(Len(held) + 1)
<1>1. r \in Resource
  <2>1. Len(held) + 1 \in 1 .. BLOCKS + DEFER_ITEMS_MAX_SIZE  BY DeferAssumption DEF BLOCKS
  <2> QED  BY <2>1, BlocksAreResources
<1>2. \A n \in 1 .. Len(held) : held[n] # r
  <2> SUFFICES ASSUME NEW n \in 1 .. Len(held) PROVE held[n] # r  OBVIOUS
  <2>1. n # Len(held) + 1 /\ n \in Int /\ Len(held) + 1 \in Int  OBVIOUS
  <2> QED  BY <2>1, BlocksAreResources DEF BlocksInOrder
<1> HIDE DEF r
<1>3. /\ held' \in Seq(Resource) /\ Len(held') = Len(held) + 1 /\ held'[Len(held) + 1] = r
      /\ \A n \in 1 .. Len(held) : held'[n] = held[n]
      /\ lost' = lost /\ misused' = misused /\ LifoStep
  BY <1>1, <1>2, AcquireIsLifo DEF r, LifoStep
<1>4. \A n \in 1 .. Len(held) + 1 : n \in 1 .. Len(held) \/ n = Len(held) + 1  OBVIOUS
<1>5. BlocksInOrder'  BY <1>3, <1>4 DEF BlocksInOrder, r, Block
<1> QED  BY <1>3, <1>5

LEMMA PopBlock ==
  ASSUME held \in Seq(Resource), misused = FALSE, BlocksInOrder, FreesInReverse,
         frees \in Seq(Nat), frees # << >>,
         Release(Block(Head(frees))), frees' = Tail(frees)
  PROVE  /\ held' \in Seq(Resource) /\ misused' = FALSE /\ lost' = lost /\ LifoStep
         /\ BlocksInOrder' /\ FreesInReverse' /\ frees' \in Seq(Nat)
<1>1. /\ Len(frees) = Len(held) /\ Len(held) \in Nat /\ Len(held) >= 1
      /\ \A n \in 1 .. Len(held) : frees[n] = Len(held) + 1 - n
  BY DEF FreesInReverse
<1>2. Head(frees) = Len(held)  BY <1>1
<1>3. held # << >> /\ held[Len(held)] = Block(Len(held))  BY <1>1 DEF BlocksInOrder
<1>4. \A n \in 1 .. Len(held) - 1 : held[n] # Block(Len(held))
  <2> SUFFICES ASSUME NEW n \in 1 .. Len(held) - 1 PROVE held[n] # Block(Len(held))
    OBVIOUS
  <2>1. n # Len(held) /\ n \in Int /\ Len(held) \in Int /\ n \in 1 .. Len(held)  BY <1>1
  <2> QED  BY <2>1, BlocksAreResources DEF BlocksInOrder
<1>5. /\ held' \in Seq(Resource) /\ misused' = FALSE /\ lost' = lost /\ LifoStep
      /\ Len(held') = Len(held) - 1
      /\ \A n \in 1 .. Len(held') : held'[n] = held[n]
  BY <1>2, <1>3, <1>4, ReleaseIsLifo DEF LifoStep
<1>6. BlocksInOrder'
  <2> SUFFICES ASSUME NEW n \in 1 .. Len(held') PROVE held'[n] = Block(n)
    BY DEF BlocksInOrder, Block
  <2>1. n \in 1 .. Len(held)  BY <1>1, <1>5
  <2> QED  BY <1>5, <2>1 DEF BlocksInOrder
<1>7. frees' \in Seq(Nat) /\ Len(frees') = Len(held')
      /\ \A n \in 1 .. Len(frees') : frees'[n] = frees[n + 1]
  BY <1>1, <1>5
<1>8. FreesInReverse'
  <2> SUFFICES ASSUME NEW n \in 1 .. Len(held') PROVE frees'[n] = Len(held') + 1 - n
    BY <1>7 DEF FreesInReverse
  <2>1. n + 1 \in 1 .. Len(held) /\ Len(held) + 1 - (n + 1) = Len(held') + 1 - n  BY <1>1, <1>5
  <2> QED  BY <1>1, <1>7, <2>1
<1> QED  BY <1>5, <1>6, <1>7, <1>8

\* A push of the last block, behind the assertion of defer.c.
LEMMA DeferPush ==
  ASSUME NEW kind \in KINDS, deferTypeOK, held \in Seq(Resource), ItemsAreHeld,
         Len(items) <= DEFER_ITEMS_MAX_SIZE, Len(held') = Len(held) + 1,
         defer_push(kind, Len(held) + 1)
  PROVE  \/ /\ step' = step /\ ItemsAreHeld' /\ Len(items') <= DEFER_ITEMS_MAX_SIZE
            /\ items' \in Seq([ kind : KINDS, block : Nat ])
         \/ /\ step' = "aborted" /\ Len(held') = DEFER_ITEMS_MAX_SIZE + 1
            /\ items' = items
<1>1. Len(items) \in Nat /\ Len(items) = Len(held) /\ items \in Seq([ kind : KINDS, block : Nat ])
  BY DEF deferTypeOK, ItemsAreHeld
<1>2. CASE ~DeferFull
  <2> DEFINE item == [ kind |-> kind, block |-> Len(held) + 1 ]
  <2>1. items' = Append(items, item) /\ step' = step  BY <1>2 DEF defer_push
  <2>2. item \in [ kind : KINDS, block : Nat ] /\ item.block = Len(held) + 1  BY <1>1
  <2> HIDE DEF item
  <2>3. /\ items' \in Seq([ kind : KINDS, block : Nat ])
        /\ Len(items') = Len(items) + 1 /\ items'[Len(items) + 1] = item
        /\ \A n \in 1 .. Len(items) : items'[n] = items[n]
    BY <1>1, <2>1, <2>2
  <2>4. \A n \in 1 .. Len(items) + 1 : n \in 1 .. Len(items) \/ n = Len(items) + 1
    BY <1>1
  <2>5. ItemsAreHeld'  BY <1>1, <2>2, <2>3, <2>4 DEF ItemsAreHeld
  <2>6. Len(items') <= DEFER_ITEMS_MAX_SIZE  BY <1>1, <1>2, <2>3, DeferAssumption DEF DeferFull
  <2> QED  BY <2>1, <2>3, <2>5, <2>6
<1>3. CASE DeferFull
  BY <1>1, <1>3, DeferAssumption DEF defer_push, DeferFull, GoTo
<1> QED  BY <1>2, <1>3

LEMMA deferStep ==
  ASSUME held \in Seq(Resource), misused = FALSE, rc \in Int, deferInv, DeferMain \/ DeferUser
  PROVE  /\ held' \in Seq(Resource) /\ misused' = FALSE /\ rc' \in Int
         /\ deferInv' /\ LifoStep
<1> USE DEF At, GoTo, KeepsAll, ledgerVars
<1>a. deferTypeOK /\ BlocksInOrder /\ lost = {} /\ Len(items) <= DEFER_ITEMS_MAX_SIZE
  BY DEF deferInv
<1>1. CASE malloc_block
  <2>1. /\ step = "malloc" /\ Len(held) = allocated /\ allocated \in 0 .. 3
        /\ frees = << >>
    BY <1>1, <1>a DEF malloc_block, deferInv, deferTypeOK, BLOCKS
  <2>2. Len(held) < BLOCKS + DEFER_ITEMS_MAX_SIZE /\ Acquire(Block(Len(held) + 1))
    BY <1>1, <2>1, DeferAssumption DEF malloc_block, BLOCKS
  <2>3. /\ held' \in Seq(Resource) /\ Len(held') = Len(held) + 1 /\ BlocksInOrder'
        /\ lost' = lost /\ misused' = misused /\ LifoStep
    BY <1>a, <2>2, PushBlock
  <2>4. allocated' = allocated + 1 /\ allocated' \in 0 .. BLOCKS
        /\ UNCHANGED << rc, function, done, frees >>
    BY <1>1, <2>1 DEF malloc_block, BLOCKS
  <2>5. CASE function # "defer_gotoless_approach"
    <3>1. UNCHANGED << step, items >>  BY <1>1, <2>5 DEF malloc_block
    <3> QED  BY <1>a, <2>1, <2>3, <2>4, <2>5, <3>1 DEF deferInv, deferTypeOK
  <2>6. CASE function = "defer_gotoless_approach"
    <3>1. defer_push("SINGLE_PTR_ARG", Len(held) + 1) /\ ItemsAreHeld
      BY <1>1, <2>1, <2>6 DEF malloc_block, deferInv
    <3>2. \/ /\ step' = step /\ ItemsAreHeld' /\ Len(items') <= DEFER_ITEMS_MAX_SIZE
             /\ items' \in Seq([ kind : KINDS, block : Nat ])
          \/ /\ step' = "aborted" /\ Len(held') = DEFER_ITEMS_MAX_SIZE + 1
             /\ items' = items
      BY <1>a, <2>3, <3>1, DeferPush DEF KINDS
    <3> QED  BY <1>a, <2>1, <2>3, <2>4, <3>2 DEF deferInv, deferTypeOK
  <2> QED  BY <2>5, <2>6
<1>2. CASE leave_function
  <2>1. step = "malloc" /\ step' = "free" /\ frees' = Frees(allocated + 1)
        /\ UNCHANGED << held, lost, misused, rc, function, done, allocated, items >>
    BY <1>2 DEF leave_function
  <2>2. frees' \in Seq(Nat) /\ FreesInReverse'  BY <2>1, FreesReverse DEF FreesInReverse
  <2>3. LifoStep /\ BlocksInOrder'  BY <1>a, <2>1 DEF LifoStep, BlocksInOrder
  <2> QED  BY <1>a, <2>1, <2>2, <2>3 DEF deferInv, deferTypeOK
<1>3. CASE free_block
  <2>1. /\ step = "free" /\ frees # << >> /\ Release(Block(Head(frees)))
        /\ frees' = Tail(frees) /\ UNCHANGED << step, rc, function, done, allocated, items >>
    BY <1>3 DEF free_block
  <2>2. FreesInReverse /\ frees \in Seq(Nat)  BY <2>1 DEF deferInv, deferTypeOK
  <2>3. /\ held' \in Seq(Resource) /\ misused' = FALSE /\ lost' = lost /\ LifoStep
        /\ BlocksInOrder' /\ FreesInReverse' /\ frees' \in Seq(Nat)
    BY <1>a, <2>1, <2>2, PopBlock
  <2> QED  BY <1>a, <2>1, <2>3 DEF deferInv, deferTypeOK
<1>4. CASE return_to_main
  <2>1. step = "free" /\ held = << >> /\ frees = << >>
    BY <1>4 DEF return_to_main, deferInv, FreesInReverse
  <2>2. /\ items' = << >> /\ allocated' = 0 /\ held' = held /\ frees' = frees
        /\ lost' = lost /\ misused' = misused /\ done' = done + 1 /\ done' \in Nat
        /\ \/ /\ done' < 3 /\ function' = Functions[done' + 1]
              /\ step' = "malloc" /\ rc' = rc
           \/ step' = "end" /\ rc' = 0 /\ function' = function
    BY <1>4, <1>a DEF return_to_main, deferTypeOK, Functions
  <2>3. function' \in {Functions[n] : n \in 1 .. 3}
    BY <1>a, <2>2 DEF deferTypeOK
  <2>4. LifoStep /\ BlocksInOrder' /\ ItemsAreHeld'
    BY <2>1, <2>2 DEF LifoStep, BlocksInOrder, ItemsAreHeld
  <2> QED  BY <1>a, <2>1, <2>2, <2>3, <2>4, DeferAssumption DEF deferInv, deferTypeOK, BLOCKS
<1>5. CASE user_defers
  <2>1. /\ step = "scope" /\ ItemsAreHeld /\ Len(held) = Len(items) /\ frees = << >>
        /\ UNCHANGED << rc, function, done, allocated, frees >>
    BY <1>5 DEF user_defers, deferInv, ItemsAreHeld
  <2>2. Len(held) < BLOCKS + DEFER_ITEMS_MAX_SIZE /\ Acquire(Block(Len(held) + 1))
    BY <1>5, <1>a, <2>1, DeferAssumption DEF user_defers, BLOCKS
  <2>3. /\ held' \in Seq(Resource) /\ Len(held') = Len(held) + 1 /\ BlocksInOrder'
        /\ lost' = lost /\ misused' = misused /\ LifoStep
    BY <1>a, <2>2, PushBlock
  <2>4. PICK kind \in KINDS : defer_push(kind, Len(held) + 1)
    BY <1>5, <2>1 DEF user_defers
  <2>5. \/ /\ step' = step /\ ItemsAreHeld' /\ Len(items') <= DEFER_ITEMS_MAX_SIZE
           /\ items' \in Seq([ kind : KINDS, block : Nat ])
        \/ /\ step' = "aborted" /\ Len(held') = DEFER_ITEMS_MAX_SIZE + 1
           /\ items' = items
    BY <1>a, <2>1, <2>3, <2>4, DeferPush
  <2> QED  BY <1>a, <2>1, <2>3, <2>5 DEF deferInv, deferTypeOK
<1>6. CASE user_ends_scope
  <2>1. step = "scope" /\ step' = "calls" /\ frees' = defer_scope_end
        /\ UNCHANGED << held, lost, misused, rc, function, done, allocated, items >>
    BY <1>6 DEF user_ends_scope
  <2>2. frees' \in Seq(Nat) /\ FreesInReverse'
    BY <1>a, <2>1, ScopeEndReverses DEF FreesInReverse, deferInv
  <2>3. LifoStep /\ BlocksInOrder'  BY <1>a, <2>1 DEF LifoStep, BlocksInOrder
  <2> QED  BY <1>a, <2>1, <2>2, <2>3 DEF deferInv, deferTypeOK
<1>7. CASE deferred_call
  <2>1. step = "calls" /\ FreesInReverse /\ frees \in Seq(Nat)
        /\ UNCHANGED << function, allocated >>
    BY <1>7 DEF deferred_call, deferInv, deferTypeOK
  <2>2. CASE frees # << >>
    <3>1. /\ Release(Block(Head(frees))) /\ frees' = Tail(frees)
          /\ UNCHANGED << step, rc, done, items >>
      BY <1>7, <2>2 DEF deferred_call
    <3>2. /\ held' \in Seq(Resource) /\ misused' = FALSE /\ lost' = lost /\ LifoStep
          /\ BlocksInOrder' /\ FreesInReverse' /\ frees' \in Seq(Nat)
      BY <1>a, <2>1, <2>2, <3>1, PopBlock
    <3> QED  BY <1>a, <2>1, <3>1, <3>2 DEF deferInv, deferTypeOK
  <2>3. CASE frees = << >>
    <3>1. /\ items' = << >> /\ done' = done + 1 /\ held' = held /\ lost' = lost
          /\ misused' = misused /\ frees' = frees
          /\ \/ step' = "end" /\ rc' = 0
             \/ step' = "scope" /\ rc' = rc
      BY <1>7, <2>3 DEF deferred_call
    <3>2. held = << >>  BY <2>1, <2>3 DEF FreesInReverse
    <3>3. LifoStep /\ BlocksInOrder' /\ ItemsAreHeld'
      BY <3>1, <3>2 DEF LifoStep, BlocksInOrder, ItemsAreHeld
    <3> QED  BY <1>a, <2>1, <2>3, <3>1, <3>2, <3>3, DeferAssumption DEF deferInv, deferTypeOK
  <2> QED  BY <2>2, <2>3
<1> QED  BY <1>1, <1>2, <1>3, <1>4, <1>5, <1>6, <1>7 DEF DeferMain, DeferUser

-----------------------------------------------------------------------------
(* scgi_memory.                                                            *)

LEMMA SizeT ==
  /\ \A n \in Nat : size_t(n) \in Nat
  /\ \A n \in 0 .. SIZE_MAX : size_t(n) = n
BY ScgiMemoryAssumption DEF size_t

LEMMA AllocateKeepsOrder ==
  ASSUME memoryInv, NEW n \in Sizes, ~Refused(n), fixed_buffer_allocator_malloc(n)
  PROVE  /\ used' \in Nat /\ blocks' \in Seq([ start : Nat, size : Nat \ {0} ])
         /\ Len(blocks') = Len(blocks) + 1
         /\ NoSizeWraps' => AllocatedInOrder'
<1> DEFINE Blk == [ start : Nat, size : Nat \ {0} ]
           new == [ start |-> used, size |-> n ]
<1>1. /\ blocks \in Seq(Blk) /\ used \in Nat /\ n \in Nat \ {0}
      /\ Len(blocks) \in Nat
  BY ScgiMemoryAssumption DEF memoryInv, memoryTypeOK
<1>2. blocks' = Append(blocks, new) /\ used' = size_t(used + n) /\ used' <= BUFFER_LEN
  BY <1>1, SizeT, ScgiMemoryAssumption DEF fixed_buffer_allocator_malloc, Refused
<1>3. used' \in Nat  BY <1>1, <1>2, SizeT
<1>4. new \in Blk /\ new.start = used /\ new.size = n  BY <1>1
<1> HIDE DEF Blk, new
<1>5. /\ blocks' \in Seq(Blk) /\ Len(blocks') = Len(blocks) + 1
      /\ blocks'[Len(blocks) + 1] = new
      /\ \A k \in 1 .. Len(blocks) : blocks'[k] = blocks[k]
  BY <1>1, <1>2, <1>4
<1>6. ASSUME NoSizeWraps' PROVE AllocatedInOrder'
  <2>1. NoSizeWraps  BY <1>1, <1>5, <1>6 DEF NoSizeWraps
  <2>2. n <= SIZE_MAX - BUFFER_LEN  BY <1>1, <1>4, <1>5, <1>6 DEF NoSizeWraps
  <2>3. AllocatedInOrder  BY <2>1 DEF memoryInv
  <2>4. used + n \in 0 .. SIZE_MAX
    BY <1>1, <2>2, <2>3, ScgiMemoryAssumption DEF AllocatedInOrder
  <2>5. used' = used + n  BY <1>2, <2>4, SizeT
  <2>6. blocks' # << >> /\ BlockEnd(Len(blocks))' = used'
    BY <1>1, <1>4, <1>5, <2>5 DEF BlockEnd
  <2>7. \A k \in 1 .. Len(blocks) : BlockEnd(k)' = BlockEnd(k)  BY <1>5 DEF BlockEnd
  <2>8. ASSUME NEW k \in 1 .. Len(blocks') PROVE BlockEnd(k)' <= BUFFER_LEN
    <3>1. CASE k = Len(blocks) + 1  BY <1>2, <1>4, <1>5, <2>5, <3>1 DEF BlockEnd
    <3>2. CASE k \in 1 .. Len(blocks)  BY <2>3, <2>7, <3>2 DEF AllocatedInOrder
    <3> QED  BY <1>1, <1>5, <3>1, <3>2
  <2>9. ASSUME NEW k \in 2 .. Len(blocks') PROVE blocks'[k].start = BlockEnd(k - 1)'
    <3>1. CASE k = Len(blocks) + 1
      <4>1. Len(blocks) \in 1 .. Len(blocks) /\ k - 1 = Len(blocks) /\ blocks # << >>
        BY <1>1, <3>1
      <4>2. BlockEnd(Len(blocks)) = used  BY <2>3, <4>1 DEF AllocatedInOrder
      <4> QED  BY <1>4, <1>5, <2>7, <3>1, <4>1, <4>2
    <3>2. CASE k \in 2 .. Len(blocks)
      <4>1. k \in 1 .. Len(blocks) /\ k - 1 \in 1 .. Len(blocks)  BY <1>1, <3>2
      <4> QED  BY <1>5, <2>3, <2>7, <3>2, <4>1 DEF AllocatedInOrder
    <3> QED  BY <1>1, <1>5, <3>1, <3>2
  <2> QED  BY <1>2, <2>6, <2>8, <2>9 DEF AllocatedInOrder, BlockEnd
<1> QED  BY <1>3, <1>5, <1>6 DEF Blk

LEMMA memoryStep ==
  ASSUME rc \in Int, memoryInv, MemoryUser
  PROVE  held' = held /\ misused' = misused /\ rc' \in Int /\ memoryInv'
<1> USE DEF At, GoTo, KeepsAll, ledgerVars, processVars
<1>a. memoryTypeOK /\ held = << >> /\ lost = {}  BY DEF memoryInv
<1>1. CASE allocate
  <2>1. /\ step = "allocate" /\ reader.block = 0 /\ \A a \in DOMAIN bytes : bytes[a] # "digit"
        /\ UNCHANGED << step, rc, held, lost, misused, reader >>
    BY <1>1 DEF allocate, memoryInv, NoDigits
  <2>2. PICK n \in Sizes :
          /\ ~Refused(n) /\ fixed_buffer_allocator_malloc(n)
          /\ \/ UNCHANGED bytes
             \/ bytes' = [ a \in DOMAIN bytes |->
                             IF a \in used .. used + n - 1 THEN "zero" ELSE bytes[a] ]
    BY <1>1 DEF allocate
  <2>3. /\ used' \in Nat /\ blocks' \in Seq([ start : Nat, size : Nat \ {0} ])
        /\ Len(blocks') = Len(blocks) + 1
        /\ NoSizeWraps' => AllocatedInOrder'
    BY <2>2, AllocateKeepsOrder
  <2>4. DOMAIN bytes' = DOMAIN bytes /\ \A a \in DOMAIN bytes : bytes'[a] # "digit"
    BY <2>1, <2>2
  <2>5. reader' \in [ block : 0 .. Len(blocks'), cursor : Nat, max_digits : Nat ]
    BY <1>a, <2>1, <2>3 DEF memoryTypeOK
  <2>6. NoDigits'  BY <2>1, <2>4 DEF NoDigits
  <2>7. memoryTypeOK'
    <3>1. step' = "allocate" /\ DOMAIN bytes' = 0 .. BUFFER_LEN - 1
      BY <1>a, <2>1, <2>4 DEF memoryTypeOK
    <3> QED  BY <2>3, <2>5, <3>1 DEF memoryTypeOK
  <2>8. step' = "allocate" /\ rc' = rc /\ held' = held /\ lost' = lost /\ misused' = misused
    BY <2>1
  <2>9. NoSizeWraps' => AllocatedInOrder'  BY <2>3
  <2> QED  BY <1>a, <2>6, <2>7, <2>8, <2>9 DEF memoryInv
<1>2. CASE buffered_reader_init
  <2>1. /\ step = "allocate" /\ step' = "read" /\ \A a \in DOMAIN bytes : bytes[a] # "digit"
        /\ UNCHANGED << rc, held, lost, misused, bytes, used, blocks >>
    BY <1>2 DEF buffered_reader_init, memoryInv, NoDigits
  <2>2. PICK b \in 1 .. Len(blocks), m \in MaxDigits :
          reader' = [ block |-> b, cursor |-> blocks[b].start, max_digits |-> m ]
    BY <1>2 DEF buffered_reader_init
  <2>3. blocks[b].start \in Nat /\ blocks[b].size \in Nat \ {0} /\ m \in Nat /\ b # 0
    <3>1. blocks[b] \in [ start : Nat, size : Nat \ {0} ]
      BY <1>a, ElementOfSeq DEF memoryTypeOK
    <3> QED  BY <3>1, ScgiMemoryAssumption
  <2>4. reader' \in [ block : 0 .. Len(blocks), cursor : Nat, max_digits : Nat ]
        /\ reader'.block = b /\ reader'.cursor = blocks[b].start
    BY <2>2, <2>3
  <2>5. blocks[b].start \in blocks[b].start .. BlockEnd(b)  BY <2>3 DEF BlockEnd
  <2>6. \A a \in DOMAIN bytes : a \notin blocks[b].start .. blocks[b].start - 1
    <3>1. \A n \in Nat, a \in Int : a \notin n .. n - 1  OBVIOUS
    <3>2. \A a \in DOMAIN bytes : a \in Int  BY <1>a, ScgiMemoryAssumption DEF memoryTypeOK
    <3> QED  BY <2>3, <3>1, <3>2
  <2>7. NoSizeWraps' => AllocatedInOrder'
    BY <2>1 DEF BlockEnd, memoryInv, NoSizeWraps, AllocatedInOrder
  <2>8. reader'.cursor \in blocks'[reader'.block].start .. BlockEnd(reader.block)'
    BY <2>1, <2>4, <2>5 DEF BlockEnd
  <2>9. \A a \in DOMAIN bytes' :
          bytes'[a] = "digit" <=> a \in blocks'[reader'.block].start .. reader'.cursor - 1
    BY <2>1, <2>4, <2>6
  <2>10. ReaderInBlock'  BY <2>3, <2>4, <2>8, <2>9 DEF ReaderInBlock
  <2> QED  BY <1>a, <2>1, <2>4, <2>7, <2>10 DEF memoryInv, memoryTypeOK
<1>3. CASE reader_returns
  <2>1. /\ step = "read" /\ step' = "end" /\ rc' \in {0, 1}
        /\ UNCHANGED << held, lost, misused, bytes, used, blocks, reader >>
    BY <1>3 DEF reader_returns
  <2>2. (NoSizeWraps' => AllocatedInOrder') /\ ReaderInBlock'
    BY <2>1 DEF memoryInv, NoSizeWraps, AllocatedInOrder, ReaderInBlock, BlockEnd
  <2> QED  BY <1>a, <2>1, <2>2 DEF memoryInv, memoryTypeOK
<1>4. CASE reader_stores
  <2> DEFINE b == reader.block
             c == reader.cursor
  <2>1. /\ step = "read" /\ ~ReaderFull
        /\ bytes' = [ a \in DOMAIN bytes |-> IF a = c THEN "digit" ELSE bytes[a] ]
        /\ reader' = [ reader EXCEPT !.cursor = c + 1 ]
        /\ UNCHANGED << step, rc, held, lost, misused, used, blocks >>
    BY <1>4 DEF reader_stores
  <2>2. /\ b \in 1 .. Len(blocks) /\ c \in Nat
        /\ blocks[b].start \in Nat /\ blocks[b].size \in Nat
        /\ c \in blocks[b].start .. BlockEnd(b)
        /\ \A a \in DOMAIN bytes : bytes[a] = "digit" <=> a \in blocks[b].start .. c - 1
    <3>1. ReaderInBlock  BY <2>1 DEF memoryInv
    <3>2. b \in 1 .. Len(blocks) /\ c \in Nat  BY <1>a, <3>1 DEF memoryTypeOK, ReaderInBlock
    <3>3. blocks[b] \in [ start : Nat, size : Nat \ {0} ]
      BY <1>a, <3>2, ElementOfSeq DEF memoryTypeOK
    <3> QED  BY <3>1, <3>2, <3>3 DEF ReaderInBlock
  <2>3. /\ reader' \in [ block : 0 .. Len(blocks), cursor : Nat, max_digits : Nat ]
        /\ reader'.block = b /\ reader'.cursor = c + 1
    <3> DEFINE next == c + 1
    <3>1. next \in Nat /\ reader' = [ reader EXCEPT !.cursor = next ]  BY <2>1, <2>2
    <3>2. reader \in [ block : 0 .. Len(blocks), cursor : Nat, max_digits : Nat ]
      BY <1>a DEF memoryTypeOK
    <3> HIDE DEF next
    <3>3. /\ reader' \in [ block : 0 .. Len(blocks), cursor : Nat, max_digits : Nat ]
          /\ reader'.block = b /\ reader'.cursor = next
      BY <3>1, <3>2
    <3> QED  BY <3>3 DEF next
  <2> HIDE DEF b, c
  <2>4. c + 1 \in blocks[b].start .. BlockEnd(b)
    <3>1. ~ (c >= BlockEnd(b))  BY <2>1 DEF ReaderFull, b, c
    <3>2. BlockEnd(b) \in Nat  BY <2>2 DEF BlockEnd
    <3> QED  BY <2>2, <3>1, <3>2
  <2>5. DOMAIN bytes' = DOMAIN bytes /\ \A a \in DOMAIN bytes : a \in Int
    BY <1>a, <2>1, ScgiMemoryAssumption DEF memoryTypeOK
  <2>6. \A a \in Int : a \in blocks[b].start .. c + 1 - 1 <=> a = c \/ a \in blocks[b].start .. c - 1
    BY <2>2
  <2>7. \A a \in DOMAIN bytes' :
          bytes'[a] = "digit" <=> a \in blocks'[reader'.block].start .. reader'.cursor - 1
    BY <2>1, <2>2, <2>3, <2>5, <2>6
  <2>8. NoSizeWraps' => AllocatedInOrder'
    BY <2>1 DEF BlockEnd, memoryInv, NoSizeWraps, AllocatedInOrder
  <2>9. reader'.cursor \in blocks'[reader'.block].start .. BlockEnd(reader.block)'
    BY <2>1, <2>3, <2>4 DEF BlockEnd
  <2>10. ReaderInBlock'  BY <2>2, <2>3, <2>7, <2>9 DEF ReaderInBlock
  <2> QED  BY <1>a, <2>1, <2>3, <2>5, <2>8, <2>10 DEF memoryInv, memoryTypeOK
<1> QED  BY <1>1, <1>2, <1>3, <1>4 DEF MemoryUser

-----------------------------------------------------------------------------
(* All programs.                                                           *)

LEMMA InvInit == Init => Inv
<1> SUFFICES ASSUME Init PROVE Inv  OBVIOUS
<1>1. /\ program \in DOMAIN Start /\ step = Start[program]
      /\ held = << >> /\ misused = FALSE /\ rc = -1 /\ lost = {}
      /\ DeferInit /\ UncompressInit /\ ResponseInit /\ MemoryInit
  BY DEF Init, LedgerInit
<1>2. held \in Seq(Resource) /\ rc \in Int  BY <1>1
<1>3. program = "zlib" => zlibInv
  BY <1>1 DEF Start, UncompressInit, zlibInv, zlibTypeOK, zlibHeld, zlibBytes, zlibResult
<1>7. program = "hash_table" => step = "table"  BY <1>1 DEF Start
<1>4. program = "curl" => curlInv
  BY <1>1 DEF Start, ResponseInit, curlInv, curlTypeOK, curlHeld, curlBytes
<1>5. program \in {"defer", "defer_user"} => deferInv
  <2>1. /\ function = Functions[1] /\ done = 0 /\ allocated = 0
        /\ frees = << >> /\ items = << >>
    BY <1>1 DEF DeferInit, Functions
  <2>2. frees \in Seq(Nat) /\ items \in Seq([ kind : KINDS, block : Nat ])  BY <2>1
  <2>3. program \in {"defer", "defer_user"} => step \in {"malloc", "scope"}  BY <1>1 DEF Start
  <2>4. BlocksInOrder /\ ItemsAreHeld /\ Len(held) = 0 /\ Len(items) = 0
    BY <1>1, <2>1 DEF BlocksInOrder, ItemsAreHeld
  <2> QED  BY <1>1, <2>1, <2>2, <2>3, <2>4, DeferAssumption DEF deferInv, deferTypeOK, BLOCKS
<1>6. program = "scgi_memory" => memoryInv
  <2>1. program = "scgi_memory" => step = "allocate"  BY <1>1 DEF Start
  <2>2. memoryTypeOK \/ program # "scgi_memory"
    BY <1>1, <2>1, ScgiMemoryAssumption DEF MemoryInit, memoryTypeOK
  <2>3. NoDigits  BY <1>1 DEF MemoryInit, NoDigits
  <2>4. AllocatedInOrder
    BY <1>1, ScgiMemoryAssumption DEF MemoryInit, AllocatedInOrder
  <2> QED  BY <1>1, <2>1, <2>2, <2>3, <2>4 DEF memoryInv
<1> QED  BY <1>1, <1>2, <1>3, <1>4, <1>5, <1>6, <1>7 DEF Inv, ResponseInit

LEMMA InvNext == Inv /\ [Next]_vars => Inv' /\ LifoStep
<1> SUFFICES ASSUME Inv, [Next]_vars PROVE Inv' /\ LifoStep  OBVIOUS
<1>a. held \in Seq(Resource) /\ misused = FALSE /\ rc \in Int /\ program \in DOMAIN Start
  BY DEF Inv
<1>1. CASE UNCHANGED << program, resourceVars >>
  <2>1. /\ UNCHANGED << program, step, rc, held, lost, misused >>
        /\ UNCHANGED deferVars /\ UNCHANGED uncompressVars
        /\ UNCHANGED responseVars /\ UNCHANGED memoryVars
    BY <1>1 DEF resourceVars, processVars, ledgerVars
  <2>2. zlibInv => zlibInv'
    BY <2>1 DEF uncompressVars, zlibInv, zlibTypeOK, zlibHeld, zlibBytes, zlibResult, len,
                ToUnsigned
  <2>3. curlInv => curlInv'
    BY <2>1 DEF responseVars, curlInv, curlTypeOK, curlHeld, curlBytes
  <2>4. deferInv => deferInv'
    BY <2>1 DEF deferVars, deferInv, deferTypeOK, BlocksInOrder, ItemsAreHeld, FreesInReverse
  <2>5. memoryInv => memoryInv'
    BY <2>1 DEF memoryVars, memoryInv, memoryTypeOK, NoSizeWraps, AllocatedInOrder,
                BlockEnd, NoDigits, ReaderInBlock
  <2>6. MemoryInit => MemoryInit'  BY <2>1 DEF memoryVars, MemoryInit
  <2>7. LifoStep  BY <2>1 DEF LifoStep
  <2> QED  BY <2>1, <2>2, <2>3, <2>4, <2>5, <2>6, <2>7 DEF Inv, responseVars
<1>2. CASE /\ program \in {"defer", "defer_user"} /\ (DeferMain \/ DeferUser) /\ program' = program
           /\ UNCHANGED << uncompressVars, responseVars, memoryVars >>
  <2>1. /\ held' \in Seq(Resource) /\ misused' = FALSE /\ rc' \in Int
        /\ deferInv' /\ LifoStep
    BY <1>2, <1>a, deferStep DEF Inv
  <2> QED  BY <1>2, <1>a, <2>1 DEF Inv, responseVars, memoryVars, MemoryInit
<1>3. CASE /\ program = "zlib" /\ hbmo_uncompress /\ program' = program
           /\ UNCHANGED << deferVars, responseVars, memoryVars >>
  <2>1. /\ held' \in Seq(Resource) /\ misused' = FALSE /\ rc' \in Int
        /\ zlibInv' /\ LifoStep
    BY <1>3, <1>a, zlibStep DEF Inv
  <2> QED  BY <1>3, <1>a, <2>1 DEF Inv, responseVars, memoryVars, MemoryInit
<1>4. CASE /\ program = "curl" /\ CurlMain /\ program' = program
           /\ UNCHANGED << deferVars, uncompressVars, memoryVars >>
  <2>1. /\ held' \in Seq(Resource) /\ misused' = FALSE /\ rc' \in Int
        /\ curlInv' /\ LifoStep
    BY <1>4, <1>a, curlStep DEF Inv
  <2> QED  BY <1>4, <1>a, <2>1 DEF Inv, memoryVars, MemoryInit
<1>5. CASE /\ program = "scgi_memory" /\ MemoryUser /\ program' = program
           /\ UNCHANGED << deferVars, uncompressVars, responseVars >>
  <2>1. held' = held /\ misused' = misused /\ rc' \in Int /\ memoryInv'
    BY <1>5, <1>a, memoryStep DEF Inv
  <2>2. LifoStep  BY <2>1 DEF LifoStep
  <2> QED  BY <1>5, <1>a, <2>1, <2>2 DEF Inv, responseVars
<1>6. UsesResources => \/ /\ program \in {"defer", "defer_user"} /\ (DeferMain \/ DeferUser)
                        /\ program' = program
                        /\ UNCHANGED << uncompressVars, responseVars, memoryVars >>
                     \/ /\ program = "zlib" /\ hbmo_uncompress /\ program' = program
                        /\ UNCHANGED << deferVars, responseVars, memoryVars >>
                     \/ /\ program = "curl" /\ CurlMain /\ program' = program
                        /\ UNCHANGED << deferVars, uncompressVars, memoryVars >>
                     \/ /\ program = "scgi_memory" /\ MemoryUser /\ program' = program
                        /\ UNCHANGED << deferVars, uncompressVars, responseVars >>
  BY DEF UsesResources
<1>7. UsesTable \/ UNCHANGED vars => UNCHANGED << program, resourceVars >>
  BY DEF UsesTable, vars
<1> QED  BY <1>1, <1>2, <1>3, <1>4, <1>5, <1>6, <1>7 DEF Next

LEMMA Invariance == Spec => []Inv
<1>1. Inv /\ [Next]_vars => Inv'  BY InvNext
<1> QED  BY <1>1, InvInit, PTL DEF Spec

-----------------------------------------------------------------------------
\* Whatever call fails in defer/main.c, hbmo_uncompress or hello-libcurl.c, and for
\* any number of deferred calls, what the program holds is given up in the reverse
\* order, each thing once: the programs implement LifoResources.
THEOREM CleanUpIsLifo == Spec => ReleasedInReverse
<1>1. Init => held = << >>  BY DEF Init, LedgerInit
<1>2. Inv /\ [Next]_vars => [Lifo!Obtain \/ Lifo!GiveUp]_held
  BY InvNext DEF LifoStep
<1>3. Inv => ~misused  BY DEF Inv
<1> QED  BY <1>1, <1>2, <1>3, Invariance, PTL DEF Spec, Lifo!Spec, ReleasedInReverse

\* At the end of every program, and on exit, nothing is held; only the body whose
\* buffer could not grow (hello-libcurl.c:35) is lost, and a full array of deferred
\* calls aborts with exactly one block more than it has room for.
THEOREM NothingStaysHeld == Spec => []NothingLeftHeld
<1>1. Inv => NothingLeftHeld
  <2> SUFFICES ASSUME Inv PROVE NothingLeftHeld  OBVIOUS
  <2>1. CASE program = "zlib"
    BY <2>1 DEF Inv, NothingLeftHeld, zlibInv, zlibTypeOK, zlibHeld
  <2>2. CASE program = "curl"
    BY <2>2 DEF Inv, NothingLeftHeld, curlInv, curlTypeOK, curlHeld, curlBytes
  <2>3. CASE program \in {"defer", "defer_user"}
    BY <2>3 DEF Inv, NothingLeftHeld, deferInv, deferTypeOK
  <2>4. CASE program = "scgi_memory"
    BY <2>4 DEF Inv, NothingLeftHeld, memoryInv, memoryTypeOK
  <2>5. CASE program = "hash_table"
    BY <2>5 DEF Inv, NothingLeftHeld
  <2> QED  BY <2>1, <2>2, <2>3, <2>4, <2>5 DEF Inv, Start
<1> QED  BY <1>1, Invariance, PTL

\* For any file, any size of the chunk and any width of an unsigned int: when
\* hbmo_uncompress returns 0, fwrite was given all that was compressed unless gzclose
\* told otherwise or the size passed to gzread was 0 as an unsigned int, and all that
\* fwrite took is in the file unless fclose told otherwise.
THEOREM OutputIsShortOnlyForCause == Spec => []OutputShortOnlyForCause
<1>1. Inv => OutputShortOnlyForCause
  BY DEF Inv, OutputShortOnlyForCause, zlibInv, zlibResult, zlibTypeOK
<1> QED  BY <1>1, Invariance, PTL

\* For pieces of any length the body is never written outside its block, through
\* every growth by res_body_write_callback.  When main succeeds it was collected whole,
\* and if its length is an int, all that stands in front of the first NUL byte was
\* printed and nothing behind it read.
THEOREM BodyIsPrinted == Spec => []BodyPrinted
<1>1. Inv => BodyPrinted  BY DEF Inv, BodyPrinted, curlInv, curlBytes
<1> QED  BY <1>1, Invariance, PTL

\* For a buffer of any length the blocks of fixed_buffer_allocator_malloc lie behind
\* each other in it, as long as no size makes the sum wrap, and the reader writes
\* its digits into its own block only.
THEOREM BlocksAreApart == Spec => []BlocksStayApart
<1>1. Inv => BlocksStayApart
  <2> SUFFICES ASSUME Inv, NoSizeWraps
               PROVE  /\ \A k \in 1 .. Len(blocks) :
                           /\ BlockEnd(k) <= BUFFER_LEN
                           /\ k > 1 => blocks[k].start = BlockEnd(k - 1)
                      /\ \A a \in DOMAIN bytes :
                           bytes[a] = "digit" <=>
                             /\ step \in {"read", "end"} /\ program = "scgi_memory"
                             /\ a \in blocks[reader.block].start .. reader.cursor - 1
                      /\ reader.block # 0 => reader.cursor <= BlockEnd(reader.block)
    BY DEF BlocksStayApart
  <2>1. CASE program # "scgi_memory"
    BY <2>1 DEF Inv, MemoryInit
  <2>2. CASE program = "scgi_memory"
    <3>1. memoryTypeOK /\ AllocatedInOrder  BY <2>2 DEF Inv, memoryInv
    <3>2. \A k \in 1 .. Len(blocks) : BlockEnd(k) <= BUFFER_LEN
                                     /\ (k > 1 => blocks[k].start = BlockEnd(k - 1))
      BY <3>1 DEF AllocatedInOrder, memoryTypeOK
    <3>3. CASE step = "allocate"
      BY <2>2, <3>2, <3>3 DEF Inv, memoryInv, NoDigits
    <3>4. CASE step # "allocate"
      <4>1. ReaderInBlock /\ step \in {"read", "end"}
        BY <2>2, <3>1, <3>4 DEF Inv, memoryInv, memoryTypeOK
      <4>2. reader.block \in 1 .. Len(blocks)  BY <3>1, <4>1 DEF memoryTypeOK, ReaderInBlock
      <4>3. blocks[reader.block] \in [ start : Nat, size : Nat \ {0} ]
        BY <3>1, <4>2, ElementOfSeq DEF memoryTypeOK
      <4>4. reader.cursor <= BlockEnd(reader.block)
        BY <4>1, <4>3 DEF ReaderInBlock, BlockEnd
      <4> QED  BY <2>2, <3>2, <4>1, <4>4 DEF ReaderInBlock
    <3> QED  BY <3>3, <3>4
  <2> QED  BY <2>1, <2>2
<1> QED  BY <1>1, Invariance, PTL
=============================================================================
