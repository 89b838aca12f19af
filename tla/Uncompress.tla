----------------------------- MODULE Uncompress -----------------------------
(***************************************************************************)
(* zlib-uncompress.c: hbmo_uncompress, which reads a gzip file in chunks,  *)
(* writes what comes out, and leaves through a ladder of labels.  main does*)
(* not call it in this commit; the caller here is any.  zlib and stdio are *)
(* external: the output is buffered until fclose, and a gzip file that is  *)
(* cut short looks to gzread like one that ends; only gzclose tells.       *)
(***************************************************************************)
EXTENDS ResourceLedger, FiniteSetsExt

CONSTANTS BufferSizes,  \* values of params->buffer_size
          MaxBytes      \* bound: how much the compressed file holds

ASSUME UncompressAssumption == BufferSizes \subseteq Nat /\ MaxBytes \in Nat

VARIABLES buffer_size,  \* params->buffer_size
          input, total, \* the compressed file: its kind, and what it should hold
          readable,     \* bytes gzread can still return
          chunk,        \* bytes in the chunk
          accepted,     \* bytes fwrite took
          on_disk,      \* bytes that reached the output file for good
          ignored       \* calls that reported a failure nobody looked at

uncompressVars == << buffer_size, input, total, readable, chunk, accepted,
                     on_disk, ignored >>

InputKinds == {"whole", "truncated", "corrupt"}

UncompressInit ==
  /\ buffer_size = 0 /\ input = "whole" /\ total = 0 /\ readable = 0
  /\ chunk = 0 /\ accepted = 0 /\ on_disk = 0 /\ ignored = {}

Fails(label, result) == GoTo(label) /\ rc' = result /\ KeepsAll

\* The call, with its check of the size, and buffer_alloc: no memory ends the
\* process.
buffer_alloc ==
  /\ At("uncompress")
  /\ buffer_size' \in BufferSizes
  /\ \/ buffer_size' < 2 /\ Fails("end", 1)
     \/ buffer_size' >= 2 /\ Fails("exited", rc)
     \/ buffer_size' >= 2 /\ GoTo("gzopen") /\ Acquire(<< "chunk", 1 >>) /\ UNCHANGED rc
  /\ UNCHANGED << input, total, readable, chunk, accepted, on_disk, ignored >>

\* gzopen.  Of a truncated file less can be read than was compressed.
open_input ==
  /\ At("gzopen")
  /\ \/ Fails("err_buffer_free", 1) /\ UNCHANGED << input, total, readable >>
     \/ /\ GoTo("fopen") /\ Acquire(<< "input", 1 >>) /\ UNCHANGED rc
        /\ input' \in InputKinds
        /\ total' \in 0 .. MaxBytes
        /\ readable' \in 0 .. total'
        /\ readable' = total' <=> input' # "truncated"
  /\ UNCHANGED << buffer_size, chunk, accepted, on_disk, ignored >>

open_output ==
  /\ At("fopen")
  /\ \/ Fails("err_close_input_file", 1)
     \/ GoTo("gzread") /\ Acquire(<< "output", 1 >>) /\ UNCHANGED rc
  /\ UNCHANGED uncompressVars

\* The length gzread is asked for, an unsigned int.
len == ToUnsigned(buffer_size)

\* gzread returns -1, a chunk, or 0 at the end.  A corrupt file has no end.  A length
\* that is negative as an int is an error, and of length 0 nothing can be read,
\* which looks like the end.
read_chunk ==
  /\ At("gzread")
  /\ \/ Fails("err_close_output_file", 1) /\ UNCHANGED << readable, chunk >>
     \/ /\ readable > 0 /\ len \in 1 .. INT_MAX
        /\ chunk' = Min({len, readable})
        /\ readable' = readable - chunk'
        /\ GoTo("fwrite") /\ KeepsAll /\ UNCHANGED rc
     \/ /\ len = 0 \/ (len <= INT_MAX /\ readable = 0 /\ input # "corrupt")
        /\ Fails("fclose", 0)
        /\ UNCHANGED << readable, chunk >>
  /\ UNCHANGED << buffer_size, input, total, accepted, on_disk, ignored >>

\* Mutated form of write_chunk: ferror is not asked.
write_chunk_unasked ==
  /\ At("fwrite")
  /\ accepted' \in {accepted, accepted + chunk}
  /\ GoTo("gzread") /\ KeepsAll /\ UNCHANGED rc
  /\ UNCHANGED << buffer_size, input, total, readable, chunk, on_disk, ignored >>

\* fwrite takes the whole chunk, or ferror tells.
write_chunk ==
  /\ At("fwrite")
  /\ \/ Fails("err_close_output_file", 1) /\ UNCHANGED accepted
     \/ /\ accepted' = accepted + chunk
        /\ GoTo("gzread") /\ KeepsAll /\ UNCHANGED rc
  /\ UNCHANGED << buffer_size, input, total, readable, chunk, on_disk, ignored >>

\* fclose writes what stdio still holds; its result is not used.
close_output ==
  /\ At("fclose") \/ At("err_close_output_file")
  /\ GoTo("err_close_input_file")
  /\ Release(<< "output", 1 >>)
  /\ \/ on_disk' = accepted /\ UNCHANGED ignored
     \/ /\ accepted > 0 /\ on_disk' \in 0 .. accepted - 1
        /\ ignored' = ignored \cup {"fclose"}
  /\ UNCHANGED << rc, buffer_size, input, total, readable, chunk, accepted >>

\* The result of gzclose, which tells of a truncated file, is not used either.
close_input ==
  /\ At("err_close_input_file") /\ GoTo("err_buffer_free")
  /\ Release(<< "input", 1 >>)
  /\ ignored' = IF input = "truncated" /\ readable = 0
                THEN ignored \cup {"gzclose"} ELSE ignored
  /\ UNCHANGED << rc, buffer_size, input, total, readable, chunk, accepted, on_disk >>

free_chunk ==
  /\ At("err_buffer_free") /\ GoTo("end")
  /\ Release(<< "chunk", 1 >>)
  /\ UNCHANGED << rc, uncompressVars >>

hbmo_uncompress ==
  \/ buffer_alloc \/ open_input \/ open_output \/ read_chunk \/ write_chunk
  \/ close_output \/ close_input \/ free_chunk
=============================================================================
