--------------------------- MODULE AqlsTokenQueue ---------------------------
(***************************************************************************)
(* token/queue.c: the ring buffer of tokens the AQLS lexer keeps its       *)
(* lookahead in.  `end` is the slot the next token goes to, `start` the    *)
(* slot of the oldest one, and len tells a full buffer from an empty one.  *)
(***************************************************************************)
EXTENDS Integers, Sequences

CONSTANTS Token,
          NoToken,   \* what calloc leaves in a slot
          capacity   \* AQLS_LOOKAHEAD for the lexer's queue

ASSUME QueueAssumption == capacity \in Nat \ {0} /\ NoToken \notin Token

VARIABLE queue

Slot == 0 .. capacity - 1

QueueTypeOK ==
  queue \in [ items : [Slot -> Token \cup {NoToken}], start : Slot, end : Slot,
              len : 0 .. capacity ]

aqls_token_queue_init ==
  queue = [ items |-> [ s \in Slot |-> NoToken ], start |-> 0, end |-> 0, len |-> 0 ]

aqls_token_queue_is_empty == queue.len = 0
aqls_token_queue_is_full  == queue.len = capacity

aqls_token_queue_peek == queue.items[queue.start]

\* Mutated form of aqls_token_queue_append: the end stays where it is.
append_in_place(item) ==
  /\ ~aqls_token_queue_is_full
  /\ queue' = [ queue EXCEPT !.items[queue.end] = item, !.len = @ + 1 ]

\* Its assertion that there is room is the guard.
aqls_token_queue_append(item) ==
  /\ ~aqls_token_queue_is_full
  /\ queue' = [ queue EXCEPT !.items[queue.end] = item,
                             !.end = (@ + 1) % capacity,
                             !.len = @ + 1 ]

\* Its assertion that there is a token is the guard.
aqls_token_queue_pop ==
  /\ ~aqls_token_queue_is_empty
  /\ queue' = [ queue EXCEPT !.start = (@ + 1) % capacity, !.len = @ - 1 ]

QueueNext ==
  aqls_token_queue_pop \/ \E item \in Token : aqls_token_queue_append(item)

QueueSpec == aqls_token_queue_init /\ [][QueueNext]_queue

-----------------------------------------------------------------------------
\* The slot k places behind the oldest token, and the tokens in the buffer, the
\* oldest one first.
SlotOf(k) == (queue.start + k) % capacity
Pending == [ k \in 1 .. queue.len |-> queue.items[SlotOf(k - 1)] ]

\* The buffer is a bounded queue, also when its contents wrap around the end of
\* the array (queue.c:27): tokens leave in the order in which they came, none is
\* overwritten and a slot that was never filled is never handed out.
Fifo == INSTANCE BoundedFifo WITH Item <- Token, bound <- capacity, q <- Pending
IsFifo == Fifo!Spec
=============================================================================
