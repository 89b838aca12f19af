---------------------- MODULE Chip8DisassemblerProofs ----------------------
(***************************************************************************)
(* Proofs about Chip8Disassembler.                                         *)
(*                                                                         *)
(* The two tables agree: RowsMatch says in the terms of cpu_decode when a  *)
(* word matches a row, RowDecodes that the CPU executes what such a row    *)
(* describes unless a more specific row stands above it, NoRowDecodes that *)
(* it refuses the words without a row.                                     *)
(*                                                                         *)
(* The sweep: SweepInv ties the address to the number of lines printed.    *)
(* The program area being even, the address meets MEMORY_SIZE exactly, and *)
(* the word read behind the memory is compared with nothing.               *)
(***************************************************************************)
EXTENDS Chip8Disassembler, NaturalsInduction, WellFoundedInduction, TLAPS

-----------------------------------------------------------------------------
(* Words, their digits and the masks.                                      *)

LEMMA WordIs == /\ \A n \in Word : n \in Nat /\ n < 65536
                /\ \A n \in Nat : n < 65536 => n \in Word
<1>1. WORD_MAX = 65535  BY DEF WORD_MAX
<1>2. \A m \in Nat : \A n \in 0 .. m : n \in Nat /\ n <= m  OBVIOUS
<1>3. \A m, n \in Nat : n <= m => n \in 0 .. m  OBVIOUS
<1>4. WORD_MAX \in Nat  BY <1>1
<1>5. \A n \in Word : n \in Nat /\ n <= WORD_MAX  BY <1>2, <1>4 DEF Word
<1>6. \A n \in Nat : n <= WORD_MAX => n \in Word  BY <1>3, <1>4 DEF Word
<1>7. \A n \in Word : n < 65536
  <2> TAKE n \in Word
  <2>1. n \in Nat /\ n <= WORD_MAX  BY <1>5
  <2> QED  BY <1>1, <2>1
<1>8. \A n \in Nat : n < 65536 => n <= WORD_MAX  BY <1>1
<1> QED  BY <1>5, <1>6, <1>7, <1>8

LEMMA DigitsAre ==
  ASSUME NEW w \in Nat
  PROVE  /\ Digits(w)[0] = w % 16
         /\ Digits(w)[1] = (w \div 16) % 16
         /\ Digits(w)[2] = (w \div 256) % 16
         /\ Digits(w)[3] = (w \div 4096) % 16
<1> DEFINE weight == << 1, 16, 256, 4096 >>
<1>1. weight[0 + 1] = 1 /\ weight[1 + 1] = 16 /\ weight[2 + 1] = 256 /\ weight[3 + 1] = 4096
  OBVIOUS
<1>2. \A d \in 0 .. 3 : Digits(w)[d] = (w \div weight[d + 1]) % 16  BY DEF Digits
<1> HIDE DEF weight
<1>3. w \div 1 = w  OBVIOUS
<1> QED  BY <1>1, <1>2, <1>3

\* A word is made of four digits, and division by a power of 16 finds them.
LEMMA FourDigits ==
  ASSUME NEW w \in Word
  PROVE  /\ Digits(w)[0] \in 0 .. 15 /\ Digits(w)[1] \in 0 .. 15
         /\ Digits(w)[2] \in 0 .. 15 /\ Digits(w)[3] \in 0 .. 15
         /\ w = 4096 * Digits(w)[3] + 256 * Digits(w)[2] + 16 * Digits(w)[1] + Digits(w)[0]
         /\ Family(w) = Digits(w)[3] /\ w % 16 = Digits(w)[0]
         /\ w % 256 = 16 * Digits(w)[1] + Digits(w)[0]
<1> DEFINE p == w \div 16
           q == p \div 16
           r == q \div 16
           b == q % 16
           c == p % 16
           d == w % 16
<1>1. w \in Nat /\ w < 65536  BY WordIs
<1>2. \A n \in Nat : n \div 16 \in Nat /\ n % 16 \in 0 .. 15 /\ n = 16 * (n \div 16) + (n % 16)
  <2> TAKE n \in Nat
  <2>1. n \div 16 \in Nat  OBVIOUS
  <2>2. n % 16 \in 0 .. 15  OBVIOUS
  <2>3. n = 16 * (n \div 16) + (n % 16)  OBVIOUS
  <2> QED  BY <2>1, <2>2, <2>3
<1>3. p \in Nat /\ d \in 0 .. 15 /\ w = 16 * p + d  BY <1>1, <1>2
<1>4. q \in Nat /\ c \in 0 .. 15 /\ p = 16 * q + c  BY <1>2, <1>3
<1>5. r \in Nat /\ b \in 0 .. 15 /\ q = 16 * r + b  BY <1>2, <1>4
<1>6. Digits(w)[0] = d /\ Digits(w)[1] = c  BY <1>1, DigitsAre
<1>7. /\ Digits(w)[2] = (w \div 256) % 16 /\ Digits(w)[3] = (w \div 4096) % 16
  BY <1>1, DigitsAre
<1>8. d = w % 16  OBVIOUS
<1> HIDE DEF p, q, r, b, c, d
<1>9. w = 256 * q + (16 * c + d) /\ w = 4096 * r + (256 * b + 16 * c + d) /\ r \in 0 .. 15
  BY <1>1, <1>3, <1>4, <1>5
<1>10. w \div 256 = q /\ w % 256 = 16 * c + d  BY <1>3, <1>4, <1>9
<1>11. w \div 4096 = r  BY <1>3, <1>4, <1>5, <1>9
<1>12. (w \div 256) % 16 = b  BY <1>5, <1>10 DEF b
<1>13. r % 16 = r  BY <1>9
<1>14. (w \div 4096) % 16 = r  BY <1>11, <1>13
<1>15. Family(w) = r  BY <1>11 DEF Family
<1>16. /\ w = 4096 * r + 256 * b + 16 * c + d
       /\ Family(w) = r /\ w % 256 = 16 * c + d /\ w % 16 = d
       /\ Digits(w)[3] = r /\ Digits(w)[2] = b /\ Digits(w)[1] = c /\ Digits(w)[0] = d
  BY <1>3, <1>4, <1>5, <1>6, <1>7, <1>8, <1>9, <1>10, <1>12, <1>14, <1>15
<1>17. r \in 0 .. 15 /\ b \in 0 .. 15 /\ c \in 0 .. 15 /\ d \in 0 .. 15
  BY <1>3, <1>4, <1>5, <1>9
<1>18. r = Digits(w)[3] /\ b = Digits(w)[2] /\ c = Digits(w)[1] /\ d = Digits(w)[0]
  BY <1>16
<1>19. /\ Digits(w)[0] \in 0 .. 15 /\ Digits(w)[1] \in 0 .. 15
       /\ Digits(w)[2] \in 0 .. 15 /\ Digits(w)[3] \in 0 .. 15
  BY <1>16, <1>17
<1>20. w = 4096 * Digits(w)[3] + 256 * Digits(w)[2] + 16 * Digits(w)[1] + Digits(w)[0]
  <2>1. w = 4096 * r + 256 * b + 16 * c + d  BY <1>1, <1>9, <1>17
  <2> QED  BY <1>17, <1>18, <2>1
<1>21. Family(w) = Digits(w)[3] /\ w % 16 = Digits(w)[0]  BY <1>16
<1>22. w % 256 = 16 * Digits(w)[1] + Digits(w)[0]  BY <1>16, <1>17
<1> QED  BY <1>19, <1>20, <1>21, <1>22

\* The digits of a word that a mask keeps are those of a value.
Kept(mask, word, val) == \A d \in mask : Digits(word)[d] = Digits(val)[d]

LEMMA MasksKeep ==
  ASSUME NEW w \in Word, NEW v \in Word
  PROVE  /\ Kept(FFFF, w, v) <=> w = v
         /\ Kept(F000, w, v) <=> Family(w) = Family(v)
         /\ Kept(F00F, w, v) <=> Family(w) = Family(v) /\ w % 16 = v % 16
         /\ Kept(F0FF, w, v) <=> Family(w) = Family(v) /\ w % 256 = v % 256
<1> DEFINE a == Digits(w)[3]  b == Digits(w)[2]  c == Digits(w)[1]  d == Digits(w)[0]
           e == Digits(v)[3]  f == Digits(v)[2]  g == Digits(v)[1]  h == Digits(v)[0]
<1>1. /\ a \in 0 .. 15 /\ b \in 0 .. 15 /\ c \in 0 .. 15 /\ d \in 0 .. 15
      /\ w = 4096 * a + 256 * b + 16 * c + d
      /\ Family(w) = a /\ w % 256 = 16 * c + d /\ w % 16 = d
  BY FourDigits
<1>2. /\ e \in 0 .. 15 /\ f \in 0 .. 15 /\ g \in 0 .. 15 /\ h \in 0 .. 15
      /\ v = 4096 * e + 256 * f + 16 * g + h
      /\ Family(v) = e /\ v % 256 = 16 * g + h /\ v % 16 = h
  BY FourDigits
<1>3. /\ Kept(FFFF, w, v) <=> a = e /\ b = f /\ c = g /\ d = h
      /\ Kept(F000, w, v) <=> a = e
      /\ Kept(F00F, w, v) <=> a = e /\ d = h
      /\ Kept(F0FF, w, v) <=> a = e /\ c = g /\ d = h
  BY DEF Kept, FFFF, F000, F00F, F0FF
<1> HIDE DEF a, b, c, d, e, f, g, h
<1>4. 16 * c + d = 16 * g + h <=> c = g /\ d = h  BY <1>1, <1>2
<1>5. 4096 * a + 256 * b + 16 * c + d = 4096 * e + 256 * f + 16 * g + h
        <=> a = e /\ b = f /\ c = g /\ d = h
  BY <1>1, <1>2
<1>6. w % 256 = v % 256 <=> c = g /\ d = h  BY <1>1, <1>2, <1>4
<1>7. w = v <=> a = e /\ b = f /\ c = g /\ d = h  BY <1>1, <1>2, <1>5
<1>8. (Family(w) = Family(v) <=> a = e) /\ (w % 16 = v % 16 <=> d = h)  BY <1>1, <1>2
<1> QED  BY <1>3, <1>6, <1>7, <1>8

\* The rows by number.
LEMMA RowsTo7 ==
  /\ Len(Table) = 35
  /\ Table[1] = << FFFF, \h00E0, "exec_display_clear", {} >>
  /\ Table[2] = << FFFF, \h00EE, "exec_return", {} >>
  /\ Table[3] = << F000, \h0000, "exec_call", {"NNN"} >>
  /\ Table[4] = << F000, \h1000, "exec_goto", {"NNN"} >>
  /\ Table[5] = << F000, \h2000, "exec_call_subroutine", {"NNN"} >>
  /\ Table[6] = << F000, \h3000, "exec_if_equals", {"X", "KK"} >>
  /\ Table[7] = << F000, \h4000, "exec_if_not_equals", {"X", "KK"} >>
  /\ Table[8] = << F00F, \h5000, "exec_skip_next_if_vx_equals_vy", {"X", "Y"} >>
  /\ Table[9] = << F000, \h6000, "exec_set_register", {"X", "KK"} >>
  /\ Table[10] = << F000, \h7000, "exec_add_to_vx", {"X", "KK"} >>
BY DEF Table, ControlRows, SkipAndSetRows, RegisterRows, IndexRows, DeviceRows

LEMMA Rows8And9 ==
  /\ Table[11] = << F00F, \h8000, "exec_set_vx_from_vy", {"X", "Y"} >>
  /\ Table[12] = << F00F, \h8001, "exec_set_vx_to_vx_or", {"X", "Y"} >>
  /\ Table[13] = << F00F, \h8002, "exec_set_vx_to_vx_and", {"X", "Y"} >>
  /\ Table[14] = << F00F, \h8003, "exec_set_vx_to_vx_xor", {"X", "Y"} >>
  /\ Table[15] = << F00F, \h8004, "exec_vx_plus_vy", {"X", "Y"} >>
  /\ Table[16] = << F00F, \h8005, "exec_vx_minus_vy", {"X", "Y"} >>
  /\ Table[17] = << F00F, \h8006, "exec_set_vx_rshift_one", {"X"} >>
  /\ Table[18] = << F00F, \h8007, "exec_set_vx_vy_minus_vx", {"X", "Y"} >>
  /\ Table[19] = << F00F, \h800E, "exec_set_vx_lshift_one", {"X"} >>
  /\ Table[20] = << F00F, \h9000, "exec_if_vx_not_equals_to_vy", {"X", "Y"} >>
BY DEF Table, ControlRows, SkipAndSetRows, RegisterRows, IndexRows, DeviceRows

LEMMA RowsFromA ==
  /\ Table[21] = << F000, \hA000, "exec_set_i_register", {"NNN"} >>
  /\ Table[22] = << F000, \hB000, "exec_jump_to_addr_plus_v0", {"NNN"} >>
  /\ Table[23] = << F000, \hC000, "exec_set_vx_rand_and", {"X", "KK"} >>
  /\ Table[24] = << F000, \hD000, "exec_display_draw_sprite_at", {"X", "Y", "N"} >>
  /\ Table[25] = << F0FF, \hE09E, "exec_if_key_equals_to_vx", {"X"} >>
  /\ Table[26] = << F0FF, \hE0A1, "exec_if_key_not_equals_to_vx", {"X"} >>
  /\ Table[27] = << F0FF, \hF007, "exec_set_vx_from_delay_timer", {"X"} >>
  /\ Table[28] = << F0FF, \hF00A, "exec_set_vx_from_key", {"X"} >>
  /\ Table[29] = << F0FF, \hF015, "exec_set_delay_timer_from_vx", {"X"} >>
  /\ Table[30] = << F0FF, \hF018, "exec_set_sound_timer", {"X"} >>
  /\ Table[31] = << F0FF, \hF01E, "exec_add_vx_to_i", {"X"} >>
  /\ Table[32] = << F0FF, \hF029, "exec_set_i_to_sprite_addr", {"X"} >>
  /\ Table[33] = << F0FF, \hF033, "exec_set_bcd", {"X"} >>
  /\ Table[34] = << F0FF, \hF055, "exec_reg_dump", {"X"} >>
  /\ Table[35] = << F0FF, \hF065, "exec_reg_load", {"X"} >>
BY DEF Table, ControlRows, SkipAndSetRows, RegisterRows, IndexRows, DeviceRows

\* When a word matches a row of the table.
LEMMA RowsMatch ==
  ASSUME NEW w \in Word
  PROVE  /\ Matches(w) \subseteq 1 .. 35
         /\ 1 \in Matches(w) <=> w = \h00E0
         /\ 2 \in Matches(w) <=> w = \h00EE
         /\ 3 \in Matches(w) <=> Family(w) = 0
         /\ 4 \in Matches(w) <=> Family(w) = 1
         /\ 5 \in Matches(w) <=> Family(w) = 2
         /\ 6 \in Matches(w) <=> Family(w) = 3
         /\ 7 \in Matches(w) <=> Family(w) = 4
         /\ 8 \in Matches(w) <=> Family(w) = 5 /\ w % 16 = 0
         /\ 9 \in Matches(w) <=> Family(w) = 6
         /\ 10 \in Matches(w) <=> Family(w) = 7
         /\ 11 \in Matches(w) <=> Family(w) = 8 /\ w % 16 = 0
         /\ 12 \in Matches(w) <=> Family(w) = 8 /\ w % 16 = 1
         /\ 13 \in Matches(w) <=> Family(w) = 8 /\ w % 16 = 2
         /\ 14 \in Matches(w) <=> Family(w) = 8 /\ w % 16 = 3
         /\ 15 \in Matches(w) <=> Family(w) = 8 /\ w % 16 = 4
         /\ 16 \in Matches(w) <=> Family(w) = 8 /\ w % 16 = 5
         /\ 17 \in Matches(w) <=> Family(w) = 8 /\ w % 16 = 6
         /\ 18 \in Matches(w) <=> Family(w) = 8 /\ w % 16 = 7
         /\ 19 \in Matches(w) <=> Family(w) = 8 /\ w % 16 = 14
         /\ 20 \in Matches(w) <=> Family(w) = 9 /\ w % 16 = 0
         /\ 21 \in Matches(w) <=> Family(w) = 10
         /\ 22 \in Matches(w) <=> Family(w) = 11
         /\ 23 \in Matches(w) <=> Family(w) = 12
         /\ 24 \in Matches(w) <=> Family(w) = 13
         /\ 25 \in Matches(w) <=> Family(w) = 14 /\ w % 256 = 158
         /\ 26 \in Matches(w) <=> Family(w) = 14 /\ w % 256 = 161
         /\ 27 \in Matches(w) <=> Family(w) = 15 /\ w % 256 = 7
         /\ 28 \in Matches(w) <=> Family(w) = 15 /\ w % 256 = 10
         /\ 29 \in Matches(w) <=> Family(w) = 15 /\ w % 256 = 21
         /\ 30 \in Matches(w) <=> Family(w) = 15 /\ w % 256 = 24
         /\ 31 \in Matches(w) <=> Family(w) = 15 /\ w % 256 = 30
         /\ 32 \in Matches(w) <=> Family(w) = 15 /\ w % 256 = 41
         /\ 33 \in Matches(w) <=> Family(w) = 15 /\ w % 256 = 51
         /\ 34 \in Matches(w) <=> Family(w) = 15 /\ w % 256 = 85
         /\ 35 \in Matches(w) <=> Family(w) = 15 /\ w % 256 = 101
<1>1. Len(Table) = 35  BY RowsTo7
<1>2. ASSUME NEW k \in 1 .. 35, NEW v \in Word, Table[k][2] = v
      PROVE  k \in Matches(w) <=> Kept(Table[k][1], w, v)
  BY <1>1, <1>2 DEF Matches, Kept
<1>3. Matches(w) \subseteq 1 .. 35  BY <1>1 DEF Matches
<1>r1. 1 \in Matches(w) <=> w = \h00E0
  <2>1. Table[1][1] = FFFF /\ Table[1][2] = \h00E0  BY RowsTo7
  <2> QED  BY <1>2, <2>1, MasksKeep, WordIs DEF Family
<1>r2. 2 \in Matches(w) <=> w = \h00EE
  <2>1. Table[2][1] = FFFF /\ Table[2][2] = \h00EE  BY RowsTo7
  <2> QED  BY <1>2, <2>1, MasksKeep, WordIs DEF Family
<1>r3. 3 \in Matches(w) <=> Family(w) = 0
  <2>1. Table[3][1] = F000 /\ Table[3][2] = \h0000  BY RowsTo7
  <2> QED  BY <1>2, <2>1, MasksKeep, WordIs DEF Family
<1>r4. 4 \in Matches(w) <=> Family(w) = 1
  <2>1. Table[4][1] = F000 /\ Table[4][2] = \h1000  BY RowsTo7
  <2> QED  BY <1>2, <2>1, MasksKeep, WordIs DEF Family
<1>r5. 5 \in Matches(w) <=> Family(w) = 2
  <2>1. Table[5][1] = F000 /\ Table[5][2] = \h2000  BY RowsTo7
  <2> QED  BY <1>2, <2>1, MasksKeep, WordIs DEF Family
<1>r6. 6 \in Matches(w) <=> Family(w) = 3
  <2>1. Table[6][1] = F000 /\ Table[6][2] = \h3000  BY RowsTo7
  <2> QED  BY <1>2, <2>1, MasksKeep, WordIs DEF Family
<1>r7. 7 \in Matches(w) <=> Family(w) = 4
  <2>1. Table[7][1] = F000 /\ Table[7][2] = \h4000  BY RowsTo7
  <2> QED  BY <1>2, <2>1, MasksKeep, WordIs DEF Family
<1>r8. 8 \in Matches(w) <=> Family(w) = 5 /\ w % 16 = 0
  <2>1. Table[8][1] = F00F /\ Table[8][2] = \h5000  BY RowsTo7
  <2> QED  BY <1>2, <2>1, MasksKeep, WordIs DEF Family
<1>r9. 9 \in Matches(w) <=> Family(w) = 6
  <2>1. Table[9][1] = F000 /\ Table[9][2] = \h6000  BY RowsTo7
  <2> QED  BY <1>2, <2>1, MasksKeep, WordIs DEF Family
<1>r10. 10 \in Matches(w) <=> Family(w) = 7
  <2>1. Table[10][1] = F000 /\ Table[10][2] = \h7000  BY RowsTo7
  <2> QED  BY <1>2, <2>1, MasksKeep, WordIs DEF Family
<1>r11. 11 \in Matches(w) <=> Family(w) = 8 /\ w % 16 = 0
  <2>1. Table[11][1] = F00F /\ Table[11][2] = \h8000  BY Rows8And9
  <2> QED  BY <1>2, <2>1, MasksKeep, WordIs DEF Family
<1>r12. 12 \in Matches(w) <=> Family(w) = 8 /\ w % 16 = 1
  <2>1. Table[12][1] = F00F /\ Table[12][2] = \h8001  BY Rows8And9
  <2> QED  BY <1>2, <2>1, MasksKeep, WordIs DEF Family
<1>r13. 13 \in Matches(w) <=> Family(w) = 8 /\ w % 16 = 2
  <2>1. Table[13][1] = F00F /\ Table[13][2] = \h8002  BY Rows8And9
  <2> QED  BY <1>2, <2>1, MasksKeep, WordIs DEF Family
<1>r14. 14 \in Matches(w) <=> Family(w) = 8 /\ w % 16 = 3
  <2>1. Table[14][1] = F00F /\ Table[14][2] = \h8003  BY Rows8And9
  <2> QED  BY <1>2, <2>1, MasksKeep, WordIs DEF Family
<1>r15. 15 \in Matches(w) <=> Family(w) = 8 /\ w % 16 = 4
  <2>1. Table[15][1] = F00F /\ Table[15][2] = \h8004  BY Rows8And9
  <2> QED  BY <1>2, <2>1, MasksKeep, WordIs DEF Family
<1>r16. 16 \in Matches(w) <=> Family(w) = 8 /\ w % 16 = 5
  <2>1. Table[16][1] = F00F /\ Table[16][2] = \h8005  BY Rows8And9
  <2> QED  BY <1>2, <2>1, MasksKeep, WordIs DEF Family
<1>r17. 17 \in Matches(w) <=> Family(w) = 8 /\ w % 16 = 6
  <2>1. Table[17][1] = F00F /\ Table[17][2] = \h8006  BY Rows8And9
  <2> QED  BY <1>2, <2>1, MasksKeep, WordIs DEF Family
<1>r18. 18 \in Matches(w) <=> Family(w) = 8 /\ w % 16 = 7
  <2>1. Table[18][1] = F00F /\ Table[18][2] = \h8007  BY Rows8And9
  <2> QED  BY <1>2, <2>1, MasksKeep, WordIs DEF Family
<1>r19. 19 \in Matches(w) <=> Family(w) = 8 /\ w % 16 = 14
  <2>1. Table[19][1] = F00F /\ Table[19][2] = \h800E  BY Rows8And9
  <2> QED  BY <1>2, <2>1, MasksKeep, WordIs DEF Family
<1>r20. 20 \in Matches(w) <=> Family(w) = 9 /\ w % 16 = 0
  <2>1. Table[20][1] = F00F /\ Table[20][2] = \h9000  BY Rows8And9
  <2> QED  BY <1>2, <2>1, MasksKeep, WordIs DEF Family
<1>r21. 21 \in Matches(w) <=> Family(w) = 10
  <2>1. Table[21][1] = F000 /\ Table[21][2] = \hA000  BY RowsFromA
  <2> QED  BY <1>2, <2>1, MasksKeep, WordIs DEF Family
<1>r22. 22 \in Matches(w) <=> Family(w) = 11
  <2>1. Table[22][1] = F000 /\ Table[22][2] = \hB000  BY RowsFromA
  <2> QED  BY <1>2, <2>1, MasksKeep, WordIs DEF Family
<1>r23. 23 \in Matches(w) <=> Family(w) = 12
  <2>1. Table[23][1] = F000 /\ Table[23][2] = \hC000  BY RowsFromA
  <2> QED  BY <1>2, <2>1, MasksKeep, WordIs DEF Family
<1>r24. 24 \in Matches(w) <=> Family(w) = 13
  <2>1. Table[24][1] = F000 /\ Table[24][2] = \hD000  BY RowsFromA
  <2> QED  BY <1>2, <2>1, MasksKeep, WordIs DEF Family
<1>r25. 25 \in Matches(w) <=> Family(w) = 14 /\ w % 256 = 158
  <2>1. Table[25][1] = F0FF /\ Table[25][2] = \hE09E  BY RowsFromA
  <2> QED  BY <1>2, <2>1, MasksKeep, WordIs DEF Family
<1>r26. 26 \in Matches(w) <=> Family(w) = 14 /\ w % 256 = 161
  <2>1. Table[26][1] = F0FF /\ Table[26][2] = \hE0A1  BY RowsFromA
  <2> QED  BY <1>2, <2>1, MasksKeep, WordIs DEF Family
<1>r27. 27 \in Matches(w) <=> Family(w) = 15 /\ w % 256 = 7
  <2>1. Table[27][1] = F0FF /\ Table[27][2] = \hF007  BY RowsFromA
  <2> QED  BY <1>2, <2>1, MasksKeep, WordIs DEF Family
<1>r28. 28 \in Matches(w) <=> Family(w) = 15 /\ w % 256 = 10
  <2>1. Table[28][1] = F0FF /\ Table[28][2] = \hF00A  BY RowsFromA
  <2> QED  BY <1>2, <2>1, MasksKeep, WordIs DEF Family
<1>r29. 29 \in Matches(w) <=> Family(w) = 15 /\ w % 256 = 21
  <2>1. Table[29][1] = F0FF /\ Table[29][2] = \hF015  BY RowsFromA
  <2> QED  BY <1>2, <2>1, MasksKeep, WordIs DEF Family
<1>r30. 30 \in Matches(w) <=> Family(w) = 15 /\ w % 256 = 24
  <2>1. Table[30][1] = F0FF /\ Table[30][2] = \hF018  BY RowsFromA
  <2> QED  BY <1>2, <2>1, MasksKeep, WordIs DEF Family
<1>r31. 31 \in Matches(w) <=> Family(w) = 15 /\ w % 256 = 30
  <2>1. Table[31][1] = F0FF /\ Table[31][2] = \hF01E  BY RowsFromA
  <2> QED  BY <1>2, <2>1, MasksKeep, WordIs DEF Family
<1>r32. 32 \in Matches(w) <=> Family(w) = 15 /\ w % 256 = 41
  <2>1. Table[32][1] = F0FF /\ Table[32][2] = \hF029  BY RowsFromA
  <2> QED  BY <1>2, <2>1, MasksKeep, WordIs DEF Family
<1>r33. 33 \in Matches(w) <=> Family(w) = 15 /\ w % 256 = 51
  <2>1. Table[33][1] = F0FF /\ Table[33][2] = \hF033  BY RowsFromA
  <2> QED  BY <1>2, <2>1, MasksKeep, WordIs DEF Family
<1>r34. 34 \in Matches(w) <=> Family(w) = 15 /\ w % 256 = 85
  <2>1. Table[34][1] = F0FF /\ Table[34][2] = \hF055  BY RowsFromA
  <2> QED  BY <1>2, <2>1, MasksKeep, WordIs DEF Family
<1>r35. 35 \in Matches(w) <=> Family(w) = 15 /\ w % 256 = 101
  <2>1. Table[35][1] = F0FF /\ Table[35][2] = \hF065  BY RowsFromA
  <2> QED  BY <1>2, <2>1, MasksKeep, WordIs DEF Family
<1> QED  BY <1>3, <1>r1, <1>r2, <1>r3, <1>r4, <1>r5, <1>r6, <1>r7, <1>r8, <1>r9, <1>r10,
         <1>r11, <1>r12, <1>r13, <1>r14, <1>r15, <1>r16, <1>r17, <1>r18, <1>r19, <1>r20,
         <1>r21, <1>r22, <1>r23, <1>r24, <1>r25, <1>r26, <1>r27, <1>r28, <1>r29, <1>r30,
         <1>r31, <1>r32, <1>r33, <1>r34, <1>r35

\* The conditions of the dispatch of the CPU are exclusive.
LEMMA Conditions ==
  /\ Family(\h00E0) = 0 /\ Family(\h00EE) = 0
  /\ DOMAIN ArithmeticTable = {0, 1, 2, 3, 4, 5, 6, 7, 14}
  /\ DOMAIN MiscTable = {7, 10, 21, 24, 30, 41, 51, 85, 101}
BY DEF Family, ArithmeticTable, MiscTable

\* The CPU executes what the row says, with the operands of the row, unless a
\* more specific row comes first.
LEMMA RowDecodes ==
  ASSUME NEW w \in Word, NEW k \in Matches(w), k = 3 => w \notin {\h00E0, \h00EE}
  PROVE  /\ cpu_decode(w) = Table[k][3] /\ Table[k][3] # "unsupported"
         /\ CpuOperands(Table[k][3]) = Table[k][4]
<1>1. k \in 1 .. 35  BY RowsMatch
<1> USE DEF CpuOperands, cpu_decode, opcode_decode_const_4bit, opcode_decode_const_8bit,
            ArithmeticTable, MiscTable
<1>r1. CASE k = 1
  <2>1. Table[1][3] = "exec_display_clear" /\ Table[1][4] = {}  BY RowsTo7
  <2>2. w = \h00E0  BY <1>r1, RowsMatch
  <2> QED  BY <1>r1, <2>1, <2>2, Conditions
<1>r2. CASE k = 2
  <2>1. Table[2][3] = "exec_return" /\ Table[2][4] = {}  BY RowsTo7
  <2>2. w = \h00EE  BY <1>r2, RowsMatch
  <2> QED  BY <1>r2, <2>1, <2>2, Conditions
<1>r3. CASE k = 3
  <2>1. Table[3][3] = "exec_call" /\ Table[3][4] = {"NNN"}  BY RowsTo7
  <2>2. Family(w) = 0  BY <1>r3, RowsMatch
  <2> QED  BY <1>r3, <2>1, <2>2, Conditions
<1>r4. CASE k = 4
  <2>1. Table[4][3] = "exec_goto" /\ Table[4][4] = {"NNN"}  BY RowsTo7
  <2>2. Family(w) = 1  BY <1>r4, RowsMatch
  <2> QED  BY <1>r4, <2>1, <2>2, Conditions
<1>r5. CASE k = 5
  <2>1. Table[5][3] = "exec_call_subroutine" /\ Table[5][4] = {"NNN"}  BY RowsTo7
  <2>2. Family(w) = 2  BY <1>r5, RowsMatch
  <2> QED  BY <1>r5, <2>1, <2>2, Conditions
<1>r6. CASE k = 6
  <2>1. Table[6][3] = "exec_if_equals" /\ Table[6][4] = {"X", "KK"}  BY RowsTo7
  <2>2. Family(w) = 3  BY <1>r6, RowsMatch
  <2> QED  BY <1>r6, <2>1, <2>2, Conditions
<1>r7. CASE k = 7
  <2>1. Table[7][3] = "exec_if_not_equals" /\ Table[7][4] = {"X", "KK"}  BY RowsTo7
  <2>2. Family(w) = 4  BY <1>r7, RowsMatch
  <2> QED  BY <1>r7, <2>1, <2>2, Conditions
<1>r8. CASE k = 8
  <2>1. Table[8][3] = "exec_skip_next_if_vx_equals_vy" /\ Table[8][4] = {"X", "Y"}  BY RowsTo7
  <2>2. Family(w) = 5 /\ w % 16 = 0  BY <1>r8, RowsMatch
  <2> QED  BY <1>r8, <2>1, <2>2, Conditions
<1>r9. CASE k = 9
  <2>1. Table[9][3] = "exec_set_register" /\ Table[9][4] = {"X", "KK"}  BY RowsTo7
  <2>2. Family(w) = 6  BY <1>r9, RowsMatch
  <2> QED  BY <1>r9, <2>1, <2>2, Conditions
<1>r10. CASE k = 10
  <2>1. Table[10][3] = "exec_add_to_vx" /\ Table[10][4] = {"X", "KK"}  BY RowsTo7
  <2>2. Family(w) = 7  BY <1>r10, RowsMatch
  <2> QED  BY <1>r10, <2>1, <2>2, Conditions
<1>r11. CASE k = 11
  <2>1. Table[11][3] = "exec_set_vx_from_vy" /\ Table[11][4] = {"X", "Y"}  BY Rows8And9
  <2>2. Family(w) = 8 /\ w % 16 = 0  BY <1>r11, RowsMatch
  <2> QED  BY <1>r11, <2>1, <2>2, Conditions
<1>r12. CASE k = 12
  <2>1. Table[12][3] = "exec_set_vx_to_vx_or" /\ Table[12][4] = {"X", "Y"}  BY Rows8And9
  <2>2. Family(w) = 8 /\ w % 16 = 1  BY <1>r12, RowsMatch
  <2> QED  BY <1>r12, <2>1, <2>2, Conditions
<1>r13. CASE k = 13
  <2>1. Table[13][3] = "exec_set_vx_to_vx_and" /\ Table[13][4] = {"X", "Y"}  BY Rows8And9
  <2>2. Family(w) = 8 /\ w % 16 = 2  BY <1>r13, RowsMatch
  <2> QED  BY <1>r13, <2>1, <2>2, Conditions
<1>r14. CASE k = 14
  <2>1. Table[14][3] = "exec_set_vx_to_vx_xor" /\ Table[14][4] = {"X", "Y"}  BY Rows8And9
  <2>2. Family(w) = 8 /\ w % 16 = 3  BY <1>r14, RowsMatch
  <2> QED  BY <1>r14, <2>1, <2>2, Conditions
<1>r15. CASE k = 15
  <2>1. Table[15][3] = "exec_vx_plus_vy" /\ Table[15][4] = {"X", "Y"}  BY Rows8And9
  <2>2. Family(w) = 8 /\ w % 16 = 4  BY <1>r15, RowsMatch
  <2> QED  BY <1>r15, <2>1, <2>2, Conditions
<1>r16. CASE k = 16
  <2>1. Table[16][3] = "exec_vx_minus_vy" /\ Table[16][4] = {"X", "Y"}  BY Rows8And9
  <2>2. Family(w) = 8 /\ w % 16 = 5  BY <1>r16, RowsMatch
  <2> QED  BY <1>r16, <2>1, <2>2, Conditions
<1>r17. CASE k = 17
  <2>1. Table[17][3] = "exec_set_vx_rshift_one" /\ Table[17][4] = {"X"}  BY Rows8And9
  <2>2. Family(w) = 8 /\ w % 16 = 6  BY <1>r17, RowsMatch
  <2> QED  BY <1>r17, <2>1, <2>2, Conditions
<1>r18. CASE k = 18
  <2>1. Table[18][3] = "exec_set_vx_vy_minus_vx" /\ Table[18][4] = {"X", "Y"}  BY Rows8And9
  <2>2. Family(w) = 8 /\ w % 16 = 7  BY <1>r18, RowsMatch
  <2> QED  BY <1>r18, <2>1, <2>2, Conditions
<1>r19. CASE k = 19
  <2>1. Table[19][3] = "exec_set_vx_lshift_one" /\ Table[19][4] = {"X"}  BY Rows8And9
  <2>2. Family(w) = 8 /\ w % 16 = 14  BY <1>r19, RowsMatch
  <2> QED  BY <1>r19, <2>1, <2>2, Conditions
<1>r20. CASE k = 20
  <2>1. Table[20][3] = "exec_if_vx_not_equals_to_vy" /\ Table[20][4] = {"X", "Y"}  BY Rows8And9
  <2>2. Family(w) = 9 /\ w % 16 = 0  BY <1>r20, RowsMatch
  <2> QED  BY <1>r20, <2>1, <2>2, Conditions
<1>r21. CASE k = 21
  <2>1. Table[21][3] = "exec_set_i_register" /\ Table[21][4] = {"NNN"}  BY RowsFromA
  <2>2. Family(w) = 10  BY <1>r21, RowsMatch
  <2> QED  BY <1>r21, <2>1, <2>2, Conditions
<1>r22. CASE k = 22
  <2>1. Table[22][3] = "exec_jump_to_addr_plus_v0" /\ Table[22][4] = {"NNN"}  BY RowsFromA
  <2>2. Family(w) = 11  BY <1>r22, RowsMatch
  <2> QED  BY <1>r22, <2>1, <2>2, Conditions
<1>r23. CASE k = 23
  <2>1. Table[23][3] = "exec_set_vx_rand_and" /\ Table[23][4] = {"X", "KK"}  BY RowsFromA
  <2>2. Family(w) = 12  BY <1>r23, RowsMatch
  <2> QED  BY <1>r23, <2>1, <2>2, Conditions
<1>r24. CASE k = 24
  <2>1. Table[24][3] = "exec_display_draw_sprite_at" /\ Table[24][4] = {"X", "Y", "N"}  BY RowsFromA
  <2>2. Family(w) = 13  BY <1>r24, RowsMatch
  <2> QED  BY <1>r24, <2>1, <2>2, Conditions
<1>r25. CASE k = 25
  <2>1. Table[25][3] = "exec_if_key_equals_to_vx" /\ Table[25][4] = {"X"}  BY RowsFromA
  <2>2. Family(w) = 14 /\ w % 256 = 158  BY <1>r25, RowsMatch
  <2> QED  BY <1>r25, <2>1, <2>2, Conditions
<1>r26. CASE k = 26
  <2>1. Table[26][3] = "exec_if_key_not_equals_to_vx" /\ Table[26][4] = {"X"}  BY RowsFromA
  <2>2. Family(w) = 14 /\ w % 256 = 161  BY <1>r26, RowsMatch
  <2> QED  BY <1>r26, <2>1, <2>2, Conditions
<1>r27. CASE k = 27
  <2>1. Table[27][3] = "exec_set_vx_from_delay_timer" /\ Table[27][4] = {"X"}  BY RowsFromA
  <2>2. Family(w) = 15 /\ w % 256 = 7  BY <1>r27, RowsMatch
  <2> QED  BY <1>r27, <2>1, <2>2, Conditions
<1>r28. CASE k = 28
  <2>1. Table[28][3] = "exec_set_vx_from_key" /\ Table[28][4] = {"X"}  BY RowsFromA
  <2>2. Family(w) = 15 /\ w % 256 = 10  BY <1>r28, RowsMatch
  <2> QED  BY <1>r28, <2>1, <2>2, Conditions
<1>r29. CASE k = 29
  <2>1. Table[29][3] = "exec_set_delay_timer_from_vx" /\ Table[29][4] = {"X"}  BY RowsFromA
  <2>2. Family(w) = 15 /\ w % 256 = 21  BY <1>r29, RowsMatch
  <2> QED  BY <1>r29, <2>1, <2>2, Conditions
<1>r30. CASE k = 30
  <2>1. Table[30][3] = "exec_set_sound_timer" /\ Table[30][4] = {"X"}  BY RowsFromA
  <2>2. Family(w) = 15 /\ w % 256 = 24  BY <1>r30, RowsMatch
  <2> QED  BY <1>r30, <2>1, <2>2, Conditions
<1>r31. CASE k = 31
  <2>1. Table[31][3] = "exec_add_vx_to_i" /\ Table[31][4] = {"X"}  BY RowsFromA
  <2>2. Family(w) = 15 /\ w % 256 = 30  BY <1>r31, RowsMatch
  <2> QED  BY <1>r31, <2>1, <2>2, Conditions
<1>r32. CASE k = 32
  <2>1. Table[32][3] = "exec_set_i_to_sprite_addr" /\ Table[32][4] = {"X"}  BY RowsFromA
  <2>2. Family(w) = 15 /\ w % 256 = 41  BY <1>r32, RowsMatch
  <2> QED  BY <1>r32, <2>1, <2>2, Conditions
<1>r33. CASE k = 33
  <2>1. Table[33][3] = "exec_set_bcd" /\ Table[33][4] = {"X"}  BY RowsFromA
  <2>2. Family(w) = 15 /\ w % 256 = 51  BY <1>r33, RowsMatch
  <2> QED  BY <1>r33, <2>1, <2>2, Conditions
<1>r34. CASE k = 34
  <2>1. Table[34][3] = "exec_reg_dump" /\ Table[34][4] = {"X"}  BY RowsFromA
  <2>2. Family(w) = 15 /\ w % 256 = 85  BY <1>r34, RowsMatch
  <2> QED  BY <1>r34, <2>1, <2>2, Conditions
<1>r35. CASE k = 35
  <2>1. Table[35][3] = "exec_reg_load" /\ Table[35][4] = {"X"}  BY RowsFromA
  <2>2. Family(w) = 15 /\ w % 256 = 101  BY <1>r35, RowsMatch
  <2> QED  BY <1>r35, <2>1, <2>2, Conditions
<1> HIDE DEF CpuOperands, cpu_decode
<1> QED  BY <1>1, <1>r1, <1>r2, <1>r3, <1>r4, <1>r5, <1>r6, <1>r7, <1>r8, <1>r9, <1>r10,
         <1>r11, <1>r12, <1>r13, <1>r14, <1>r15, <1>r16, <1>r17, <1>r18, <1>r19, <1>r20,
         <1>r21, <1>r22, <1>r23, <1>r24, <1>r25, <1>r26, <1>r27, <1>r28, <1>r29, <1>r30,
         <1>r31, <1>r32, <1>r33, <1>r34, <1>r35

\* A word that matches no row is one the CPU does not know.
LEMMA NoRowDecodes ==
  ASSUME NEW w \in Word, Matches(w) = {}
  PROVE  cpu_decode(w) = "unsupported"
<1>1. Family(w) \in 0 .. 15  BY FourDigits
<1>2. Family(w) \in {5, 8, 9, 14, 15}  BY <1>1, RowsMatch
<1> QED  BY <1>2, RowsMatch, Conditions
  DEF cpu_decode, opcode_decode_const_4bit, opcode_decode_const_8bit

-----------------------------------------------------------------------------
(***************************************************************************)
(* What is printed for a word.                                             *)
(***************************************************************************)
LEMMA LeastElement ==
  ASSUME NEW T, T \subseteq Nat, T # {}
  PROVE  Min(T) \in T /\ \A y \in T : Min(T) <= y
<1> DEFINE R == OpToRel(<, Nat)
<1>1. IsWellFoundedOn(R, Nat)  BY NatLessThanWellFounded
<1>2. \A x, y \in Nat : x < y => << x, y >> \in R  BY DEF OpToRel
<1> HIDE DEF R
<1>3. PICK x \in T : \A y \in T : ~ (<< y, x >> \in R)  BY <1>1, WFMin
<1>4. \A y \in T : ~ (y < x)  BY <1>2, <1>3, Zenon
<1>5. \A y \in T : x <= y  BY <1>4
<1> QED  BY <1>5 DEF Min

Shown(w) == << cpu_decode(w), [ f \in CpuOperands(cpu_decode(w)) |-> Field(w)[f] ] >>

\* The disassembler refuses the words that the CPU refuses, and describes every
\* other one by the function the CPU calls for it and the operands it decodes.
LEMMA TablesAgree ==
  ASSUME NEW w \in Word
  PROVE  /\ cpu_decode(w) = "unsupported" => disassembler_disassemble(w) = Unsupported
         /\ cpu_decode(w) # "unsupported" =>
              /\ disassembler_disassemble(w) = Shown(w)
              /\ disassembler_disassemble(w) # Unsupported
<1>1. CASE Matches(w) = {}
  BY <1>1, NoRowDecodes DEF disassembler_disassemble
<1>2. CASE Matches(w) # {}
  <2> DEFINE k == Min(Matches(w))
  <2>1. Matches(w) \subseteq Nat  BY RowsMatch
  <2>2. k \in Matches(w) /\ \A y \in Matches(w) : k <= y  BY <1>2, <2>1, LeastElement
  <2>3. disassembler_disassemble(w) = Line(Table[k], w)
    BY <1>2 DEF disassembler_disassemble
  <2> HIDE DEF k
  <2>4. ASSUME k = 3, w \in {\h00E0, \h00EE} PROVE FALSE
    <3>1. 1 \in Matches(w) \/ 2 \in Matches(w)  BY <2>4, RowsMatch
    <3> QED  BY <2>2, <2>4, <3>1
  <2>5. /\ cpu_decode(w) = Table[k][3] /\ Table[k][3] # "unsupported"
        /\ CpuOperands(Table[k][3]) = Table[k][4]
    BY <2>2, <2>4, RowDecodes
  <2>6. Line(Table[k], w) = Shown(w)  BY <2>5 DEF Line, Shown
  <2>7. Shown(w) # Unsupported  BY <2>5 DEF Shown, Unsupported
  <2> QED  BY <2>3, <2>5, <2>6, <2>7
<1> QED  BY <1>1, <1>2

-----------------------------------------------------------------------------
(***************************************************************************)
(* The sweep.                                                              *)
(***************************************************************************)
LEMMA MemoryInitType == memory_init \in [Address -> Byte]
<1>1. \A k \in 1 .. 80 : font_sprites[k] \in Byte
  BY DEF font_sprites, Byte, REGISTER_MAX
<1>2. ASSUME NEW a \in Address
      PROVE  (IF a < 80 THEN font_sprites[a + 1] ELSE 0) \in Byte
  <2>1. CASE a < 80  BY <1>1, <2>1 DEF Address
  <2>2. CASE ~(a < 80)  BY <2>2 DEF Byte, REGISTER_MAX
  <2> QED  BY <2>1, <2>2
<1> QED  BY <1>2 DEF memory_init, FONT_COUNT, FONT_SPRITE_SIZE

LEMMA LoadRomType ==
  ASSUME NEW mem \in [Address -> Byte], NEW rom \in Seq(Byte)
  PROVE  machine_load_rom(mem, rom) \in [Address -> Byte]
<1>1. \A a \in Address : a \in Int  BY MemoryAssumption DEF Address
<1>2. ASSUME NEW a \in Address,
             ~(a < MEMORY_PROGRAM_STARTING_ADDRESS),
             a - MEMORY_PROGRAM_STARTING_ADDRESS < Len(rom)
      PROVE  rom[a - MEMORY_PROGRAM_STARTING_ADDRESS + 1] \in Byte
  BY <1>1, <1>2, MemoryAssumption
<1>3. 0 \in Byte  BY DEF Byte, REGISTER_MAX
<1> QED  BY <1>2, <1>3 DEF machine_load_rom

LEMMA WordAtType ==
  ASSUME NEW a \in Nat, a + 2 <= MEMORY_SIZE, memory \in [Address -> Byte]
  PROVE  WordAt(a) \in Word
<1>1. a \in Address /\ a + 1 \in Address  BY MemoryAssumption DEF Address
<1>2. \A b \in Byte : b \in Nat /\ b <= 255  BY DEF Byte, REGISTER_MAX
<1>3. \A x, y \in Nat : x <= 255 /\ y <= 255 => x * 256 + y \in Nat /\ x * 256 + y < 65536
  OBVIOUS
<1>4. WordAt(a) \in Nat /\ WordAt(a) < 65536
  <2>1. memory[a] \in Byte /\ memory[a + 1] \in Byte  BY <1>1
  <2> QED  BY <1>2, <1>3, <2>1 DEF WordAt
<1> QED  BY <1>4, WordIs

\* Where the line k of the listing comes from.
Place(k) == MEMORY_PROGRAM_STARTING_ADDRESS + 2 * (k - 1)

SweepTypeOK ==
  /\ memory \in [Address -> Byte] /\ opcode \in Word
  /\ status \in {"listing", "finished", "exited"}
  /\ listing \in Seq(Nat \X { disassembler_disassemble(w) : w \in Word })

LineOK(k) ==
  /\ listing[k] = << Place(k), disassembler_disassemble(WordAt(Place(k))) >>
  /\ disassembler_disassemble(WordAt(Place(k))) # Unsupported
  /\ Place(k) + 2 <= MEMORY_SIZE

\* The sweep is where the next line belongs, inside memory or just behind it, and
\* holds the word that is there; every line shows the word of its place.
SweepInv ==
  /\ SweepTypeOK
  /\ addr = Place(Len(listing) + 1) /\ addr <= MEMORY_SIZE
  /\ addr < MEMORY_SIZE => opcode = WordAt(addr)
  /\ \A k \in 1 .. Len(listing) : LineOK(k)
  /\ status = "exited" => opcode = 0 \/ disassembler_disassemble(opcode) = Unsupported
  /\ status = "finished" => addr = MEMORY_SIZE \/ opcode = 0

\* The end of memory is met exactly.
LEMMA PlaceFits ==
  ASSUME NEW n \in Nat, Place(n + 1) < MEMORY_SIZE
  PROVE  /\ Place(n + 1) \in Nat /\ Place(n + 1) + 2 <= MEMORY_SIZE
         /\ Place(n + 2) = Place(n + 1) + 2
<1>1. /\ MEMORY_SIZE \in Nat /\ MEMORY_PROGRAM_STARTING_ADDRESS \in Nat
      /\ MEMORY_PROGRAM_STARTING_ADDRESS < MEMORY_SIZE
      /\ (MEMORY_SIZE - MEMORY_PROGRAM_STARTING_ADDRESS) % 2 = 0
  BY MemoryAssumption, DisassemblerAssumption DEF PROGRAM_MAX_SIZE
<1>2. Place(n + 1) = MEMORY_PROGRAM_STARTING_ADDRESS + 2 * n  BY <1>1 DEF Place
<1>3. Place(n + 2) = MEMORY_PROGRAM_STARTING_ADDRESS + 2 * n + 2  BY <1>1 DEF Place
<1> DEFINE size == MEMORY_SIZE - MEMORY_PROGRAM_STARTING_ADDRESS
<1>4. size \in Nat /\ size % 2 = 0 /\ 2 * n < size  BY <1>1, <1>2
<1> HIDE DEF size
<1>5. 2 * n + 2 <= size  BY <1>4
<1> QED  BY <1>1, <1>2, <1>3, <1>5 DEF size

LEMMA InitSweep == Init => SweepInv
<1> SUFFICES ASSUME Init PROVE SweepInv  OBVIOUS
<1> DEFINE start == MEMORY_PROGRAM_STARTING_ADDRESS
<1>1. /\ addr = start /\ opcode = WordAt(addr) /\ listing = << >>  BY DEF Init
<1>2. start \in Nat /\ MEMORY_SIZE \in Nat /\ start < MEMORY_SIZE /\ start >= 80
  BY MemoryAssumption DEF FONT_COUNT, FONT_SPRITE_SIZE
<1>3. Len(listing) = 0 /\ Place(0 + 1) = start  BY <1>1, <1>2 DEF Place
<1>4. start + 2 <= MEMORY_SIZE  BY <1>2, <1>3, PlaceFits
<1>5. PICK rom \in Roms :
        \/ /\ rom_fits(rom) /\ status = "listing"
           /\ memory = machine_load_rom(memory_init, rom)
        \/ /\ ~rom_fits(rom) /\ status = "exited"
           /\ memory = memory_init
  BY DEF Init
<1>6. memory \in [Address -> Byte]
  BY <1>5, MemoryInitType, LoadRomType, DisassemblerAssumption
<1>7. opcode \in Word  BY <1>1, <1>2, <1>4, <1>6, WordAtType
<1>8. listing \in Seq(Nat \X { disassembler_disassemble(w) : w \in Word })  BY <1>1
<1>9. SweepTypeOK  BY <1>5, <1>6, <1>7, <1>8 DEF SweepTypeOK
<1>10. status = "exited" => opcode = 0
  <2> SUFFICES ASSUME status = "exited" PROVE opcode = 0  OBVIOUS
  <2>1. memory = memory_init  BY <1>5
  <2>2. start \in Address /\ start + 1 \in Address /\ ~(start < 80) /\ ~(start + 1 < 80)
    BY <1>2, <1>4 DEF Address
  <2>3. memory[start] = 0 /\ memory[start + 1] = 0
    BY <2>1, <2>2 DEF memory_init, FONT_COUNT, FONT_SPRITE_SIZE
  <2> QED  BY <1>1, <2>3 DEF WordAt
<1>11. status # "finished"  BY <1>5
<1>12. addr = Place(Len(listing) + 1) /\ addr <= MEMORY_SIZE  BY <1>1, <1>2, <1>3
<1> QED  BY <1>1, <1>3, <1>9, <1>10, <1>11, <1>12 DEF SweepInv

LEMMA NextSweep == SweepInv /\ [Next]_vars => SweepInv'
<1> SUFFICES ASSUME SweepInv, [Next]_vars PROVE SweepInv'  OBVIOUS
<1> DEFINE n == Len(listing)
           Lines == Nat \X { disassembler_disassemble(w) : w \in Word }
<1>1. /\ memory \in [Address -> Byte] /\ opcode \in Word
      /\ status \in {"listing", "finished", "exited"} /\ listing \in Seq(Lines)
      /\ n \in Nat
  BY DEF SweepInv, SweepTypeOK
<1>2. CASE ListInstruction
  <2> DEFINE line == disassembler_disassemble(opcode)
             last == << addr, line >>
  <2>1. /\ status = "listing" /\ opcode # 0 /\ addr < MEMORY_SIZE /\ line # Unsupported
        /\ listing' = Append(listing, last) /\ addr' = addr + 2
        /\ memory' = memory /\ status' = status
    BY <1>2 DEF ListInstruction, LoopCondition, ReadsNext
  <2>2. addr = Place(n + 1) /\ opcode = WordAt(addr)  BY <2>1 DEF SweepInv
  <2>3. addr \in Nat /\ addr + 2 <= MEMORY_SIZE /\ Place(n + 2) = addr + 2
    BY <1>1, <2>1, <2>2, PlaceFits
  <2>4. last \in Lines  BY <1>1, <2>3
  <2> HIDE DEF last, line, Lines
  <2>5. /\ listing' \in Seq(Lines) /\ Len(listing') = n + 1
        /\ \A k \in 1 .. n : listing'[k] = listing[k]
        /\ listing'[n + 1] = last
    BY <1>1, <2>1, <2>4
  <2>6. opcode' \in Word /\ (addr' < MEMORY_SIZE => opcode' = WordAt(addr)')
    <3>1. CASE InMemory(addr', 2) /\ opcode' = WordAt(addr')
      <4>1. addr' \in Nat /\ addr' + 2 <= MEMORY_SIZE  BY <2>1, <2>3, <3>1 DEF InMemory
      <4>2. WordAt(addr') \in Word  BY <1>1, <4>1, WordAtType
      <4>3. WordAt(addr)' = WordAt(addr')  BY <2>1 DEF WordAt
      <4> QED  BY <3>1, <4>2, <4>3
    <3>2. CASE ~InMemory(addr', 2) /\ opcode' \in StrayWords
      <4>1. addr' = Place((n + 1) + 1)  BY <1>1, <2>1, <2>3
      <4>2. ~(addr' + 2 <= MEMORY_SIZE)  BY <3>2 DEF InMemory
      <4>3. n + 1 \in Nat  BY <1>1
      <4>4. ~(addr' < MEMORY_SIZE)  BY <4>1, <4>2, <4>3, PlaceFits
      <4> QED  BY <3>2, <4>4, DisassemblerAssumption
    <3> QED  BY <1>2, <3>1, <3>2 DEF ListInstruction, ReadsNext
  <2>7. \A k \in 1 .. Len(listing') : LineOK(k)'
    <3>1. ASSUME NEW k \in 1 .. n PROVE LineOK(k)'
      <4>1. LineOK(k)  BY DEF SweepInv
      <4> QED  BY <2>1, <2>5, <4>1 DEF LineOK, WordAt, Place
    <3>2. ASSUME NEW k, k = n + 1 PROVE LineOK(k)'
      <4>1. listing'[k] = << Place(k), disassembler_disassemble(WordAt(Place(k))) >>
        BY <2>2, <2>5, <3>2 DEF last, line
      <4>2. disassembler_disassemble(WordAt(Place(k))) # Unsupported
        BY <2>1, <2>2, <3>2 DEF line
      <4>3. WordAt(Place(k))' = WordAt(Place(k)) /\ Place(k)' = Place(k)
        BY <2>1 DEF WordAt, Place
      <4>4. Place(k) + 2 <= MEMORY_SIZE  BY <2>2, <2>3, <3>2
      <4> QED  BY <4>1, <4>2, <4>3, <4>4 DEF LineOK
    <3>3. \A k \in 1 .. Len(listing') : k \in 1 .. n \/ k = n + 1  BY <1>1, <2>5
    <3> QED  BY <3>1, <3>2, <3>3
  <2>8. addr' = Place(Len(listing') + 1) /\ addr' <= MEMORY_SIZE
    <3>1. Len(listing') + 1 = n + 2  BY <1>1, <2>5
    <3> QED  BY <2>1, <2>3, <3>1
  <2>9. SweepTypeOK'  BY <1>1, <2>1, <2>5, <2>6 DEF SweepTypeOK, Lines
  <2> QED  BY <2>1, <2>6, <2>7, <2>8, <2>9 DEF SweepInv, Place
<1>3. CASE ListUnsupported \/ FinishListing \/ UNCHANGED vars
  <2>1. UNCHANGED << memory, addr, opcode, listing >>
    BY <1>3 DEF ListUnsupported, FinishListing, vars
  <2>2. /\ status' \in {"listing", "finished", "exited"}
        /\ status' = "exited" => opcode = 0 \/ disassembler_disassemble(opcode) = Unsupported
        /\ status' = "finished" => addr = MEMORY_SIZE \/ opcode = 0
    <3>1. addr <= MEMORY_SIZE /\ MEMORY_SIZE \in Nat /\ addr \in Int
      BY <1>1, MemoryAssumption DEF SweepInv, Place
    <3> QED  BY <1>1, <1>3, <3>1
      DEF ListUnsupported, FinishListing, LoopCondition, vars, SweepInv
  <2>3. \A k \in 1 .. Len(listing) : LineOK(k)'
    BY <2>1 DEF SweepInv, LineOK, WordAt, Place
  <2>4. WordAt(addr)' = WordAt(addr)  BY <2>1 DEF WordAt
  <2>5. SweepTypeOK'  BY <2>1, <2>2 DEF SweepInv, SweepTypeOK
  <2> QED  BY <2>1, <2>2, <2>3, <2>4, <2>5 DEF SweepInv, Place
<1> QED  BY <1>2, <1>3 DEF Next

LEMMA SweepInvariant == Spec => []SweepInv
BY InitSweep, NextSweep, PTL DEF Spec

\* The places of the lines are those of the words of the program in order, none is
\* left out, and the sweep ends at a zero word or exactly at the end of memory: the
\* word that machine_disassemble reads behind memory[] is never printed.
THEOREM SweepShowsTheProgram == Spec => []StrayWordNeverListed
<1>1. SweepInv => StrayWordNeverListed
  <2> SUFFICES ASSUME SweepInv PROVE StrayWordNeverListed  OBVIOUS
  <2>1. Len(listing) \in Nat /\ MEMORY_PROGRAM_STARTING_ADDRESS \in Nat
    BY MemoryAssumption DEF SweepInv, SweepTypeOK
  <2>2. \A k \in 1 .. Len(listing) : listing[k][1] = Place(k)  BY DEF SweepInv, LineOK
  <2>3. addr = MEMORY_PROGRAM_STARTING_ADDRESS + 2 * Len(listing)
    BY <2>1 DEF SweepInv, Place
  <2>4. status = "finished" => addr = MEMORY_SIZE \/ WordAt(addr) = 0
    <3>1. addr <= MEMORY_SIZE /\ MEMORY_SIZE \in Nat /\ addr \in Int
      BY <2>1, <2>3, MemoryAssumption DEF SweepInv
    <3> QED  BY <3>1 DEF SweepInv
  <2> QED  BY <2>2, <2>3, <2>4 DEF StrayWordNeverListed, Place
<1> QED  BY <1>1, SweepInvariant, PTL

\* The table of disassembler.c and the dispatch of cpu.c agree on every word of
\* every program: a line of the listing names the function the CPU would call and
\* the operands it would decode, and the listing is given up where the CPU would
\* refuse the word, or because the program file was too large.
THEOREM ListingShowsWhatRuns == Spec => []ListsWhatTheCpuExecutes
<1>1. SweepInv => ListsWhatTheCpuExecutes
  <2> SUFFICES ASSUME SweepInv PROVE ListsWhatTheCpuExecutes  OBVIOUS
  <2>1. memory \in [Address -> Byte] /\ opcode \in Word  BY DEF SweepInv, SweepTypeOK
  <2>2. ASSUME NEW k \in 1 .. Len(listing)
        PROVE  listing[k][1] = Place(k) /\ listing[k][2] = Shown(WordAt(Place(k)))
    <3>1. LineOK(k)  BY DEF SweepInv
    <3>2. Place(k) \in Nat
      BY MemoryAssumption DEF Place, SweepInv, SweepTypeOK
    <3>3. WordAt(Place(k)) \in Word  BY <2>1, <3>1, <3>2, WordAtType DEF LineOK
    <3> QED  BY <3>1, <3>3, TablesAgree DEF LineOK
  <2>3. status = "exited" => opcode = 0 \/ cpu_decode(opcode) = "unsupported"
    BY <2>1, TablesAgree DEF SweepInv
  <2> QED  BY <2>2, <2>3 DEF ListsWhatTheCpuExecutes, Shown
<1> QED  BY <1>1, SweepInvariant, PTL
=============================================================================
