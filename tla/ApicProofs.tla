----------------------------- MODULE ApicProofs -----------------------------
(***************************************************************************)
(* Safety of the kernel with the local APIC, for every processor and every *)
(* task priority the firmware may leave.                                   *)
(***************************************************************************)
EXTENDS Apic, Integers, WellFoundedInduction, TLAPS

-----------------------------------------------------------------------------
(* Where the fields of local_apic_t lie.                                   *)

\* The bit each field starts at, and the end of the structure.
Offsets ==
  << 0, 256, 280, 284, 384, 392, 400, 408, 512, 1024, 1032, 1152, 1280, 1408,
     1440, 1664, 1688, 1696, 1792, 1820, 1824, 1920, 1928, 1929, 1930, 1932,
     1933, 2048, 3072, 4096, 5120, 5152, 6016, 6048, 6144, 6400, 6408, 6416,
     6417, 6419, 6528, 6544, 6545, 6656, 6672, 6673, 6784, 6800, 6801, 6912,
     6928, 6929, 7040, 7056, 7057, 7168, 7200, 7296, 7328, 7424, 7936, 7940,
     8064, 8192 >>

\* Each field starts where the one before it ends.
LEMMA Widths1 ==
  /\ Len(Layout) = 63 /\ Offsets[1] = 0
  /\ Offsets[2] = Offsets[1] + Layout[1][2] /\ Offsets[3] = Offsets[2] + Layout[2][2]
  /\ Offsets[4] = Offsets[3] + Layout[3][2] /\ Offsets[5] = Offsets[4] + Layout[4][2]
  /\ Offsets[6] = Offsets[5] + Layout[5][2] /\ Offsets[7] = Offsets[6] + Layout[6][2]
  /\ Offsets[8] = Offsets[7] + Layout[7][2] /\ Offsets[9] = Offsets[8] + Layout[8][2]
  /\ Offsets[10] = Offsets[9] + Layout[9][2] /\ Offsets[11] = Offsets[10] + Layout[10][2]
  /\ Offsets[12] = Offsets[11] + Layout[11][2] /\ Offsets[13] = Offsets[12] + Layout[12][2]
  /\ Offsets[14] = Offsets[13] + Layout[13][2] /\ Offsets[15] = Offsets[14] + Layout[14][2]
  /\ Offsets[16] = Offsets[15] + Layout[15][2] /\ Offsets[17] = Offsets[16] + Layout[16][2]
  /\ Offsets[18] = Offsets[17] + Layout[17][2] /\ Offsets[19] = Offsets[18] + Layout[18][2]
  /\ Offsets[20] = Offsets[19] + Layout[19][2] /\ Offsets[21] = Offsets[20] + Layout[20][2]
  /\ Offsets[22] = Offsets[21] + Layout[21][2]
BY DEF Offsets, Layout

\* The same from the spurious vector register on,
LEMMA Widths2 ==
  /\ Offsets[23] = Offsets[22] + Layout[22][2] /\ Offsets[24] = Offsets[23] + Layout[23][2]
  /\ Offsets[25] = Offsets[24] + Layout[24][2] /\ Offsets[26] = Offsets[25] + Layout[25][2]
  /\ Offsets[27] = Offsets[26] + Layout[26][2] /\ Offsets[28] = Offsets[27] + Layout[27][2]
  /\ Offsets[29] = Offsets[28] + Layout[28][2] /\ Offsets[30] = Offsets[29] + Layout[29][2]
  /\ Offsets[31] = Offsets[30] + Layout[30][2] /\ Offsets[32] = Offsets[31] + Layout[31][2]
  /\ Offsets[33] = Offsets[32] + Layout[32][2] /\ Offsets[34] = Offsets[33] + Layout[33][2]
  /\ Offsets[35] = Offsets[34] + Layout[34][2] /\ Offsets[36] = Offsets[35] + Layout[35][2]
  /\ Offsets[37] = Offsets[36] + Layout[36][2] /\ Offsets[38] = Offsets[37] + Layout[37][2]
  /\ Offsets[39] = Offsets[38] + Layout[38][2] /\ Offsets[40] = Offsets[39] + Layout[39][2]
  /\ Offsets[41] = Offsets[40] + Layout[40][2] /\ Offsets[42] = Offsets[41] + Layout[41][2]
  /\ Offsets[43] = Offsets[42] + Layout[42][2]
BY DEF Offsets, Layout

\* and from the performance counters' entry on.
LEMMA Widths3 ==
  /\ Offsets[44] = Offsets[43] + Layout[43][2] /\ Offsets[45] = Offsets[44] + Layout[44][2]
  /\ Offsets[46] = Offsets[45] + Layout[45][2] /\ Offsets[47] = Offsets[46] + Layout[46][2]
  /\ Offsets[48] = Offsets[47] + Layout[47][2] /\ Offsets[49] = Offsets[48] + Layout[48][2]
  /\ Offsets[50] = Offsets[49] + Layout[49][2] /\ Offsets[51] = Offsets[50] + Layout[50][2]
  /\ Offsets[52] = Offsets[51] + Layout[51][2] /\ Offsets[53] = Offsets[52] + Layout[52][2]
  /\ Offsets[54] = Offsets[53] + Layout[53][2] /\ Offsets[55] = Offsets[54] + Layout[54][2]
  /\ Offsets[56] = Offsets[55] + Layout[55][2] /\ Offsets[57] = Offsets[56] + Layout[56][2]
  /\ Offsets[58] = Offsets[57] + Layout[57][2] /\ Offsets[59] = Offsets[58] + Layout[58][2]
  /\ Offsets[60] = Offsets[59] + Layout[59][2] /\ Offsets[61] = Offsets[60] + Layout[60][2]
  /\ Offsets[62] = Offsets[61] + Layout[61][2] /\ Offsets[63] = Offsets[62] + Layout[62][2]
  /\ Offsets[64] = Offsets[63] + Layout[63][2]
BY DEF Offsets, Layout

\* A set of natural numbers that is not empty has a least element.
LEMMA LeastNumber ==
  ASSUME NEW T, T \subseteq Nat, T # {}
  PROVE  \E x \in T : \A y \in T : x <= y
<1> DEFINE R == OpToRel(<, Nat)
<1>1. IsWellFoundedOn(R, Nat)
  BY NatLessThanWellFounded
<1>2. \A x, y \in Nat : x < y => <<x, y>> \in R
  BY DEF OpToRel
<1> HIDE DEF R
<1>3. PICK x \in T : \A y \in T : ~ (<<y, x>> \in R)
  BY <1>1, WFMin, Zenon
<1>4. ASSUME NEW y \in T PROVE x <= y
  <2>1. x \in Nat /\ y \in Nat
    OBVIOUS
  <2>2. ~ (y < x)
    BY <1>2, <1>3, <2>1
  <2>3. QED
    BY <2>1, <2>2
<1>5. QED
  BY <1>4

\* The recursive definition yields the table.
LEMMA Table == \A n \in 1..64 : BitsBefore[n] = Offsets[n]
<1>1. \A n \in 1..63 : Offsets[n + 1] = Offsets[n] + Layout[n][2]
  <2>1. \A n \in 1..21 : Offsets[n + 1] = Offsets[n] + Layout[n][2]
    BY Widths1, SMT
  <2>2. \A n \in 22..42 : Offsets[n + 1] = Offsets[n] + Layout[n][2]
    BY Widths2, SMT
  <2>3. \A n \in 43..63 : Offsets[n + 1] = Offsets[n] + Layout[n][2]
    BY Widths3, SMT
  <2>4. QED
    BY <2>1, <2>2, <2>3
<1> DEFINE D == 1..Len(Layout) + 1
           B == [n \in D |-> Offsets[n]]
           G(f) == [n \in D |-> IF n = 1 THEN 0 ELSE f[n - 1] + Layout[n - 1][2]]
<1>2. D = 1..64
  BY Widths1
<1>3. B = G(B)
  <2>1. SUFFICES ASSUME NEW n \in D
                 PROVE  Offsets[n] = IF n = 1 THEN 0 ELSE B[n - 1] + Layout[n - 1][2]
    OBVIOUS
  <2>2. CASE n = 1
    BY <2>2, Widths1
  <2>3. CASE n # 1
    <3>1. n \in 1..64
      BY <1>2
    <3>2. n - 1 \in 1..63 /\ n - 1 \in 1..64 /\ (n - 1) + 1 = n
      BY <2>3, <3>1
    <3>3. QED
      BY <1>1, <1>2, <2>3, <3>2
  <2>4. QED
    BY <2>2, <2>3
<1>4. \E f : f = G(f)
  BY <1>3
<1>5. BitsBefore = G(BitsBefore)
  BY <1>4 DEF BitsBefore
<1> DEFINE Wrong == {n \in 1..64 : BitsBefore[n] # Offsets[n]}
<1>6. SUFFICES ASSUME Wrong # {} PROVE FALSE
  OBVIOUS
<1>7. PICK n \in Wrong : \A m \in Wrong : n <= m
  <2>1. Wrong \subseteq Nat
    OBVIOUS
  <2>2. QED
    BY <1>6, <2>1, LeastNumber, Zenon
<1>8. \A m \in 1..64 : BitsBefore[m] = IF m = 1 THEN 0 ELSE BitsBefore[m - 1] + Layout[m - 1][2]
  BY <1>2, <1>5
<1>9. n \in 1..64 /\ n # 1
  BY <1>8, Widths1
<1>10. n - 1 \in 1..63 /\ n - 1 \in 1..64 /\ (n - 1) + 1 = n /\ ~(n <= n - 1)
  BY <1>9
<1>11. BitsBefore[n - 1] = Offsets[n - 1]
  BY <1>7, <1>10
<1>12. Offsets[n] = Offsets[n - 1] + Layout[n - 1][2]
  BY <1>1, <1>10
<1>13. BitsBefore[n] = Offsets[n]
  BY <1>8, <1>9, <1>11, <1>12
<1>14. QED
  BY <1>7, <1>13

\* The n-th field is the one of its name that apic.c stores to, if any.
SameName(n) ==
  /\ Layout[n][1] = "tpr.priority" => n = 10
  /\ Layout[n][1] = "eoi" => n = 14
  /\ Layout[n][1] = "logical_destination" => n = 17
  /\ Layout[n][1] = "destination_format_model" => n = 20
  /\ Layout[n][1] = "spurious_int_vector" => n = 22
  /\ Layout[n][1] = "enabled" => n = 23
  /\ Layout[n][1] = "focus_cpu" => n = 24
  /\ Layout[n][1] = "eoi_broadcast_suppression" => n = 26
  /\ Layout[n][1] = "lvt_timer.vector" => n = 36
  /\ Layout[n][1] = "lvt_timer.mask" => n = 38
  /\ Layout[n][1] = "lvt_timer.mode" => n = 39
  /\ Layout[n][1] = "lvt_therm.mask" => n = 42
  /\ Layout[n][1] = "lvt_lint0.mask" => n = 48
  /\ Layout[n][1] = "lvt_lint1.mask" => n = 51
  /\ Layout[n][1] = "lvt_error.mask" => n = 54
  /\ Layout[n][1] = "timer_initial" => n = 56
  /\ Layout[n][1] = "divisor" => n = 61

\* No two of the fields apic.c stores to have the same name.
LEMMA Unique == \A n \in 1..63 : SameName(n)
<1> TAKE n \in 1..63
<1>1. CASE n \in 1..10
  <2>1. \/ n = 1 \/ n = 2 \/ n = 3 \/ n = 4 \/ n = 5
        \/ n = 6 \/ n = 7 \/ n = 8 \/ n = 9 \/ n = 10
    BY <1>1
  <2>2. /\ Layout[1][1] = "" /\ Layout[2][1] = ""
        /\ Layout[3][1] = "physical_id" /\ Layout[4][1] = ""
        /\ Layout[5][1] = "version" /\ Layout[6][1] = ""
        /\ Layout[7][1] = "max_lvt_entries" /\ Layout[8][1] = ""
        /\ Layout[9][1] = "" /\ Layout[10][1] = "tpr.priority"
    BY DEF Layout
  <2>3. QED
    BY <2>1, <2>2 DEF SameName
<1>2. CASE n \in 11..20
  <2>1. \/ n = 11 \/ n = 12 \/ n = 13 \/ n = 14 \/ n = 15
        \/ n = 16 \/ n = 17 \/ n = 18 \/ n = 19 \/ n = 20
    BY <1>2
  <2>2. /\ Layout[11][1] = "" /\ Layout[12][1] = "apr"
        /\ Layout[13][1] = "ppr" /\ Layout[14][1] = "eoi"
        /\ Layout[15][1] = "" /\ Layout[16][1] = ""
        /\ Layout[17][1] = "logical_destination" /\ Layout[18][1] = ""
        /\ Layout[19][1] = "" /\ Layout[20][1] = "destination_format_model"
    BY DEF Layout
  <2>3. QED
    BY <2>1, <2>2 DEF SameName
<1>3. CASE n \in 21..30
  <2>1. \/ n = 21 \/ n = 22 \/ n = 23 \/ n = 24 \/ n = 25
        \/ n = 26 \/ n = 27 \/ n = 28 \/ n = 29 \/ n = 30
    BY <1>3
  <2>2. /\ Layout[21][1] = "" /\ Layout[22][1] = "spurious_int_vector"
        /\ Layout[23][1] = "enabled" /\ Layout[24][1] = "focus_cpu"
        /\ Layout[25][1] = "" /\ Layout[26][1] = "eoi_broadcast_suppression"
        /\ Layout[27][1] = "" /\ Layout[28][1] = "isr"
        /\ Layout[29][1] = "tmr" /\ Layout[30][1] = "irr"
    BY DEF Layout
  <2>3. QED
    BY <2>1, <2>2 DEF SameName
<1>4. CASE n \in 31..40
  <2>1. \/ n = 31 \/ n = 32 \/ n = 33 \/ n = 34 \/ n = 35
        \/ n = 36 \/ n = 37 \/ n = 38 \/ n = 39 \/ n = 40
    BY <1>4
  <2>2. /\ Layout[31][1] = "error" /\ Layout[32][1] = ""
        /\ Layout[33][1] = "lvt_cmci" /\ Layout[34][1] = ""
        /\ Layout[35][1] = "icr" /\ Layout[36][1] = "lvt_timer.vector"
        /\ Layout[37][1] = "" /\ Layout[38][1] = "lvt_timer.mask"
        /\ Layout[39][1] = "lvt_timer.mode" /\ Layout[40][1] = ""
    BY DEF Layout
  <2>3. QED
    BY <2>1, <2>2, ZenonT(60) DEF SameName
<1>5. CASE n \in 41..50
  <2>1. \/ n = 41 \/ n = 42 \/ n = 43 \/ n = 44 \/ n = 45
        \/ n = 46 \/ n = 47 \/ n = 48 \/ n = 49 \/ n = 50
    BY <1>5
  <2>2. /\ Layout[41][1] = "" /\ Layout[42][1] = "lvt_therm.mask"
        /\ Layout[43][1] = "" /\ Layout[44][1] = ""
        /\ Layout[45][1] = "lvt_perfm.mask" /\ Layout[46][1] = ""
        /\ Layout[47][1] = "" /\ Layout[48][1] = "lvt_lint0.mask"
        /\ Layout[49][1] = "" /\ Layout[50][1] = ""
    BY DEF Layout
  <2>3. QED
    BY <2>1, <2>2, ZenonT(60) DEF SameName
<1>6. CASE n \in 51..60
  <2>1. \/ n = 51 \/ n = 52 \/ n = 53 \/ n = 54 \/ n = 55
        \/ n = 56 \/ n = 57 \/ n = 58 \/ n = 59 \/ n = 60
    BY <1>6
  <2>2. /\ Layout[51][1] = "lvt_lint1.mask" /\ Layout[52][1] = ""
        /\ Layout[53][1] = "" /\ Layout[54][1] = "lvt_error.mask"
        /\ Layout[55][1] = "" /\ Layout[56][1] = "timer_initial"
        /\ Layout[57][1] = "" /\ Layout[58][1] = "timer_current"
        /\ Layout[59][1] = "" /\ Layout[60][1] = ""
    BY DEF Layout
  <2>3. QED
    BY <2>1, <2>2, ZenonT(60) DEF SameName
<1>7. CASE n \in 61..63
  <2>1. \/ n = 61 \/ n = 62 \/ n = 63
    BY <1>7
  <2>2. /\ Layout[61][1] = "divisor" /\ Layout[62][1] = ""
        /\ Layout[63][1] = ""
    BY DEF Layout
  <2>3. QED
    BY <2>1, <2>2 DEF SameName
<1>8. QED
  BY <1>1, <1>2, <1>3, <1>4, <1>5, <1>6, <1>7

\* The k-th field, and no other, has this name.
Only(field, k) ==
  Layout[k][1] = field /\ \A n \in 1..63 : Layout[n][1] = field => n = k

LEMMA Positions ==
  /\ Only("tpr.priority", 10)
  /\ Only("eoi", 14)
  /\ Only("logical_destination", 17)
  /\ Only("destination_format_model", 20)
  /\ Only("spurious_int_vector", 22)
  /\ Only("enabled", 23)
  /\ Only("focus_cpu", 24)
  /\ Only("eoi_broadcast_suppression", 26)
  /\ Only("lvt_timer.vector", 36)
  /\ Only("lvt_timer.mask", 38)
  /\ Only("lvt_timer.mode", 39)
  /\ Only("lvt_therm.mask", 42)
  /\ Only("lvt_lint0.mask", 48)
  /\ Only("lvt_lint1.mask", 51)
  /\ Only("lvt_error.mask", 54)
  /\ Only("timer_initial", 56)
  /\ Only("divisor", 61)
<1>1. /\ Layout[10][1] = "tpr.priority" /\ Layout[14][1] = "eoi"
      /\ Layout[17][1] = "logical_destination" /\ Layout[20][1] = "destination_format_model"
      /\ Layout[22][1] = "spurious_int_vector" /\ Layout[23][1] = "enabled"
      /\ Layout[24][1] = "focus_cpu" /\ Layout[26][1] = "eoi_broadcast_suppression"
      /\ Layout[36][1] = "lvt_timer.vector" /\ Layout[38][1] = "lvt_timer.mask"
      /\ Layout[39][1] = "lvt_timer.mode" /\ Layout[42][1] = "lvt_therm.mask"
      /\ Layout[48][1] = "lvt_lint0.mask" /\ Layout[51][1] = "lvt_lint1.mask"
      /\ Layout[54][1] = "lvt_error.mask" /\ Layout[56][1] = "timer_initial"
      /\ Layout[61][1] = "divisor"
  BY DEF Layout
<1>2. Only("tpr.priority", 10)
  BY <1>1, Unique DEF SameName, Only
<1>3. Only("eoi", 14)
  BY <1>1, Unique DEF SameName, Only
<1>4. Only("logical_destination", 17)
  BY <1>1, Unique DEF SameName, Only
<1>5. Only("destination_format_model", 20)
  BY <1>1, Unique DEF SameName, Only
<1>6. Only("spurious_int_vector", 22)
  BY <1>1, Unique DEF SameName, Only
<1>7. Only("enabled", 23)
  BY <1>1, Unique DEF SameName, Only
<1>8. Only("focus_cpu", 24)
  BY <1>1, Unique DEF SameName, Only
<1>9. Only("eoi_broadcast_suppression", 26)
  BY <1>1, Unique DEF SameName, Only
<1>10. Only("lvt_timer.vector", 36)
  BY <1>1, Unique DEF SameName, Only
<1>11. Only("lvt_timer.mask", 38)
  BY <1>1, Unique DEF SameName, Only
<1>12. Only("lvt_timer.mode", 39)
  BY <1>1, Unique DEF SameName, Only
<1>13. Only("lvt_therm.mask", 42)
  BY <1>1, Unique DEF SameName, Only
<1>14. Only("lvt_lint0.mask", 48)
  BY <1>1, Unique DEF SameName, Only
<1>15. Only("lvt_lint1.mask", 51)
  BY <1>1, Unique DEF SameName, Only
<1>16. Only("lvt_error.mask", 54)
  BY <1>1, Unique DEF SameName, Only
<1>17. Only("timer_initial", 56)
  BY <1>1, Unique DEF SameName, Only
<1>18. Only("divisor", 61)
  BY <1>1, Unique DEF SameName, Only
<1>19. QED
  BY <1>2, <1>3, <1>4, <1>5, <1>6, <1>7, <1>8, <1>9, <1>10, <1>11, <1>12, <1>13, <1>14, <1>15, <1>16, <1>17, <1>18

\* Such a field starts at the table's offset.
LEMMA Placed ==
  ASSUME NEW field, NEW k \in 1..63, Only(field, k)
  PROVE  BitOf(field) = Offsets[k]
<1>1. 1..Len(Layout) = 1..63
  BY Widths1
<1>2. k = CHOOSE n \in 1..63 : Layout[n][1] = field
  BY Zenon DEF Only
<1>3. k \in 1..64
  OBVIOUS
<1>4. QED
  BY <1>1, <1>2, <1>3, Table DEF BitOf

\* Where the stores of apic.c go.
LEMMA Places ==
  /\ BitOf("tpr.priority") = 1024
  /\ BitOf("eoi") = 1408
  /\ BitOf("logical_destination") = 1688
  /\ BitOf("destination_format_model") = 1820
  /\ BitOf("spurious_int_vector") = 1920
  /\ BitOf("enabled") = 1928
  /\ BitOf("focus_cpu") = 1929
  /\ BitOf("eoi_broadcast_suppression") = 1932
  /\ BitOf("lvt_timer.vector") = 6400
  /\ BitOf("lvt_timer.mask") = 6416
  /\ BitOf("lvt_timer.mode") = 6417
  /\ BitOf("lvt_therm.mask") = 6544
  /\ BitOf("lvt_lint0.mask") = 6800
  /\ BitOf("lvt_lint1.mask") = 6928
  /\ BitOf("lvt_error.mask") = 7056
  /\ BitOf("timer_initial") = 7168
  /\ BitOf("divisor") = 7936
<1> HIDE DEF BitOf
<1>1. /\ 10 \in 1..63 /\ 14 \in 1..63 /\ 17 \in 1..63 /\ 20 \in 1..63
      /\ 22 \in 1..63 /\ 23 \in 1..63 /\ 24 \in 1..63 /\ 26 \in 1..63
      /\ 36 \in 1..63 /\ 38 \in 1..63 /\ 39 \in 1..63 /\ 42 \in 1..63
      /\ 48 \in 1..63 /\ 51 \in 1..63 /\ 54 \in 1..63 /\ 56 \in 1..63
      /\ 61 \in 1..63
  OBVIOUS
<1>2. /\ Offsets[10] = 1024 /\ Offsets[14] = 1408 /\ Offsets[17] = 1688
      /\ Offsets[20] = 1820 /\ Offsets[22] = 1920 /\ Offsets[23] = 1928
      /\ Offsets[24] = 1929 /\ Offsets[26] = 1932 /\ Offsets[36] = 6400
      /\ Offsets[38] = 6416 /\ Offsets[39] = 6417 /\ Offsets[42] = 6544
      /\ Offsets[48] = 6800 /\ Offsets[51] = 6928 /\ Offsets[54] = 7056
      /\ Offsets[56] = 7168 /\ Offsets[61] = 7936
  BY DEF Offsets
<1> USE <1>1, <1>2, Positions, Placed
<1>3. BitOf("tpr.priority") = 1024
  OBVIOUS
<1>4. BitOf("eoi") = 1408
  OBVIOUS
<1>5. BitOf("logical_destination") = 1688
  OBVIOUS
<1>6. BitOf("destination_format_model") = 1820
  OBVIOUS
<1>7. BitOf("spurious_int_vector") = 1920
  OBVIOUS
<1>8. BitOf("enabled") = 1928
  OBVIOUS
<1>9. BitOf("focus_cpu") = 1929
  OBVIOUS
<1>10. BitOf("eoi_broadcast_suppression") = 1932
  OBVIOUS
<1>11. BitOf("lvt_timer.vector") = 6400
  OBVIOUS
<1>12. BitOf("lvt_timer.mask") = 6416
  OBVIOUS
<1>13. BitOf("lvt_timer.mode") = 6417
  OBVIOUS
<1>14. BitOf("lvt_therm.mask") = 6544
  OBVIOUS
<1>15. BitOf("lvt_lint0.mask") = 6800
  OBVIOUS
<1>16. BitOf("lvt_lint1.mask") = 6928
  OBVIOUS
<1>17. BitOf("lvt_error.mask") = 7056
  OBVIOUS
<1>18. BitOf("timer_initial") = 7168
  OBVIOUS
<1>19. BitOf("divisor") = 7936
  OBVIOUS
<1> HIDE <1>1, <1>2, Positions, Placed
<1>20. QED
  BY <1>3, <1>4, <1>5, <1>6, <1>7, <1>8, <1>9, <1>10, <1>11, <1>12, <1>13, <1>14, <1>15, <1>16, <1>17, <1>18, <1>19

-----------------------------------------------------------------------------
(* The stores of apic_init.                                                *)

\* The stores in their order.
LEMMA ProgramSteps ==
  /\ Len(Program) = 18
  /\ Program[1] = <<"destination_format_model", 15>>
  /\ Program[2] = <<"logical_destination", 1>>
  /\ Program[3] = <<"lvt_timer.mask", 1>>
  /\ Program[4] = <<"lvt_therm.mask", 1>>
  /\ Program[5] = <<"lvt_lint0.mask", 1>>
  /\ Program[6] = <<"lvt_lint1.mask", 1>>
  /\ Program[7] = <<"lvt_error.mask", 1>>
  /\ Program[8] = <<"eoi_broadcast_suppression", 1>>
  /\ Program[9] = <<"tpr.priority", 0>>
  /\ Program[10] = <<"wrmsr", 0>>
  /\ Program[11] = <<"focus_cpu", 1>>
  /\ Program[12] = <<"spurious_int_vector", 39>>
  /\ Program[13] = <<"enabled", 1>>
  /\ Program[14] = <<"lvt_timer.vector", 32>>
  /\ Program[15] = <<"lvt_timer.mode", 0>>
  /\ Program[16] = <<"divisor", 11>>
  /\ Program[17] = <<"timer_initial", 1000>>
  /\ Program[18] = <<"lvt_timer.mask", 0>>
BY DEF Program, ResetStores, EnableStores, TimerStores, APIC_TIMER_ONESHOT

-----------------------------------------------------------------------------
(* The inductive invariant.                                                *)

\* apic_init has made its k-th store.
Passed(k) ==
  HasApic /\ \/ pc = "store" /\ step > k
             \/ pc \in {"arch_postinit", "idle"}

BeforeIsr == {"idt_init", "pic_init", "set_handlers"}

\* The stubs and the pointer follow the processor's feature bit; before
\* isr_enable nothing is delivered; only IRQ0 has the timer's handler, and the
\* PIC's line 0 is never open.
MainInv ==
  /\ stubs = IF pc = "idt_init" THEN "none" ELSE IF HasApic THEN "apic" ELSE "pic"
  /\ apic = IF HasApic /\ pc \in {"store", "arch_postinit", "idle"} THEN "mapped" ELSE "null"
  /\ pc = "store" => HasApic
  /\ pc \notin {"store", "arch_postinit", "idle"} => step = 1
  /\ pc \in BeforeIsr => ~ifl /\ frame = NoFrame /\ pisr = {}
  /\ pc \notin BeforeIsr => handlers[IRQ0] = "timer_interrupt"
  /\ \A v \in 0..47 : handlers[v] = "timer_interrupt" => v = IRQ0
  /\ 0 \in imr /\ 0 \notin pisr

\* The registers after each store that counts, and what the timer may have
\* done by then.
RegInv ==
  /\ ~global => reg[SvrEnabled] = 0 /\ reg[Lint0Mask] = 1
  /\ reg[TimerMask] = IF Passed(18) THEN 0 ELSE 1
  /\ Passed(5) => reg[Lint0Mask] = 1
  /\ Passed(10) => global
  /\ Passed(12) => reg[SvrVector] = IRQ7
  /\ Passed(13) => reg[SvrEnabled] = 1
  /\ Passed(14) => reg[TimerVector] = IRQ0
  /\ Passed(16) => reg[Divide] = 11
  /\ Passed(17) => reg[InitialCount] = 1000
  /\ counting => Passed(17)
  /\ irr # {} => Passed(18)

\* What is in service, and where its handler stands.
FrameInv ==
  /\ frame # NoFrame => ~ifl
  /\ frame.id = IRQ0 => Passed(18)
  /\ isr # {} => frame.id = IRQ0 /\ frame.stage = "dispatch"
  /\ stubs = "pic" /\ pisr # {} => frame.stage = "eoi"
  /\ ~wild

IInv == TypeOK /\ MainInv /\ RegInv /\ FrameInv

\* The invariant implies the properties.
LEMMA IInvProperties == IInv => ServiceClean /\ EoiMapped /\ TimerConfigured
<1> SUFFICES ASSUME IInv PROVE ServiceClean /\ EoiMapped /\ TimerConfigured
  OBVIOUS
<1>1. EoiMapped /\ TimerConfigured
  BY DEF IInv, MainInv, RegInv, FrameInv, EoiMapped, TimerConfigured, Passed
<1>2. ASSUME frame = NoFrame PROVE isr = {}
  BY <1>2 DEF IInv, FrameInv, NoFrame
<1>3. ASSUME frame = NoFrame, pisr # {} PROVE stubs = "apic"
  BY <1>3 DEF IInv, MainInv, FrameInv, BeforeIsr, NoFrame
<1>4. ASSUME stubs = "apic", pc = "idle" PROVE ~LegacyPath
  BY <1>4 DEF IInv, MainInv, RegInv, LegacyPath, Passed
<1>5. QED
  BY <1>1, <1>2, <1>3, <1>4 DEF ServiceClean

\* The timer can only be counting in the last step of apic_init or with its
\* entry open, so where it stops decides what becomes of its request.
LEMMA StepShotKept ==
  ASSUME IInv, [Next]_vars, counting, ~counting'
  PROVE  IRQ0 \in irr' \/ (pc = "store" /\ step = Len(Program))
<1>1. counting' # counting
  OBVIOUS
<1>2. step \in 1..18 /\ Len(Program) = 18
  BY ProgramSteps DEF IInv, TypeOK, MainTypeOK
<1>3. (pc = "store" /\ step = 18) \/ (Passed(14) /\ Passed(18))
  BY <1>2 DEF IInv, RegInv, Passed
<1>4. CASE Expire
  BY <1>2, <1>3, <1>4 DEF Expire, IInv, RegInv
<1>5. CASE ApicStore
  BY <1>2, <1>3, <1>5 DEF ApicStore, Passed
<1>6. CASE ~Expire /\ ~ApicStore
  BY <1>1, <1>6 DEF Next, MainThread, IdtInit, PicInit, SetHandlers, I8042Init, I8042Flush,
     ApicInit, ArchPostinit, Idle, Press, Tick, Deliver, DeliverPic, DeliverSpurious, DeliverApic,
     Handler, IrqHandlerPic, Dispatch, Iret, vars, apicVars
<1>7. QED
  BY <1>4, <1>5, <1>6

-----------------------------------------------------------------------------
(* It holds initially.                                                     *)

LEMMA InitIInv == Init => IInv
<1> SUFFICES ASSUME Init PROVE IInv
  OBVIOUS
<1> USE FeaturesAssumption, PrioritiesAssumption
<1>1. PICK enabled \in {0, 1}, lint0 \in {0, 1}, tpr \in Priorities :
        /\ ~global => enabled = 0 /\ lint0 = 1 /\ tpr = 0
        /\ reg = [r \in Registers |->
                    CASE r = SvrEnabled -> enabled [] r = Lint0Mask -> lint0
                      [] r = Tpr -> tpr [] r = SvrVector -> 255
                      [] r = TimerMask -> 1 [] OTHER -> 0]
  BY DEF Init
<1>2. enabled \in 0..1000 /\ lint0 \in 0..1000 /\ tpr \in 0..1000
  OBVIOUS
<1>3. reg \in [Registers -> 0..1000]
  BY <1>1, <1>2
<1>4. reg[SvrEnabled] = enabled /\ reg[Lint0Mask] = lint0 /\ reg[TimerMask] = 1
  BY <1>1 DEF Registers, SvrEnabled, Lint0Mask, TimerMask, Tpr, SvrVector, At
<1>5. ~global => reg[SvrEnabled] = 0 /\ reg[Lint0Mask] = 1
  BY <1>1, <1>4
<1>6. global \in BOOLEAN /\ key \in BOOLEAN
  BY Zenon DEF Init
<1>7. TypeOK
  <2>1. MainTypeOK
    <3>1. 1 \in 1..Len(Program)
      BY ProgramSteps
    <3>2. handlers \in [0..47 -> {"null", "timer_interrupt", "i8042_irq"}]
      BY DEF Init
    <3>3. QED
      BY <3>1, <3>2 DEF Init, MainTypeOK
  <2>2. FrameTypeOK
    BY <1>6, Zenon DEF Init, FrameTypeOK
  <2>3. ApicTypeOK
    BY <1>3, <1>6 DEF Init, ApicTypeOK
  <2>4. PicTypeOK
    BY DEF Init, PicTypeOK
  <2>5. QED
    BY <2>1, <2>2, <2>3, <2>4 DEF TypeOK
<1>8. MainInv /\ FrameInv
  BY DEF Init, MainInv, FrameInv, BeforeIsr, NoFrame, IRQ0
<1>9. RegInv
  BY <1>4, <1>5 DEF Init, RegInv, Passed
<1>10. QED
  BY <1>7, <1>8, <1>9 DEF IInv

-----------------------------------------------------------------------------
(* The main thread's steps preserve it.                                    *)

\* A step that leaves the registers alone, and the main thread's place in
\* apic_init, keeps what is known of the registers.
LEMMA RegInvKept ==
  ASSUME RegInv, UNCHANGED <<cpuVars, global, reg>>,
         \A k \in 1..18 : Passed(k)' = Passed(k),
         counting' => counting, irr' # {} => irr # {}
  PROVE  RegInv'
BY DEF RegInv

\* What edx says is what apic_is_available finds.
LEMMA Available ==
  /\ ApicIsAvailable <=> HasApic
  /\ UNCHANGED cpuVars => HasApic' = HasApic
BY DEF cpuVars, HasApic, ApicIsAvailable, CpuidTestFeature, CPUID_FEAT_EDX_APIC

\* idt_init and pic_init.
LEMMA TableStep == IInv /\ (IdtInit \/ PicInit) => IInv'
<1> SUFFICES ASSUME IInv, IdtInit \/ PicInit PROVE IInv'
  OBVIOUS
<1> USE DEF cpuVars, apicVars, picVars
<1>1. UNCHANGED <<ecx, edx, step, handlers, apic, drained, ifl, frame, global, reg, counting,
                  irr, isr, key, wild>>
  BY DEF IdtInit, PicInit
<1>2. HasApic' = HasApic
  BY <1>1, Available
<1>3. TypeOK'
  <2>1. MainTypeOK'
    BY <1>1 DEF IInv, TypeOK, MainTypeOK, IdtInit, PicInit
  <2>2. FrameTypeOK' /\ ApicTypeOK'
    BY <1>1, SMT DEF IInv, TypeOK, FrameTypeOK, ApicTypeOK
  <2>3. PicTypeOK'
    BY DEF IInv, TypeOK, PicTypeOK, IdtInit, PicInit
  <2>4. QED
    BY <2>1, <2>2, <2>3 DEF TypeOK
<1>4. MainInv'
  BY <1>1, <1>2, Available DEF IInv, MainInv, IdtInit, PicInit, BeforeIsr
<1>5. \A k \in 1..18 : Passed(k)' = Passed(k)
  BY <1>1, <1>2 DEF Passed, IdtInit, PicInit
<1>6. RegInv'
  BY <1>1, <1>5, RegInvKept DEF IInv
<1>7. FrameInv'
  BY <1>1, <1>2, <1>5 DEF IInv, FrameInv, MainInv, BeforeIsr, IdtInit, PicInit, NoFrame, IRQ0
<1>8. QED
  BY <1>3, <1>4, <1>6, <1>7 DEF IInv

\* isr_set_handler and isr_enable, the start and the rest of i8042_init, the
\* start of apic_init and arch_postinit.
CallInit == SetHandlers \/ I8042Init \/ I8042Flush \/ ApicInit \/ ArchPostinit

LEMMA CallStep == IInv /\ CallInit => IInv'
<1> SUFFICES ASSUME IInv, CallInit PROVE IInv'
  OBVIOUS
<1> USE DEF CallInit, cpuVars, apicVars, picVars
<1>1. UNCHANGED <<ecx, edx, stubs, step, frame, global, reg, counting, irr, isr, pisr, wild>>
  BY DEF SetHandlers, I8042Init, I8042Flush, ApicInit, ArchPostinit
<1>2. HasApic' = HasApic
  BY <1>1, Available
<1>3. /\ handlers' \in [0..47 -> {"null", "timer_interrupt", "i8042_irq"}]
      /\ pc' \notin BeforeIsr => handlers'[IRQ0] = "timer_interrupt"
      /\ \A v \in 0..47 : handlers'[v] = "timer_interrupt" => v = IRQ0
  <2>1. /\ handlers \in [0..47 -> {"null", "timer_interrupt", "i8042_irq"}]
        /\ pc \notin BeforeIsr => handlers[IRQ0] = "timer_interrupt"
        /\ \A v \in 0..47 : handlers[v] = "timer_interrupt" => v = IRQ0
    BY DEF IInv, TypeOK, MainTypeOK, MainInv
  <2>2. CASE SetHandlers
    BY <2>1, <2>2 DEF SetHandlers, IRQ0
  <2>3. CASE I8042Init
    BY <2>1, <2>3 DEF I8042Init, IRQ0, IRQ1, BeforeIsr
  <2>4. CASE I8042Flush \/ ApicInit \/ ArchPostinit
    BY <2>1, <2>4 DEF I8042Flush, ApicInit, ArchPostinit, BeforeIsr
  <2>5. QED
    BY <2>2, <2>3, <2>4
<1>4. TypeOK'
  <2>1. MainTypeOK'
    <3>1. drained' \in BOOLEAN
      BY Zenon DEF IInv, TypeOK, MainTypeOK, SetHandlers, I8042Init, I8042Flush, ApicInit,
                   ArchPostinit
    <3>2. QED
      BY <1>1, <1>3, <3>1 DEF IInv, TypeOK, MainTypeOK, SetHandlers, I8042Init, I8042Flush,
                              ApicInit, ArchPostinit
  <2>2. FrameTypeOK'
    BY <1>1, Zenon DEF IInv, TypeOK, FrameTypeOK, SetHandlers, I8042Init, I8042Flush,
                       ApicInit, ArchPostinit
  <2>3. ApicTypeOK'
    BY <1>1, Zenon DEF IInv, TypeOK, ApicTypeOK
  <2>4. PicTypeOK'
    BY <1>1 DEF IInv, TypeOK, PicTypeOK, SetHandlers, I8042Init, I8042Flush, ApicInit,
                ArchPostinit
  <2>5. QED
    BY <2>1, <2>2, <2>3, <2>4 DEF TypeOK
<1>5. MainInv'
  BY <1>1, <1>2, <1>3, Available
     DEF IInv, MainInv, SetHandlers, I8042Init, I8042Flush, ApicInit, ArchPostinit, BeforeIsr
<1>6. \A k \in 1..18 : Passed(k)' = Passed(k)
  BY <1>1, <1>2, Available
     DEF IInv, MainInv, Passed, SetHandlers, I8042Init, I8042Flush, ApicInit, ArchPostinit
<1>7. RegInv'
  BY <1>1, <1>6, RegInvKept DEF IInv
<1>8. FrameInv'
  BY <1>1, <1>2, <1>6 DEF IInv, FrameInv, MainInv, BeforeIsr, Main, NoFrame, IRQ0,
      SetHandlers, I8042Init, I8042Flush, ApicInit, ArchPostinit
<1>9. QED
  BY <1>4, <1>5, <1>7, <1>8 DEF IInv

\* What each step of apic_init writes.
LEMMA StoreSteps ==
  ASSUME ApicStore
  PROVE  /\ step \in {1, 2, 4, 6, 7, 8, 11} => UNCHANGED <<reg, counting, global>>
         /\ step = 3 => Store(TimerMask, 1) /\ UNCHANGED global
         /\ step = 5 => Store(Lint0Mask, 1) /\ UNCHANGED global
         /\ step = 9 => Store(Tpr, 0) /\ UNCHANGED global
         /\ step = 10 => Wrmsr
         /\ step = 12 => Store(SvrVector, 39) /\ UNCHANGED global
         /\ step = 13 => Store(SvrEnabled, 1) /\ UNCHANGED global
         /\ step = 14 => Store(TimerVector, 32) /\ UNCHANGED global
         /\ step = 15 => Store(TimerMode, 0) /\ UNCHANGED global
         /\ step = 16 => Store(Divide, 11) /\ UNCHANGED global
         /\ step = 17 => Store(InitialCount, 1000) /\ UNCHANGED global
         /\ step = 18 => Store(TimerMask, 0) /\ UNCHANGED global
<1>1. /\ Tpr = 1024 /\ SvrVector = 1920 /\ SvrEnabled = 1928 /\ TimerVector = 6400
      /\ TimerMask = 6416 /\ TimerMode = 6417 /\ Lint0Mask = 6800
      /\ InitialCount = 7168 /\ Divide = 7936
  BY DEF Tpr, SvrVector, SvrEnabled, TimerVector, TimerMask, TimerMode, Lint0Mask,
         InitialCount, Divide, At
<1>2. IF Program[step][1] = "wrmsr"
        THEN Wrmsr
        ELSE Store(BitOf(Program[step][1]), Program[step][2]) /\ UNCHANGED global
  BY DEF ApicStore
<1>3. step \in {1, 2, 4, 6, 7, 8, 11} => UNCHANGED <<reg, counting, global>>
  <2>1. ASSUME NEW bit, NEW value, Store(bit, value), bit \in {1688, 1820, 1929, 1932, 6544, 6928, 7056}
        PROVE  UNCHANGED <<reg, counting>>
    BY <1>1, <2>1 DEF Store, Taken, Registers
  <2>2. QED
    BY <1>2, <2>1, ProgramSteps, Places
<1>4. step = 10 => Wrmsr
  BY <1>2, ProgramSteps
<1>5. QED
  BY <1>1, <1>2, <1>3, <1>4, ProgramSteps, Places

\* A store to a register changes that one alone, if it is taken.
LEMMA StoreEffect ==
  ASSUME ApicTypeOK, NEW r \in Registers, NEW v \in 0..1000, Store(r, v)
  PROVE  /\ reg' \in [Registers -> 0..1000] /\ counting' \in BOOLEAN
         /\ \A q \in Registers : reg'[q] = IF q = r /\ Taken(r, v) THEN v ELSE reg[q]
         /\ counting' => counting \/ r = InitialCount
<1>1. reg' \in [Registers -> 0..1000] /\ \A q \in Registers : reg'[q] = IF q = r /\ Taken(r, v) THEN v ELSE reg[q]
  BY DEF Store, ApicTypeOK
<1>2. counting' \in BOOLEAN /\ (counting' => counting \/ r = InitialCount)
  <2>1. (v > 0) \in BOOLEAN
    OBVIOUS
  <2>2. QED
    BY <2>1, ZenonT(60) DEF Store, ApicTypeOK
<1>3. QED
  BY <1>1, <1>2

\* One store of apic_init.
LEMMA StoreStep == IInv /\ ApicStore => IInv'
<1> SUFFICES ASSUME IInv, ApicStore PROVE IInv'
  OBVIOUS
<1> USE DEF cpuVars, apicVars, picVars
<1>1. UNCHANGED <<ecx, edx, stubs, handlers, apic, drained, ifl, frame, irr, isr, imr, pirr,
                  pisr, glitch, key, wild>>
  BY DEF ApicStore
<1>2. HasApic' = HasApic /\ HasApic
  BY <1>1, Available DEF IInv, MainInv, ApicStore
<1>3. pc = "store" /\ frame = NoFrame /\ step \in 1..18
  BY ProgramSteps DEF ApicStore, Main, IInv, TypeOK, MainTypeOK
<1>4. \/ step \in 1..17 /\ step' = step + 1 /\ pc' = "store"
      \/ step = 18 /\ step' = 18 /\ pc' = "arch_postinit"
  BY <1>3, ProgramSteps DEF ApicStore
<1>5. \A k \in 1..18 : Passed(k)' <=> Passed(k) \/ step = k
  BY <1>2, <1>3, <1>4 DEF Passed
<1>6. \A k \in 1..18 : Passed(k) <=> k < step
  BY <1>2, <1>3 DEF Passed
<1>7. /\ Tpr = 1024 /\ SvrVector = 1920 /\ SvrEnabled = 1928 /\ TimerVector = 6400
      /\ TimerMask = 6416 /\ TimerMode = 6417 /\ Lint0Mask = 6800
      /\ InitialCount = 7168 /\ Divide = 7936
  BY DEF Tpr, SvrVector, SvrEnabled, TimerVector, TimerMask, TimerMode, Lint0Mask,
         InitialCount, Divide, At
<1>8. MainTypeOK' /\ FrameTypeOK' /\ PicTypeOK'
  <2>1. MainTypeOK'
    BY <1>1, <1>4, ProgramSteps DEF IInv, TypeOK, MainTypeOK
  <2>2. FrameTypeOK' /\ PicTypeOK'
    BY <1>1, Zenon DEF IInv, TypeOK, FrameTypeOK, PicTypeOK
  <2>3. QED
    BY <2>1, <2>2
<1>9. MainInv'
  BY <1>1, <1>2, <1>3, <1>4 DEF IInv, MainInv, BeforeIsr
<1>10. FrameInv'
  BY <1>1, <1>3, <1>5 DEF IInv, FrameInv, NoFrame, IRQ0
<1>11. ApicTypeOK /\ RegInv
  BY DEF IInv, TypeOK
<1>12. CASE step \in {1, 2, 4, 6, 7, 8, 11}
  <2>1. UNCHANGED <<reg, counting, global>>
    BY <1>12, StoreSteps
  <2>2. ApicTypeOK'
    BY <1>1, <1>11, <2>1, Zenon DEF ApicTypeOK
  <2>3. RegInv'
    BY <1>1, <1>5, <1>11, <1>12, <2>1 DEF RegInv
  <2>4. QED
    BY <2>2, <2>3, <1>8, <1>9, <1>10 DEF IInv, TypeOK
<1>13. CASE step = 10
  <2>1. UNCHANGED <<reg, counting>> /\ global' = TRUE
    BY <1>13, StoreSteps DEF Wrmsr
  <2>2. ApicTypeOK'
    BY <1>1, <1>11, <2>1, Zenon DEF ApicTypeOK
  <2>3. RegInv'
    BY <1>1, <1>5, <1>11, <1>13, <2>1 DEF RegInv
  <2>4. QED
    BY <2>2, <2>3, <1>8, <1>9, <1>10 DEF IInv, TypeOK
<1>14. ASSUME NEW r \in Registers, NEW v \in 0..1000, Store(r, v), UNCHANGED global,
              <<step, r, v>> \in { <<3, TimerMask, 1>>, <<5, Lint0Mask, 1>>, <<9, Tpr, 0>>,
                <<12, SvrVector, 39>>, <<13, SvrEnabled, 1>>, <<14, TimerVector, 32>>,
                <<15, TimerMode, 0>>, <<16, Divide, 11>>, <<17, InitialCount, 1000>>,
                <<18, TimerMask, 0>> }
       PROVE  IInv'
  <2>1. /\ reg' \in [Registers -> 0..1000] /\ counting' \in BOOLEAN
        /\ \A q \in Registers : reg'[q] = IF q = r /\ Taken(r, v) THEN v ELSE reg[q]
        /\ counting' => counting \/ r = InitialCount
    BY <1>11, <1>14, StoreEffect, ZenonT(90)
  <2>2. ApicTypeOK'
    BY <1>1, <1>11, <1>14, <2>1, SMT DEF ApicTypeOK
  <2>3. step > 10 => Taken(r, v)
    BY <1>2, <1>3, <1>6, <1>7, <1>11, <1>14 DEF Taken, RegInv
  <2>4. RegInv'
    <3>1. /\ global' = global
          /\ \A q \in Registers : reg'[q] = reg[q] \/ (q = r /\ global /\ reg'[q] = v)
          /\ global /\ (step > 10 \/ v = 1) => reg'[r] = v
      BY <1>2, <1>14, <2>1, <2>3 DEF Taken
    <3>2. {Tpr, SvrVector, SvrEnabled, TimerVector, TimerMask, TimerMode, Lint0Mask,
           InitialCount, Divide} \subseteq Registers
      BY DEF Registers
    <3>3. CASE step = 3 /\ r = TimerMask /\ v = 1
      BY <1>1, <1>5, <1>6, <1>7, <1>11, <2>1, <3>1, <3>2, <3>3, SMT
      DEF RegInv, IRQ0, IRQ7
    <3>4. CASE step = 5 /\ r = Lint0Mask /\ v = 1
      BY <1>1, <1>5, <1>6, <1>7, <1>11, <2>1, <3>1, <3>2, <3>4, SMT
      DEF RegInv, IRQ0, IRQ7
    <3>5. CASE step = 9 /\ r = Tpr /\ v = 0
      BY <1>1, <1>5, <1>6, <1>7, <1>11, <2>1, <3>1, <3>2, <3>5, SMT
      DEF RegInv, IRQ0, IRQ7
    <3>6. CASE step = 12 /\ r = SvrVector /\ v = 39
      BY <1>1, <1>5, <1>6, <1>7, <1>11, <2>1, <3>1, <3>2, <3>6, SMT
      DEF RegInv, IRQ0, IRQ7
    <3>7. CASE step = 13 /\ r = SvrEnabled /\ v = 1
      BY <1>1, <1>5, <1>6, <1>7, <1>11, <2>1, <3>1, <3>2, <3>7, SMT
      DEF RegInv, IRQ0, IRQ7
    <3>8. CASE step = 14 /\ r = TimerVector /\ v = 32
      BY <1>1, <1>5, <1>6, <1>7, <1>11, <2>1, <3>1, <3>2, <3>8, SMT
      DEF RegInv, IRQ0, IRQ7
    <3>9. CASE step = 15 /\ r = TimerMode /\ v = 0
      BY <1>1, <1>5, <1>6, <1>7, <1>11, <2>1, <3>1, <3>2, <3>9, SMT
      DEF RegInv, IRQ0, IRQ7
    <3>10. CASE step = 16 /\ r = Divide /\ v = 11
      BY <1>1, <1>5, <1>6, <1>7, <1>11, <2>1, <3>1, <3>2, <3>10, SMT
      DEF RegInv, IRQ0, IRQ7
    <3>11. CASE step = 17 /\ r = InitialCount /\ v = 1000
      BY <1>1, <1>5, <1>6, <1>7, <1>11, <2>1, <3>1, <3>2, <3>11, SMT
      DEF RegInv, IRQ0, IRQ7
    <3>12. CASE step = 18 /\ r = TimerMask /\ v = 0
      BY <1>1, <1>5, <1>6, <1>7, <1>11, <2>1, <3>1, <3>2, <3>12, SMT
      DEF RegInv, IRQ0, IRQ7
    <3>13. QED
      BY <1>14, <3>3, <3>4, <3>5, <3>6, <3>7, <3>8, <3>9, <3>10, <3>11, <3>12
  <2>5. QED
    BY <2>2, <2>4, <1>8, <1>9, <1>10 DEF IInv, TypeOK
<1>15. QED
  BY <1>3, <1>12, <1>13, <1>14, StoreSteps DEF Registers

-----------------------------------------------------------------------------
(* Devices, deliveries and handlers preserve it.                           *)

\* None of them moves the main thread.
LEMMA MainKept ==
  ASSUME IInv, UNCHANGED <<cpuVars, mainVars, imr>>,
         pc \in BeforeIsr => UNCHANGED <<ifl, frame, pisr>>, 0 \notin pisr'
  PROVE  /\ MainTypeOK' /\ MainInv' /\ HasApic' = HasApic
         /\ \A k \in 1..18 : Passed(k)' = Passed(k)
<1> USE DEF cpuVars, mainVars
<1>1. HasApic' = HasApic
  BY Available
<1>2. MainTypeOK'
  BY Zenon DEF IInv, TypeOK, MainTypeOK
<1>3. MainInv'
  BY <1>1 DEF IInv, MainInv
<1>4. \A k \in 1..18 : Passed(k)' = Passed(k)
  BY <1>1 DEF Passed
<1>5. QED
  BY <1>1, <1>2, <1>3, <1>4

\* A key, a tick of the interval timer, and the APIC's timer reaching zero.
LEMMA DeviceStep == IInv /\ (Press \/ Tick \/ Expire) => IInv'
<1> SUFFICES ASSUME IInv, Press \/ Tick \/ Expire PROVE IInv'
  OBVIOUS
<1> USE DEF apicVars
<1>1. /\ UNCHANGED <<cpuVars, mainVars, ifl, frame, global, reg, isr, imr, pisr, glitch, wild>>
      /\ 0 \notin pisr'
  BY DEF Press, Tick, Expire, picVars, IInv, MainInv
<1>2. /\ MainTypeOK' /\ MainInv' /\ HasApic' = HasApic
      /\ \A k \in 1..18 : Passed(k)' = Passed(k)
  BY <1>1, MainKept
<1>3. irr' \subseteq {IRQ0} /\ (irr' # {} => Passed(18))
  <2>1. irr \subseteq {IRQ0} /\ (irr # {} => Passed(18))
    BY DEF IInv, TypeOK, ApicTypeOK, RegInv
  <2>2. reg[TimerMask] = 0 => Passed(18) /\ Passed(14)
    <3>1. step \in 1..18
      BY ProgramSteps DEF IInv, TypeOK, MainTypeOK
    <3>2. QED
      BY <3>1 DEF IInv, RegInv, Passed
  <2>3. reg[TimerMask] = 0 => reg[TimerVector] = IRQ0
    BY <2>2 DEF IInv, RegInv
  <2>4. QED
    BY <2>1, <2>2, <2>3 DEF Press, Tick, Expire
<1>4. counting' \in BOOLEAN /\ (counting' => counting)
  <2>1. counting \in BOOLEAN
    BY DEF IInv, TypeOK, ApicTypeOK
  <2>2. CASE Press \/ Tick
    <3>1. counting' = counting
      BY <2>2 DEF Press, Tick
    <3>2. QED
      BY <2>1, <3>1
  <2>3. CASE Expire
    <3>1. counting /\ counting' = (reg[TimerMode] = APIC_TIMER_PERIODIC)
      BY <2>3 DEF Expire
    <3>2. QED
      BY <3>1
  <2>4. QED
    BY <2>2, <2>3
<1>5. pirr' \subseteq {0, 1} /\ key' \in BOOLEAN
  <2>1. key' \in BOOLEAN
    BY Zenon DEF IInv, TypeOK, FrameTypeOK, Press, Tick, Expire
  <2>2. QED
    BY <2>1 DEF IInv, TypeOK, PicTypeOK, Press, Tick, Expire, picVars
<1>6. FrameTypeOK' /\ ApicTypeOK' /\ PicTypeOK'
  BY <1>1, <1>3, <1>4, <1>5, SMT DEF IInv, TypeOK, FrameTypeOK, ApicTypeOK, PicTypeOK
<1>7. RegInv'
  BY <1>1, <1>2, <1>3, <1>4 DEF IInv, RegInv
<1>8. FrameInv'
  BY <1>1, <1>2 DEF IInv, FrameInv, mainVars
<1>9. QED
  BY <1>2, <1>6, <1>7, <1>8 DEF IInv, TypeOK

\* The processor takes an interrupt: from the PIC, a spurious one, or from
\* the APIC.
LEMMA DeliverStep == IInv /\ Deliver => IInv'
<1> SUFFICES ASSUME IInv, Deliver PROVE IInv'
  OBVIOUS
<1> USE DEF apicVars
<1>1. /\ UNCHANGED <<cpuVars, mainVars, global, reg, counting, imr, key, wild>>
      /\ ifl /\ ifl' = FALSE
  BY DEF Deliver, DeliverPic, DeliverSpurious, DeliverApic, Enter, picVars
<1>2. pc \notin BeforeIsr /\ frame = NoFrame /\ isr = {} /\ (stubs = "pic" => pisr = {})
  BY <1>1 DEF IInv, MainInv, FrameInv, NoFrame
<1>3. \E v \in {IRQ0, IRQ1, IRQ7} :
        /\ frame' = [id |-> v, stage |-> IF stubs = "pic" THEN "eoi" ELSE "dispatch"]
        /\ irr' \subseteq irr
        /\ v = IRQ0 => irr # {} /\ isr' = {IRQ0}
        /\ v # IRQ0 => isr' = {}
        /\ pirr' \subseteq {0, 1} /\ pisr' \subseteq {0, 1} /\ 0 \notin pisr'
        /\ v = IRQ0 => pisr' = pisr
  <2>1. CASE DeliverPic
    <3>1. PICK n \in pirr \ imr : Enter(IRQ0 + n) /\ pirr' = pirr \ {n} /\ pisr' = pisr \cup {n}
      BY <2>1 DEF DeliverPic, Pending
    <3>2. n = 1 /\ 0 \notin pisr /\ pisr \subseteq {0, 1} /\ pirr \subseteq {0, 1}
      BY DEF IInv, MainInv, TypeOK, PicTypeOK
    <3>3. IRQ0 + n = IRQ1 /\ IRQ1 # IRQ0
      BY <3>2 DEF IRQ0, IRQ1
    <3>4. irr' = irr /\ isr' = {}
      BY <1>2, <2>1 DEF DeliverPic
    <3>5. WITNESS IRQ1 \in {IRQ0, IRQ1, IRQ7}
    <3>6. QED
      BY <3>1, <3>2, <3>3, <3>4 DEF Enter
  <2>2. CASE DeliverSpurious
    <3>1. 0 \notin pisr /\ pisr \subseteq {0, 1} /\ pirr \subseteq {0, 1} /\ IRQ7 # IRQ0
      BY DEF IInv, MainInv, TypeOK, PicTypeOK, IRQ0, IRQ7
    <3>2. WITNESS IRQ7 \in {IRQ0, IRQ1, IRQ7}
    <3>3. QED
      BY <1>2, <2>2, <3>1 DEF DeliverSpurious, Enter
  <2>3. CASE DeliverApic
    <3>1. PICK v \in irr : Enter(v) /\ irr' = irr \ {v} /\ isr' = isr \cup {v}
      BY <2>3 DEF DeliverApic
    <3>2. v = IRQ0
      BY DEF IInv, TypeOK, ApicTypeOK
    <3>3. 0 \notin pisr /\ pisr \subseteq {0, 1} /\ pirr \subseteq {0, 1} /\ UNCHANGED <<pirr, pisr>>
      BY <2>3 DEF DeliverApic, IInv, MainInv, TypeOK, PicTypeOK, picVars
    <3>4. WITNESS IRQ0 \in {IRQ0, IRQ1, IRQ7}
    <3>5. QED
      BY <1>2, <3>1, <3>2, <3>3 DEF Enter
  <2>4. QED
    BY <2>1, <2>2, <2>3 DEF Deliver
<1>4. /\ MainTypeOK' /\ MainInv' /\ HasApic' = HasApic
      /\ \A k \in 1..18 : Passed(k)' = Passed(k)
  BY <1>1, <1>2, <1>3, MainKept
<1>5. glitch' \in BOOLEAN
  BY Zenon DEF IInv, TypeOK, PicTypeOK, Deliver, DeliverPic, DeliverSpurious, DeliverApic, picVars
<1>6. FrameTypeOK'
  <2>1. PICK v \in {IRQ0, IRQ1, IRQ7} :
          frame' = [id |-> v, stage |-> IF stubs = "pic" THEN "eoi" ELSE "dispatch"]
    BY <1>3
  <2>2. frame' \in [id : {IRQ0, IRQ1, IRQ7}, stage : {"eoi", "dispatch", "iret"}]
    BY <2>1
  <2>3. QED
    BY <1>1, <2>2, Zenon DEF IInv, TypeOK, FrameTypeOK
<1>7. ApicTypeOK'
  BY <1>1, <1>3 DEF IInv, TypeOK, ApicTypeOK
<1>8. PicTypeOK'
  BY <1>1, <1>3, <1>5 DEF IInv, TypeOK, PicTypeOK
<1>9. RegInv'
  BY <1>1, <1>3, <1>4 DEF IInv, RegInv
<1>10. irr # {} => Passed(18) /\ stubs # "pic"
  BY <1>2 DEF IInv, RegInv, MainInv, Passed, BeforeIsr
<1>11. FrameInv'
  BY <1>1, <1>2, <1>3, <1>4, <1>10 DEF IInv, FrameInv, mainVars, NoFrame, IRQ0
<1>12. QED
  BY <1>4, <1>6, <1>7, <1>8, <1>9, <1>11 DEF IInv, TypeOK

\* irq_handler_pic's end of interrupt, the dispatch and iret.
LEMMA HandlerStep == IInv /\ Handler => IInv'
<1> SUFFICES ASSUME IInv, Handler PROVE IInv'
  OBVIOUS
<1> USE DEF apicVars
<1>1. UNCHANGED <<cpuVars, mainVars, global, reg, counting, irr, imr, pirr, glitch>>
  BY DEF Handler, IrqHandlerPic, Dispatch, Iret, picVars
<1>2. /\ frame \in [id : {IRQ0, IRQ1, IRQ7}, stage : {"eoi", "dispatch", "iret"}]
      /\ pc \notin BeforeIsr
  BY DEF Handler, IrqHandlerPic, Dispatch, Iret, IInv, TypeOK, FrameTypeOK, MainInv, NoFrame
<1>3. pisr' \subseteq pisr /\ (stubs = "pic" => pisr' = {})
  <2>1. pisr \subseteq {1}
    BY DEF IInv, MainInv, TypeOK, PicTypeOK
  <2>2. CASE IrqHandlerPic
    BY <2>1, <2>2 DEF IrqHandlerPic
  <2>3. CASE Dispatch \/ Iret
    BY <2>3 DEF Dispatch, Iret, picVars, IInv, FrameInv
  <2>4. QED
    BY <2>2, <2>3 DEF Handler
<1>4. /\ MainTypeOK' /\ MainInv' /\ HasApic' = HasApic
      /\ \A k \in 1..18 : Passed(k)' = Passed(k)
  BY <1>1, <1>2, <1>3, MainKept DEF IInv, MainInv
<1>5. CASE IrqHandlerPic
  <2>1. /\ frame' = [frame EXCEPT !.stage = "dispatch"] /\ frame.stage = "eoi"
        /\ UNCHANGED <<ifl, isr, key, wild>>
    BY <1>5 DEF IrqHandlerPic
  <2>2. /\ frame' \in [id : {IRQ0, IRQ1, IRQ7}, stage : {"eoi", "dispatch", "iret"}]
        /\ frame'.id = frame.id /\ frame # NoFrame
    BY <1>2, <2>1 DEF NoFrame
  <2>3. isr = {}
    BY <2>1 DEF IInv, FrameInv
  <2>4. FrameTypeOK' /\ ApicTypeOK'
    BY <1>1, <2>1, <2>2, Zenon DEF IInv, TypeOK, FrameTypeOK, ApicTypeOK
  <2>5. FrameInv'
    BY <1>3, <1>4, <1>1, <2>1, <2>2, <2>3 DEF IInv, FrameInv, mainVars
  <2>6. QED
    BY <1>1, <1>3, <1>4, <2>1, <2>4, <2>5 DEF IInv, TypeOK, PicTypeOK, RegInv
<1>6. CASE Dispatch
  <2>1. /\ frame' = [frame EXCEPT !.stage = "iret"] /\ frame.stage = "dispatch"
        /\ UNCHANGED <<ifl, pisr>>
    BY <1>6 DEF Dispatch, picVars
  <2>2. /\ frame' \in [id : {IRQ0, IRQ1, IRQ7}, stage : {"eoi", "dispatch", "iret"}]
        /\ frame'.id = frame.id /\ frame # NoFrame
    BY <1>2, <2>1 DEF NoFrame
  <2>3. handlers[frame.id] = "timer_interrupt" <=> frame.id = IRQ0
    <3>1. frame.id \in 0..47
      BY <1>2 DEF IRQ0, IRQ1, IRQ7
    <3>2. QED
      BY <1>2, <3>1 DEF IInv, MainInv
  <2>4. isr' = {} /\ wild' = FALSE
    <3>1. CASE frame.id = IRQ0
      <4>1. ApicSendEoi
        BY <1>6, <2>3, <3>1 DEF Dispatch, TimerInterrupt
      <4>2. Passed(18) /\ isr \subseteq {IRQ0} /\ wild = FALSE
        BY <3>1 DEF IInv, FrameInv, TypeOK, ApicTypeOK, FrameTypeOK
      <4>3. HasApic /\ apic = "mapped" /\ global
        <5>1. step \in 1..18
          BY ProgramSteps DEF IInv, TypeOK, MainTypeOK
        <5>2. QED
          BY <4>2, <5>1 DEF IInv, MainInv, RegInv, Passed
      <4>4. BitOf("eoi") = EoiRegister
        BY Places DEF EoiRegister, At
      <4>5. isr' = {v \in isr : \E w \in isr : w > v}
        BY <4>1, <4>3, <4>4 DEF ApicSendEoi
      <4>6. isr' = {}
        <5>1. \A v, w \in isr : v = 32 /\ w = 32
          BY <4>2 DEF IRQ0
        <5>2. ~(32 > 32)
          OBVIOUS
        <5>3. QED
          BY <4>5, <5>1, <5>2
      <4>7. wild' = FALSE
        BY <4>1, <4>2, <4>3 DEF ApicSendEoi
      <4>8. QED
        BY <4>6, <4>7
    <3>2. CASE frame.id # IRQ0
      BY <1>6, <2>3, <3>2 DEF Dispatch, IInv, FrameInv, TypeOK, FrameTypeOK
    <3>3. QED
      BY <3>1, <3>2
  <2>5. key' \in BOOLEAN
    BY <1>6, Zenon DEF Dispatch
  <2>6. FrameTypeOK'
    BY <2>1, <2>2, <2>4, <2>5, Zenon DEF IInv, TypeOK, FrameTypeOK
  <2>7. ApicTypeOK'
    BY <1>1, <2>4 DEF IInv, TypeOK, ApicTypeOK
  <2>8. FrameInv'
    BY <1>3, <1>4, <1>1, <2>1, <2>2, <2>4 DEF IInv, FrameInv, mainVars
  <2>9. QED
    BY <1>1, <1>3, <1>4, <2>6, <2>7, <2>8 DEF IInv, TypeOK, PicTypeOK, RegInv
<1>7. CASE Iret
  <2>1. frame.stage = "iret" /\ frame' = NoFrame /\ ifl' = TRUE /\ UNCHANGED <<isr, key, wild>>
    BY <1>7 DEF Iret
  <2>2. isr = {}
    BY <2>1 DEF IInv, FrameInv
  <2>3. FrameTypeOK' /\ ApicTypeOK'
    BY <1>1, <2>1, Zenon DEF IInv, TypeOK, FrameTypeOK, ApicTypeOK
  <2>4. FrameInv'
    BY <1>3, <1>4, <1>1, <2>1, <2>2 DEF IInv, FrameInv, mainVars, NoFrame, IRQ0
  <2>5. QED
    BY <1>1, <1>3, <1>4, <2>3, <2>4 DEF IInv, TypeOK, PicTypeOK, RegInv
<1>8. QED
  BY <1>5, <1>6, <1>7 DEF Handler

\* Every step preserves the invariant.
LEMMA NextIInv == IInv /\ [Next]_vars => IInv'
<1> SUFFICES ASSUME IInv, [Next]_vars PROVE IInv'
  OBVIOUS
<1>1. CASE UNCHANGED vars
  <2>1. HasApic' = HasApic
    BY <1>1, Available DEF vars
  <2>2. \A k \in 1..18 : Passed(k)' = Passed(k)
    BY <1>1, <2>1 DEF Passed, vars, mainVars
  <2>3. MainTypeOK' /\ FrameTypeOK' /\ ApicTypeOK' /\ PicTypeOK'
    <3> USE <1>1 DEF IInv, TypeOK, vars, cpuVars, mainVars, apicVars, picVars
    <3>1. MainTypeOK'
      BY Zenon DEF MainTypeOK
    <3>2. FrameTypeOK' /\ ApicTypeOK'
      BY SMT DEF FrameTypeOK, ApicTypeOK
    <3>3. PicTypeOK'
      BY Zenon DEF PicTypeOK
    <3>4. QED
      BY <3>1, <3>2, <3>3
  <2>4. MainInv'
    BY <1>1, <2>1 DEF IInv, MainInv, vars, mainVars, picVars
  <2>5. RegInv' /\ FrameInv'
    BY <1>1, <2>1, <2>2 DEF IInv, RegInv, FrameInv, vars, mainVars, apicVars, picVars
  <2>6. QED
    BY <2>3, <2>4, <2>5 DEF IInv, TypeOK
<1>2. CASE Next
  BY <1>1, <1>2, TableStep, CallStep, StoreStep, DeviceStep, DeliverStep, HandlerStep
     DEF Next, MainThread, CallInit, Idle
<1>3. QED
  BY <1>1, <1>2

-----------------------------------------------------------------------------
(* The theorems.                                                           *)

LEMMA IInvHolds == Spec => []IInv
BY InitIInv, NextIInv, PTL DEF Spec

\* Every variable keeps its type; in particular the APIC never has another
\* vector than the timer's latched or in service, and no vector is taken but
\* those of the timer, the keyboard and a spurious line 7.
THEOREM TypeCorrect == Spec => []TypeOK
<1>1. IInv => TypeOK
  BY DEF IInv
<1>2. QED
  BY <1>1, IInvHolds, PTL

\* irq_handler_apic sends no end of interrupt and timer_interrupt always
\* does, so nothing is left in service in the APIC when the handler returns;
\* what is left in the PIC is behind the mask of LINT0 when apic_init is done.
THEOREM ServiceCleanHolds == Spec => []ServiceClean
BY IInvHolds, IInvProperties, PTL

\* apic_send_eoi never stores through the null pointer of apic.c.
THEOREM EoiMappedHolds == Spec => []EoiMapped
BY IInvHolds, IInvProperties, PTL

\* Whatever the firmware left, the APIC ends up on and enabled, with LINT0
\* masked, the spurious vector set, and the timer's vector, mask, count and
\* divisor as apic_init stores them.
THEOREM TimerConfiguredHolds == Spec => []TimerConfigured
BY IInvHolds, IInvProperties, PTL

\* The one shot apic_init arms is forgotten only if it ends between the last
\* two stores, while the entry is still masked.
THEOREM ShotKeptHolds == Spec => ShotKept
<1>1. IInv /\ [Next]_vars =>
        [counting /\ ~counting' => IRQ0 \in irr' \/ (pc = "store" /\ step = Len(Program))]_vars
  BY StepShotKept
<1>2. QED
  BY <1>1, IInvHolds, PTL DEF Spec, ShotKept

=============================================================================
