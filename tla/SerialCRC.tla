------------------------------ MODULE SerialCRC ------------------------------
(***************************************************************************)
(* The checksum of the universal serial protocol: Serial_CRC8Table of      *)
(* src/src/robosub-serial.h and one step of the CRC it is used for.        *)
(***************************************************************************)
EXTENDS Integers, Sequences, Bitwise

Serial_CRC8Table ==
  <<   0,  37,  74, 111, 148, 177, 222, 251,  13,  40,  71,  98, 153, 188, 211, 246,
      26,  63,  80, 117, 142, 171, 196, 225,  23,  50,  93, 120, 131, 166, 201, 236,
      52,  17, 126,  91, 160, 133, 234, 207,  57,  28, 115,  86, 173, 136, 231, 194,
      46,  11, 100,  65, 186, 159, 240, 213,  35,   6, 105,  76, 183, 146, 253, 216,
     104,  77,  34,   7, 252, 217, 182, 147, 101,  64,  47,  10, 241, 212, 187, 158,
     114,  87,  56,  29, 230, 195, 172, 137, 127,  90,  53,  16, 235, 206, 161, 132,
      92, 121,  22,  51, 200, 237, 130, 167,  81, 116,  27,  62, 197, 224, 143, 170,
      70,  99,  12,  41, 210, 247, 152, 189,  75, 110,   1,  36, 223, 250, 149, 176,
     208, 245, 154, 191,  68,  97,  14,  43, 221, 248, 151, 178,  73, 108,   3,  38,
     202, 239, 128, 165,  94, 123,  20,  49, 199, 226, 141, 168,  83, 118,  25,  60,
     228, 193, 174, 139, 112,  85,  58,  31, 233, 204, 163, 134, 125,  88,  55,  18,
     254, 219, 180, 145, 106,  79,  32,   5, 243, 214, 185, 156, 103,  66,  45,   8,
     184, 157, 242, 215,  44,   9, 102,  67, 181, 144, 255, 218,  33,   4, 107,  78,
     162, 135, 232, 205,  54,  19, 124,  89, 175, 138, 229, 192,  59,  30, 113,  84,
     140, 169, 198, 227,  24,  61,  82, 119, 129, 164, 203, 238,  21,  48,  95, 122,
     150, 179, 220, 249,   2,  39,  72, 109, 155, 190, 209, 244,  15,  42,  69,  96 >>

(* crc = Serial_CRC8Table[crc ^ byte] *)
CRC8Step(crc, b) == Serial_CRC8Table[(crc ^^ b) + 1]

-----------------------------------------------------------------------------
(* What the table should hold: the remainder of each byte, shifted left by  *)
(* eight bits, modulo the polynomial x^8 + x^5 + x^2 + 1.                   *)
ShiftOut(c) == IF c >= 128 THEN ((2 * c) % 256) ^^ 37 ELSE 2 * c

Remainder(c) ==
    LET r[i \in 0 .. 8] == IF i = 0 THEN c ELSE ShiftOut(r[i - 1])
    IN  r[8]

TableIsRemainder == \A c \in 0 .. 255 : Serial_CRC8Table[c + 1] = Remainder(c)

=============================================================================
