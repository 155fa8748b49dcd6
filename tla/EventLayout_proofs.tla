-------------------------- MODULE EventLayout_proofs --------------------------
(***************************************************************************)
(* Where the bytes of an event lie, worked out field by field from the two *)
(* recursions of EventLayout, and what the agent makes of them.            *)
(***************************************************************************)
EXTENDS EventLayout, TLAPS

(* The declarations, in a form the solver can use. *)
LEMMA FieldSizes ==
    /\ DOMAIN ProcessEvent = 1 .. 21
    /\ ProcessEvent[1].size = 8 /\ ProcessEvent[1].align = 8
    /\ \A i \in 2 .. 9 :
          ProcessEvent[i].size = 4 /\ ProcessEvent[i].align = 4
    /\ ProcessEvent[10].size = 16 /\ ProcessEvent[10].align = 1
    /\ \A i \in 11 .. 12 :
          ProcessEvent[i].size = 256 /\ ProcessEvent[i].align = 1
    /\ \A i \in (13 .. 15) \cup (20 .. 21) :
          ProcessEvent[i].size = 1 /\ ProcessEvent[i].align = 1
    /\ \A i \in 16 .. 17 :
          ProcessEvent[i].size = 4 /\ ProcessEvent[i].align = 4
    /\ \A i \in 18 .. 19 :
          ProcessEvent[i].size = 2 /\ ProcessEvent[i].align = 2
BY DEF ProcessEvent, Field

LEMMA TailNames ==
    /\ ProcessEvent[16].name = "src_addr" /\ ProcessEvent[17].name = "dst_addr"
    /\ ProcessEvent[18].name = "src_port" /\ ProcessEvent[19].name = "dst_port"
    /\ ProcessEvent[20].name = "protocol" /\ ProcessEvent[21].name = "exit_code"
BY DEF ProcessEvent, Field

LEMMA FieldIndices ==
    /\ IndexOf("src_addr") = 16 /\ IndexOf("dst_addr") = 17
    /\ IndexOf("src_port") = 18 /\ IndexOf("dst_port") = 19
    /\ IndexOf("exit_code") = 21
<1>1. \A i \in 1 .. 21 :
        /\ ProcessEvent[i].name = "src_addr" <=> i = 16
        /\ ProcessEvent[i].name = "dst_addr" <=> i = 17
        /\ ProcessEvent[i].name = "src_port" <=> i = 18
        /\ ProcessEvent[i].name = "dst_port" <=> i = 19
        /\ ProcessEvent[i].name = "exit_code" <=> i = 21
  BY DEF ProcessEvent, Field
<1>. QED
  BY <1>1, FieldSizes DEF IndexOf

LEMMA MaxU16IsNat == MaxU16 \in Nat /\ MaxU16 + 1 = 256 * 256
BY DEF MaxU16

(* The roundings that occur. *)
LEMMA RoundUps ==
    /\ \A n \in Nat : RoundUp(n, 1) = n
    /\ \A n \in Nat : RoundUp(4 * n, 4) = 4 * n
    /\ \A n \in Nat : RoundUp(2 * n, 2) = 2 * n
    /\ RoundUp(571, 4) = 572 /\ RoundUp(586, 8) = 592
BY DEF RoundUp

-----------------------------------------------------------------------------
(* Each recursion has a solution, so that its function is one: the offsets
   written down, which satisfy the equation at every field. *)
LEMMA GoEquation ==
    \A i \in 1 .. 21 :
        GoOffset[i] = IF i = 1 THEN 0
                      ELSE GoOffset[i - 1] + ProcessEvent[i - 1].size
<1>. DEFINE Def(g) == g = [i \in DOMAIN ProcessEvent |->
         IF i = 1 THEN 0 ELSE g[i - 1] + ProcessEvent[i - 1].size]
<1>1. GoOffset = CHOOSE g : Def(g)
  BY DEF GoOffset
<1>. DEFINE W == [i \in 1 .. 21 |->
                    IF i = 1 THEN 0
                    ELSE IF i <= 10 THEN 8 + 4 * (i - 2)
                    ELSE IF i = 11 THEN 56
                    ELSE IF i = 12 THEN 312
                    ELSE IF i <= 16 THEN 568 + (i - 13)
                    ELSE IF i <= 18 THEN 571 + 4 * (i - 16)
                    ELSE IF i <= 20 THEN 579 + 2 * (i - 18)
                    ELSE 584]
<1>2. \A i \in 1 .. 21 :
          W[i] = IF i = 1 THEN 0 ELSE W[i - 1] + ProcessEvent[i - 1].size
  BY FieldSizes
<1>3. Def(W)
  BY <1>2, FieldSizes
<1>. HIDE DEF W
<1>4. Def(GoOffset)
  <2>. HIDE DEF Def
  <2>. QED
    BY <1>1, <1>3
<1>. QED
  BY <1>4, FieldSizes

LEMMA GoOffsets ==
    /\ \A i \in 16 .. 18 : GoOffset[i] = 571 + 4 * (i - 16)
    /\ \A i \in 18 .. 20 : GoOffset[i] = 579 + 2 * (i - 18)
    /\ GoOffset[21] = 584
<1>1. GoOffset[1] = 0 /\ GoOffset[2] = 8
  BY GoEquation, FieldSizes
<1>2. /\ GoOffset[3] = 12 /\ GoOffset[4] = 16
      /\ GoOffset[5] = 20 /\ GoOffset[6] = 24
  BY GoEquation, FieldSizes, <1>1
<1>3. /\ GoOffset[7] = 28 /\ GoOffset[8] = 32
      /\ GoOffset[9] = 36 /\ GoOffset[10] = 40
  BY GoEquation, FieldSizes, <1>2
<1>4. /\ GoOffset[11] = 56 /\ GoOffset[12] = 312
      /\ GoOffset[13] = 568 /\ GoOffset[14] = 569
  BY GoEquation, FieldSizes, <1>3
<1>5. /\ GoOffset[15] = 570 /\ GoOffset[16] = 571
      /\ GoOffset[17] = 575 /\ GoOffset[18] = 579
  BY GoEquation, FieldSizes, <1>4
<1>6. /\ GoOffset[19] = 581 /\ GoOffset[20] = 583
      /\ GoOffset[21] = 584
  BY GoEquation, FieldSizes, <1>5
<1>. QED
  BY <1>5, <1>6

LEMMA CEquation ==
    \A i \in 1 .. 21 :
        COffset[i] = IF i = 1 THEN 0
                     ELSE RoundUp(COffset[i - 1] + ProcessEvent[i - 1].size,
                                  ProcessEvent[i].align)
<1>. DEFINE Def(g) == g = [i \in DOMAIN ProcessEvent |->
         IF i = 1 THEN 0
         ELSE RoundUp(g[i - 1] + ProcessEvent[i - 1].size,
                      ProcessEvent[i].align)]
<1>1. COffset = CHOOSE g : Def(g)
  BY DEF COffset
<1>. DEFINE W == [i \in 1 .. 21 |->
                    IF i = 1 THEN 0
                    ELSE IF i <= 10 THEN 8 + 4 * (i - 2)
                    ELSE IF i = 11 THEN 56
                    ELSE IF i = 12 THEN 312
                    ELSE IF i < 16 THEN 568 + (i - 13)
                    ELSE IF i <= 18 THEN 572 + 4 * (i - 16)
                    ELSE IF i <= 20 THEN 580 + 2 * (i - 18)
                    ELSE 585]
<1>2. \A i \in 1 .. 21 :
          W[i] = IF i = 1 THEN 0
                 ELSE RoundUp(W[i - 1] + ProcessEvent[i - 1].size,
                              ProcessEvent[i].align)
  <2>. SUFFICES ASSUME NEW i \in 2 .. 21
               PROVE  W[i] = RoundUp(W[i - 1] + ProcessEvent[i - 1].size,
                                     ProcessEvent[i].align)
    OBVIOUS
  <2>1. CASE i \in 2 .. 9
    BY <2>1, FieldSizes DEF RoundUp
  <2>2. CASE i \in 10 .. 15
    BY <2>2, FieldSizes, RoundUps
  <2>3. CASE i \in 16 .. 17
    BY <2>3, FieldSizes DEF RoundUp
  <2>4. CASE i \in 18 .. 19
    BY <2>4, FieldSizes DEF RoundUp
  <2>5. CASE i \in 20 .. 21
    BY <2>5, FieldSizes, RoundUps
  <2>. QED
    BY <2>1, <2>2, <2>3, <2>4, <2>5
<1>3. Def(W)
  BY <1>2, FieldSizes
<1>. HIDE DEF W
<1>4. Def(COffset)
  <2>. HIDE DEF Def
  <2>. QED
    BY <1>1, <1>3
<1>. QED
  BY <1>4, FieldSizes

LEMMA COffsets ==
    /\ \A i \in 2 .. 10 : COffset[i] = 8 + 4 * (i - 2)
    /\ COffset[1] = 0 /\ COffset[11] = 56 /\ COffset[12] = 312
    /\ \A i \in 13 .. 15 : COffset[i] = 568 + (i - 13)
    /\ \A i \in 16 .. 18 : COffset[i] = 572 + 4 * (i - 16)
    /\ \A i \in 18 .. 20 : COffset[i] = 580 + 2 * (i - 18)
    /\ COffset[21] = 585
<1>1. COffset[1] = 0 /\ COffset[2] = 8
  BY CEquation, FieldSizes DEF RoundUp
<1>2. /\ COffset[3] = 12 /\ COffset[4] = 16
      /\ COffset[5] = 20 /\ COffset[6] = 24
  BY CEquation, FieldSizes, <1>1 DEF RoundUp
<1>3. /\ COffset[7] = 28 /\ COffset[8] = 32
      /\ COffset[9] = 36 /\ COffset[10] = 40
  BY CEquation, FieldSizes, <1>2 DEF RoundUp
<1>4. /\ COffset[11] = 56 /\ COffset[12] = 312
      /\ COffset[13] = 568 /\ COffset[14] = 569
  BY CEquation, FieldSizes, <1>3 DEF RoundUp
<1>5. /\ COffset[15] = 570 /\ COffset[16] = 572
      /\ COffset[17] = 576 /\ COffset[18] = 580
  BY CEquation, FieldSizes, <1>4 DEF RoundUp
<1>6. /\ COffset[19] = 582 /\ COffset[20] = 584
      /\ COffset[21] = 585
  BY CEquation, FieldSizes, <1>5 DEF RoundUp
<1>. QED
  BY <1>1, <1>2, <1>3, <1>4, <1>5, <1>6

(* One byte of padding lies before src_addr, six after exit_code. *)
LEMMA Layout ==
    /\ TailBytes = 571 .. 591
    /\ GoDstAddr = 575 /\ GoSrcPort = 579 /\ GoDstPort = 581 /\ GoExitCode = 584
<1>1. CSize = 592
  BY FieldIndices, COffsets DEF CSize, COff, RoundUp
<1>. QED
  BY <1>1, FieldIndices, GoOffsets DEF TailBytes, TailStart, GoOff, GoDstAddr,
     GoSrcPort, GoDstPort, GoExitCode

-----------------------------------------------------------------------------
(* A byte of the tail belongs to one field at most, and that is one of the
   last six. *)
LEMMA FieldOfByte ==
    ASSUME NEW i \in 1 .. 21, NEW b \in TailBytes, i \in FieldsAt(b)
    PROVE  /\ i \in 16 .. 21
           /\ b - COffset[i] + 1 \in 1 .. ProcessEvent[i].size
           /\ FieldsAt(b) = {i}
<1>1. b \in 571 .. 591
  BY Layout
<1>2. ASSUME NEW j \in FieldsAt(b)
      PROVE  /\ j \in 16 .. 21
             /\ COffset[j] \in Nat /\ ProcessEvent[j].size \in Nat
             /\ b >= COffset[j] /\ b < COffset[j] + ProcessEvent[j].size
  <2>1. /\ j \in 1 .. 21
        /\ b >= COffset[j] /\ b < COffset[j] + ProcessEvent[j].size
    BY FieldSizes DEF FieldsAt
  <2>2. j \notin 1 .. 9 /\ j \notin 10 .. 12 /\ j \notin 13 .. 15
    BY <1>1, <2>1, COffsets, FieldSizes
  <2>3. j \in 16 .. 21
    BY <2>1, <2>2
  <2>. QED
    BY <2>1, <2>3, COffsets, FieldSizes
<1>3. ASSUME NEW j \in FieldsAt(b)
      PROVE  j = i
  BY <1>1, <1>2, COffsets, FieldSizes
<1>4. FieldsAt(b) = {i}
  BY <1>3
<1>5. /\ i \in 16 .. 21
      /\ COffset[i] \in Nat /\ ProcessEvent[i].size \in Nat
      /\ b >= COffset[i] /\ b < COffset[i] + ProcessEvent[i].size
  BY <1>2
<1>6. b - COffset[i] + 1 \in 1 .. ProcessEvent[i].size
  BY <1>1, <1>5
<1>. QED
  BY <1>4, <1>5, <1>6

(* A probe writes every byte of its fields... *)
LEMMA WrittenByte ==
    ASSUME NEW old, NEW tail, NEW i \in 16 .. 21,
           NEW k \in 1 .. ProcessEvent[i].size
    PROVE  /\ COffset[i] + k - 1 \in TailBytes
           /\ WriteTail(old, tail)[COffset[i] + k - 1]
                  = tail[ProcessEvent[i].name][k]
<1>. DEFINE b == COffset[i] + k - 1
<1>0. COffset[i] \in 572 .. 585 /\ ProcessEvent[i].size \in 1 .. 4 /\ k \in Nat
      /\ COffset[i] + ProcessEvent[i].size <= 586
  BY COffsets, FieldSizes
<1>1. b \in TailBytes /\ b \in Nat
  BY <1>0, Layout
<1>2. i \in FieldsAt(b) /\ b - COffset[i] + 1 = k
  BY <1>0, FieldSizes DEF FieldsAt
<1>. HIDE DEF b
<1>3. FieldsAt(b) = {i}
  BY <1>1, <1>2, FieldOfByte
<1>4. Place[b] = {<<ProcessEvent[i].name, k>>}
  BY <1>1, <1>2, <1>3 DEF Place
<1>5. (CHOOSE p \in Place[b] : TRUE) = <<ProcessEvent[i].name, k>>
  BY <1>4
<1>6. WriteTail(old, tail)[b] = tail[ProcessEvent[i].name][k]
  BY <1>1, <1>4, <1>5 DEF WriteTail
<1>. QED
  BY <1>1, <1>6 DEF b

(* ...and leaves the others. *)
LEMMA UnwrittenByte ==
    ASSUME NEW old, NEW tail, NEW b \in TailBytes, FieldsAt(b) = {}
    PROVE  WriteTail(old, tail)[b] = old[b]
BY DEF WriteTail, Place

(* The bytes a probe may write to the last six fields. *)
Tails == [src_addr : [1 .. 4 -> Byte], dst_addr : [1 .. 4 -> Byte],
          src_port : [1 .. 2 -> Byte], dst_port : [1 .. 2 -> Byte],
          protocol : [1 .. 1 -> Byte], exit_code : [1 .. 1 -> Byte]]

LEMMA WriteTailIsBytes ==
    ASSUME NEW old \in [TailBytes -> Byte], NEW tail \in Tails
    PROVE  WriteTail(old, tail) \in [TailBytes -> Byte]
<1>1. ASSUME NEW b \in TailBytes
      PROVE  WriteTail(old, tail)[b] \in Byte
  <2>1. CASE FieldsAt(b) = {}
    BY <2>1, UnwrittenByte
  <2>2. ASSUME NEW i \in FieldsAt(b)
        PROVE  WriteTail(old, tail)[b] \in Byte
    <3>1. i \in 1 .. 21
      BY FieldSizes DEF FieldsAt
    <3>2. i \in 16 .. 21 /\ b - COffset[i] + 1 \in 1 .. ProcessEvent[i].size
      BY <3>1, FieldOfByte
    <3>. DEFINE k == b - COffset[i] + 1
    <3>3. COffset[i] + k - 1 = b
      BY <3>2, COffsets, Layout
    <3>4. tail[ProcessEvent[i].name] \in [1 .. ProcessEvent[i].size -> Byte]
      <4>1. /\ tail["src_addr"] \in [1 .. 4 -> Byte]
            /\ tail["dst_addr"] \in [1 .. 4 -> Byte]
            /\ tail["src_port"] \in [1 .. 2 -> Byte]
            /\ tail["dst_port"] \in [1 .. 2 -> Byte]
            /\ tail["protocol"] \in [1 .. 1 -> Byte]
            /\ tail["exit_code"] \in [1 .. 1 -> Byte]
        BY DEF Tails
      <4>2. \/ i = 16 /\ ProcessEvent[i].size = 4
            \/ i = 17 /\ ProcessEvent[i].size = 4
            \/ i = 18 /\ ProcessEvent[i].size = 2
            \/ i = 19 /\ ProcessEvent[i].size = 2
            \/ i = 20 /\ ProcessEvent[i].size = 1
            \/ i = 21 /\ ProcessEvent[i].size = 1
        BY <3>2, FieldSizes
      <4>. QED
        BY <4>1, <4>2, TailNames, Zenon
    <3>5. k \in 1 .. ProcessEvent[i].size
      BY <3>2
    <3>. HIDE DEF k
    <3>6. WriteTail(old, tail)[b] = tail[ProcessEvent[i].name][k]
      BY <3>2, <3>3, <3>5, WrittenByte
    <3>. QED
      BY <3>4, <3>5, <3>6
  <2>. QED
    BY <2>1, <2>2
<1>. QED
  BY <1>1 DEF WriteTail

(* What the agent makes of the network fields a probe has written, whatever
   they are: it reads each from one byte before its place, the exit code from
   the protocol. *)
THEOREM AgentReadsOneByteEarly ==
    ASSUME NEW old, NEW tail
    PROVE  Decode(WriteTail(old, tail)) =
               [dst_addr  |-> [i \in 1 .. 4 |-> IF i = 1 THEN tail.src_addr[4]
                                                ELSE tail.dst_addr[i - 1]],
                src_port  |-> tail.dst_addr[4] + 256 * tail.src_port[1],
                dst_port  |-> tail.src_port[2] + 256 * tail.dst_port[1],
                exit_code |-> tail.protocol[1]]
<1>. DEFINE mem == WriteTail(old, tail)
<1>1. /\ COffset[16] = 572 /\ COffset[17] = 576 /\ COffset[18] = 580
      /\ COffset[19] = 582 /\ COffset[20] = 584
  BY COffsets
<1>2. /\ ProcessEvent[16].size = 4 /\ ProcessEvent[17].size = 4
      /\ ProcessEvent[18].size = 2 /\ ProcessEvent[19].size = 2
      /\ ProcessEvent[20].size = 1
  BY FieldSizes
<1>3. mem[575] = tail.src_addr[4]
  <2>1. mem[COffset[16] + 4 - 1] = tail[ProcessEvent[16].name][4]
    BY <1>2, WrittenByte
  <2>. QED
    BY <1>1, <2>1, TailNames
<1>4. ASSUME NEW k \in 1 .. 4 PROVE mem[575 + k] = tail.dst_addr[k]
  <2>1. mem[COffset[17] + k - 1] = tail[ProcessEvent[17].name][k]
    BY <1>2, WrittenByte
  <2>. QED
    BY <1>1, <2>1, TailNames
<1>5. ASSUME NEW k \in 1 .. 2 PROVE mem[579 + k] = tail.src_port[k]
  <2>1. mem[COffset[18] + k - 1] = tail[ProcessEvent[18].name][k]
    BY <1>2, WrittenByte
  <2>. QED
    BY <1>1, <2>1, TailNames
<1>6. mem[582] = tail.dst_port[1] /\ mem[584] = tail.protocol[1]
  <2>1. mem[COffset[19] + 1 - 1] = tail[ProcessEvent[19].name][1]
    BY <1>2, WrittenByte
  <2>2. mem[COffset[20] + 1 - 1] = tail[ProcessEvent[20].name][1]
    BY <1>2, WrittenByte
  <2>. QED
    BY <1>1, <2>1, <2>2, TailNames
<1>. HIDE DEF mem
<1>7. ASSUME NEW i \in 1 .. 4
      PROVE  mem[575 + i - 1] = IF i = 1 THEN tail.src_addr[4]
                                ELSE tail.dst_addr[i - 1]
  <2>1. CASE i = 1
    BY <1>3, <2>1
  <2>2. CASE i # 1
    <3>1. i - 1 \in 1 .. 4 /\ 575 + (i - 1) = 575 + i - 1
      BY <2>2
    <3>. QED
      BY <1>4, <2>2, <3>1
  <2>. QED
    BY <2>1, <2>2
<1>8. /\ mem[579] = tail.dst_addr[4] /\ mem[579 + 1] = tail.src_port[1]
      /\ mem[581] = tail.src_port[2] /\ mem[581 + 1] = tail.dst_port[1]
      /\ mem[584] = tail.protocol[1]
  <2>1. mem[575 + 4] = tail.dst_addr[4]
    BY <1>4
  <2>2. mem[579 + 1] = tail.src_port[1] /\ mem[579 + 2] = tail.src_port[2]
    BY <1>5
  <2>. QED
    BY <1>6, <2>1, <2>2
<1>9. Decode(mem) =
         [dst_addr  |-> [i \in 1 .. 4 |-> mem[575 + i - 1]],
          src_port  |-> mem[579] + 256 * mem[579 + 1],
          dst_port  |-> mem[581] + 256 * mem[581 + 1],
          exit_code |-> mem[584]]
  BY Layout DEF Decode, U16At
<1>10. [i \in 1 .. 4 |-> mem[575 + i - 1]] =
          [i \in 1 .. 4 |-> IF i = 1 THEN tail.src_addr[4]
                           ELSE tail.dst_addr[i - 1]]
  BY <1>7
<1>. QED
  BY <1>8, <1>9, <1>10 DEF mem
=============================================================================
