---------------------------- MODULE UsbDeviceProofs ----------------------------
(***************************************************************************)
(* Proofs about two parts of the USB library that share no state.          *)
(*                                                                         *)
(* UsbDescriptors: for any descriptors that a device may send and any      *)
(* number of functions.                                                    *)
(* UsbPackets: for any packet size, any lengths of buffers and of short    *)
(* packets, any number of requests and of faults.                          *)
(***************************************************************************)
EXTENDS UsbDescriptors, UsbPackets, WellFoundedInduction, SequenceTheorems, TLAPS

-----------------------------------------------------------------------------
(* Numbers.                                                                *)

(* A set of natural numbers that is not empty has a least member.          *)
LEMMA LeastMember ==
    ASSUME NEW S \in SUBSET Nat, S # {}
    PROVE  \E x \in S : \A y \in S : x <= y
<1> DEFINE R == OpToRel(<, Nat)
<1>1. IsWellFoundedOn(R, Nat)
  BY NatLessThanWellFounded, Zenon
<1>2. \A x, y \in Nat : <<x, y>> \in R <=> x < y
  BY DEF OpToRel
<1> HIDE DEF R
<1>3. PICK x \in S : \A y \in S : ~(<<y, x>> \in R)
  BY <1>1, WFMin
<1>4. ASSUME NEW y \in S
      PROVE  x <= y
  <2>1. x \in Nat /\ y \in Nat
    OBVIOUS
  <2>2. ~(y < x)
    BY <1>2, <1>3, <2>1
  <2> QED BY <2>1, <2>2
<1> QED BY <1>4

(* Induction upwards and downwards: a set that holds one end of 0 .. n and *)
(* with every number its neighbour holds all of them.                      *)
LEMMA Upwards ==
    ASSUME NEW n \in Nat, NEW S, 0 \in S, \A i \in S : i \in 0 .. n - 1 => i + 1 \in S
    PROVE  \A i \in 0 .. n : i \in S
<1> DEFINE Bad == {i \in 0 .. n : i \notin S}
<1>1. SUFFICES ASSUME Bad # {} PROVE FALSE
  OBVIOUS
<1>2. Bad \in SUBSET Nat
  OBVIOUS
<1> HIDE DEF Bad
<1>3. PICK x \in Bad : \A y \in Bad : x <= y
  BY <1>1, <1>2, LeastMember
<1>4. x \in 0 .. n /\ x \notin S
  BY DEF Bad
<1>5. x # 0
  BY <1>4
<1>6. x - 1 \in 0 .. n - 1 /\ x - 1 \in 0 .. n /\ ~(x <= x - 1) /\ (x - 1) + 1 = x
  BY <1>4, <1>5
<1>7. x - 1 \in S
  BY <1>3, <1>6 DEF Bad
<1> QED BY <1>4, <1>6, <1>7

LEMMA Downwards ==
    ASSUME NEW n \in Nat, NEW S, n \in S, \A i \in S : i \in 1 .. n => i - 1 \in S
    PROVE  \A i \in 0 .. n : i \in S
<1> DEFINE T == {i \in 0 .. n : n - i \in S}
<1>1. 0 \in T
  OBVIOUS
<1>2. \A i \in T : i \in 0 .. n - 1 => i + 1 \in T
  <2> SUFFICES ASSUME NEW i \in T, i \in 0 .. n - 1 PROVE i + 1 \in T
    OBVIOUS
  <2>1. n - i \in S /\ n - i \in 1 .. n /\ (n - i) - 1 = n - (i + 1) /\ i + 1 \in 0 .. n
    OBVIOUS
  <2>2. n - (i + 1) \in S
    BY <2>1
  <2> QED BY <2>1, <2>2
<1> HIDE DEF T
<1>3. \A i \in 0 .. n : i \in T
  BY <1>1, <1>2, Upwards
<1>4. ASSUME NEW i \in 0 .. n
      PROVE  i \in S
  <2>1. n - i \in 0 .. n /\ n - (n - i) = i
    OBVIOUS
  <2>2. n - (n - i) \in S
    BY <1>3, <2>1 DEF T
  <2> QED BY <2>1, <2>2
<1> QED BY <1>4

-----------------------------------------------------------------------------
(* Where descriptors end.                                                  *)

Sums(d, n, g) ==
    /\ g \in [0 .. n -> Nat] /\ g[0] = 0
    /\ \A i \in 1 .. n : g[i] = g[i - 1] + d[i].len

LEMMA Fields ==
    ASSUME NEW d \in Seq(Descriptors)
    PROVE  \A i \in 1 .. Len(d) : d[i].len \in Nat /\ d[i].len > 0 /\ d[i].num \in Nat
<1>1. \A x \in Descriptors : x.len \in Nat /\ x.len > 0 /\ x.num \in Nat
  BY DEF Descriptors
<1>2. \A i \in 1 .. Len(d) : d[i] \in Descriptors
  OBVIOUS
<1> QED BY <1>1, <1>2

LEMMA SumsExist ==
    ASSUME NEW d \in Seq(Descriptors)
    PROVE  \E g : Sums(d, Len(d), g)
<1> DEFINE N == Len(d)
           S == {n \in 0 .. N : \E g : Sums(d, n, g)}
<1>1. N \in Nat /\ \A i \in 1 .. N : d[i].len \in Nat
  BY Fields
<1>2. 0 \in S
  <2>1. Sums(d, 0, [i \in 0 .. 0 |-> 0])
    BY DEF Sums
  <2> QED BY <1>1, <2>1
<1>3. ASSUME NEW n \in S, n \in 0 .. N - 1
      PROVE  n + 1 \in S
  <2>1. PICK g : Sums(d, n, g)
    OBVIOUS
  <2> DEFINE h == [i \in 0 .. n + 1 |-> IF i = n + 1 THEN g[n] + d[n + 1].len ELSE g[i]]
  <2>2. n \in Nat /\ n + 1 \in 1 .. N /\ n + 1 \in 0 .. N
    BY <1>1, <1>3
  <2>3. g[n] \in Nat /\ d[n + 1].len \in Nat
    BY <1>1, <2>1, <2>2 DEF Sums
  <2>4. h \in [0 .. n + 1 -> Nat] /\ h[0] = 0
    BY <2>1, <2>2, <2>3 DEF Sums
  <2>5. ASSUME NEW i \in 1 .. n + 1
        PROVE  h[i] = h[i - 1] + d[i].len
    <3>1. CASE i = n + 1
      <4>1. i - 1 = n /\ n \in 0 .. n + 1 /\ n # n + 1
        BY <2>2, <3>1
      <4> QED BY <2>2, <3>1, <4>1
    <3>2. CASE i # n + 1
      <4>1. i \in 1 .. n /\ i \in 0 .. n + 1 /\ i - 1 \in 0 .. n + 1 /\ i - 1 # n + 1
        BY <2>2, <3>2
      <4>2. h[i] = g[i] /\ h[i - 1] = g[i - 1]
        BY <3>2, <4>1
      <4> QED BY <2>1, <4>1, <4>2 DEF Sums
    <3> QED BY <3>1, <3>2
  <2> HIDE DEF h
  <2>6. Sums(d, n + 1, h)
    BY <2>4, <2>5 DEF Sums
  <2> QED BY <2>2, <2>6
<1> HIDE DEF S
<1>4. N \in S
  BY <1>1, <1>2, <1>3, Upwards
<1> QED BY <1>4 DEF S

LEMMA EndOfIs ==
    ASSUME NEW d \in Seq(Descriptors)
    PROVE  Sums(d, Len(d), EndOf(d))
<1>1. PICK g : Sums(d, Len(d), g)
  BY SumsExist
<1>2. \A i \in 0 .. Len(d) : i # 0 => i \in 1 .. Len(d)
  OBVIOUS
<1>3. g = [i \in 0 .. Len(d) |-> IF i = 0 THEN 0 ELSE g[i - 1] + d[i].len]
  BY <1>1, <1>2 DEF Sums
<1>4. EndOf(d) = [i \in 0 .. Len(d) |-> IF i = 0 THEN 0 ELSE EndOf(d)[i - 1] + d[i].len]
  BY <1>3 DEF EndOf
<1> DEFINE f == EndOf(d)
           S == {i \in 0 .. Len(d) : f[i] \in Nat}
<1>5. /\ DOMAIN f = 0 .. Len(d) /\ f = [i \in 0 .. Len(d) |-> f[i]]
      /\ f[0] = 0 /\ \A i \in 1 .. Len(d) : f[i] = f[i - 1] + d[i].len
  <2>1. 0 \in 0 .. Len(d) /\ \A i \in 1 .. Len(d) : i \in 0 .. Len(d) /\ i # 0
    OBVIOUS
  <2> HIDE DEF f
  <2>2. f = [i \in 0 .. Len(d) |-> IF i = 0 THEN 0 ELSE f[i - 1] + d[i].len]
    BY <1>4 DEF f
  <2> QED BY <2>1, <2>2
<1> HIDE DEF f
<1>6. ASSUME NEW i \in S, i \in 0 .. Len(d) - 1
      PROVE  i + 1 \in S
  <2>1. i + 1 \in 1 .. Len(d) /\ (i + 1) - 1 = i /\ i + 1 \in 0 .. Len(d)
    BY <1>6
  <2>2. f[i + 1] = f[i] + d[i + 1].len /\ d[i + 1].len \in Nat /\ f[i] \in Nat
    BY <1>5, <2>1, Fields
  <2> QED BY <2>1, <2>2
<1>7. Len(d) \in Nat /\ 0 \in S
  BY <1>5
<1> HIDE DEF S
<1>8. \A i \in 0 .. Len(d) : i \in S
  BY <1>6, <1>7, Upwards
<1>9. \A i \in 0 .. Len(d) : f[i] \in Nat
  BY <1>8 DEF S
<1>10. f \in [0 .. Len(d) -> Nat]
  BY <1>5, <1>9
<1> QED BY <1>5, <1>10 DEF Sums, f

LEMMA BlobFacts ==
    ASSUME blob \in Blobs
    PROVE  /\ desc \in Seq(Descriptors) /\ Len(desc) \in Nat /\ Len(desc) >= 1
           /\ DOMAIN desc = 1 .. Len(desc)
           /\ end \in Nat /\ blob.bytes \in Nat /\ blob.bytes <= Offset[Len(desc)]
           /\ Offset[0] = 0 /\ \A i \in 0 .. Len(desc) : Offset[i] \in Nat
           /\ \A i \in 1 .. Len(desc) : Offset[i] = Offset[i - 1] + desc[i].len
           /\ \A i \in 1 .. Len(desc) : desc[i].len \in Nat /\ desc[i].len > 0 /\ desc[i].num \in Nat
<1>1. /\ desc \in Seq(Descriptors) /\ desc # <<>> /\ end \in Nat /\ blob.bytes \in Nat
      /\ blob.bytes <= Offset[Len(desc)]
  BY BlobsAssumption DEF desc, end, Offset
<1>2. Len(desc) \in Nat /\ Len(desc) >= 1 /\ DOMAIN desc = 1 .. Len(desc)
  BY <1>1, EmptySeq
<1>3. Sums(desc, Len(desc), Offset)
  BY <1>1, EndOfIs DEF Offset
<1>4. /\ Offset[0] = 0 /\ \A i \in 0 .. Len(desc) : Offset[i] \in Nat
      /\ \A i \in 1 .. Len(desc) : Offset[i] = Offset[i - 1] + desc[i].len
  BY <1>3 DEF Sums
<1> QED BY <1>1, <1>2, <1>4, Fields

(* Descriptors come one after the other.                                   *)
LEMMA Rising ==
    ASSUME blob \in Blobs, NEW i \in 0 .. Len(desc)
    PROVE  \A j \in i + 1 .. Len(desc) : Offset[i] + desc[j].len <= Offset[j] /\ Offset[i] < Offset[j]
<1> DEFINE S == {j \in 0 .. Len(desc) : j > i => Offset[i] + desc[j].len <= Offset[j]}
<1>1. 0 \in S
  BY BlobFacts
<1>2. ASSUME NEW j \in S, j \in 0 .. Len(desc) - 1
      PROVE  j + 1 \in S
  <2>1. /\ j \in Nat /\ j + 1 \in 1 .. Len(desc) /\ (j + 1) - 1 = j /\ j + 1 \in 0 .. Len(desc)
    BY <1>2, BlobFacts
  <2>2. /\ Offset[j + 1] = Offset[j] + desc[j + 1].len /\ desc[j + 1].len \in Nat
        /\ Offset[i] \in Nat /\ Offset[j] \in Nat
    BY <2>1, BlobFacts
  <2>3. CASE j > i
    <3>1. j \in 1 .. Len(desc)
      BY <2>1, <2>3
    <3>2. Offset[i] + desc[j].len <= Offset[j] /\ desc[j].len \in Nat
      BY <2>3, <3>1, BlobFacts
    <3> QED BY <2>1, <2>2, <3>2
  <2>4. CASE ~(j > i)
    <3>1. j + 1 > i => j = i
      BY <2>1, <2>4
    <3> QED BY <2>1, <2>2, <3>1
  <2> QED BY <2>3, <2>4
<1> HIDE DEF S
<1>3. \A j \in 0 .. Len(desc) : j \in S
  BY <1>1, <1>2, BlobFacts, Upwards
<1>4. ASSUME NEW j \in i + 1 .. Len(desc)
      PROVE  Offset[i] + desc[j].len <= Offset[j] /\ Offset[i] < Offset[j]
  <2>1. j \in 0 .. Len(desc) /\ j > i /\ j \in 1 .. Len(desc)
    BY BlobFacts
  <2>2. Offset[i] + desc[j].len <= Offset[j]
    BY <1>3, <2>1 DEF S
  <2>3. desc[j].len \in Nat /\ desc[j].len > 0 /\ Offset[i] \in Nat /\ Offset[j] \in Nat
    BY <2>1, BlobFacts
  <2> QED BY <2>2, <2>3
<1> QED BY <1>4

-----------------------------------------------------------------------------
(* What the parser knows of the descriptors that it has walked over.       *)

Header ==
    /\ blob.bytes \in 4 .. 512 /\ end <= blob.bytes
    /\ desc[1].type = "conf" /\ desc[1].len = 9

InAudio(i) == \E k \in Owner(i) : desc[k].name \in {"umidi", "audio"}

Walked ==
    /\ pos \in 1 .. Len(desc) + 1
    /\ off = Offset[pos - 1]
    /\ last = IF pos = 1 THEN "none" ELSE desc[pos - 1].type
    /\ audio <=> InAudio(pos - 1)
    /\ \A i \in 1 .. pos - 1 : RightAt(i)
    /\ pos > 1 => Offset[pos - 2] + 2 < end

Accepted == (WellFormed /\ ~EndsShort) \/ ClaimsNothing

ParseInv ==
    /\ blob \in Blobs /\ off \in Nat /\ off <= end
    /\ valid \in BOOLEAN /\ audio \in BOOLEAN
    /\ phase \in {"header", "walk", "interfaces", "drivers", "done", "assert"}
    /\ phase = "header" => ~valid /\ ~audio /\ pos = 1 /\ off = 0 /\ last = "none"
    /\ phase = "walk" => ~valid /\ Header /\ Walked
    /\ phase \in {"interfaces", "drivers", "assert"} => valid /\ Accepted
    /\ phase = "done" => (valid <=> Accepted)

LEMMA ParseInit == DescInit => ParseInv
<1> SUFFICES ASSUME DescInit PROVE ParseInv
  OBVIOUS
<1>1. /\ blob \in Blobs /\ phase = "header" /\ pos = 1 /\ off = 0 /\ last = "none"
      /\ audio = FALSE /\ valid = FALSE
  BY DEF DescInit
<1>2. 0 <= end
  BY <1>1, BlobFacts
<1> QED BY <1>1, <1>2 DEF ParseInv

(* The properties of a descriptor do not change while the parser runs.     *)
LEMMA SameBlob ==
    ASSUME blob' = blob
    PROVE  /\ desc' = desc /\ end' = end /\ Offset' = Offset /\ Count' = Count
           /\ (Accepted' <=> Accepted) /\ (Header' <=> Header)
           /\ \A i : (RightAt(i)' <=> RightAt(i)) /\ (InAudio(i)' <=> InAudio(i))
<1>1. desc' = desc /\ end' = end
  BY DEF desc, end
<1>2. Offset' = Offset
  BY <1>1 DEF Offset
<1>3. Count' = Count
  BY <1>1, <1>2 DEF Count
<1>4. \A i : Owner(i)' = Owner(i)
  BY <1>1 DEF Owner
<1>5. \A i : (RightAt(i)' <=> RightAt(i)) /\ (InAudio(i)' <=> InAudio(i))
  BY <1>1, <1>4 DEF RightAt, InAudio
<1>6. Header' <=> Header
  BY <1>1 DEF Header
<1>7. (EndsShort' <=> EndsShort) /\ (ClaimsNothing' <=> ClaimsNothing)
  BY <1>1, <1>2 DEF EndsShort, ClaimsNothing
<1>8. WellFormed' <=> WellFormed
  BY <1>1, <1>2, <1>5 DEF WellFormed
<1> QED BY <1>1, <1>2, <1>3, <1>5, <1>6, <1>7, <1>8 DEF Accepted

(* An interface starts, or the one before it goes on.                      *)
LEMMA InAudioIs ==
    /\ ~InAudio(0)
    /\ \A i \in Nat \ {0} :
          InAudio(i) <=> IF desc[i].type = "interface" THEN desc[i].name \in {"umidi", "audio"}
                         ELSE InAudio(i - 1)
<1>1. ~InAudio(0)
  BY DEF InAudio, Owner
<1>2. ASSUME NEW i \in Nat \ {0}, desc[i].type = "interface"
      PROVE  Owner(i) = {i}
  <2>1. i \in Owner(i)
    <3>1. i \in 1 .. i /\ i + 1 .. i = {}
      OBVIOUS
    <3> QED BY <1>2, <3>1 DEF Owner
  <2>2. ASSUME NEW k \in Owner(i), k # i
        PROVE  FALSE
    <3>1. k \in 1 .. i /\ \A j \in k + 1 .. i : desc[j].type # "interface"
      BY DEF Owner
    <3>2. i \in k + 1 .. i
      BY <2>2, <3>1
    <3> QED BY <1>2, <3>1, <3>2
  <2> QED BY <2>1, <2>2
<1>3. ASSUME NEW i \in Nat \ {0}, desc[i].type # "interface"
      PROVE  Owner(i) = Owner(i - 1)
  <2>1. ASSUME NEW k \in Owner(i)
        PROVE  k \in Owner(i - 1)
    <3>1. k \in 1 .. i /\ desc[k].type = "interface" /\ \A j \in k + 1 .. i : desc[j].type # "interface"
      BY DEF Owner
    <3>2. k # i
      BY <1>3, <3>1
    <3>3. k \in 1 .. i - 1 /\ \A j \in k + 1 .. i - 1 : j \in k + 1 .. i
      BY <3>1, <3>2
    <3> QED BY <3>1, <3>3 DEF Owner
  <2>2. ASSUME NEW k \in Owner(i - 1)
        PROVE  k \in Owner(i)
    <3>1. /\ k \in 1 .. i - 1 /\ desc[k].type = "interface"
          /\ \A j \in k + 1 .. i - 1 : desc[j].type # "interface"
      BY DEF Owner
    <3>2. k \in 1 .. i /\ \A j \in k + 1 .. i : j \in k + 1 .. i - 1 \/ j = i
      BY <3>1
    <3> QED BY <1>3, <3>1, <3>2 DEF Owner
  <2> QED BY <2>1, <2>2
<1>4. ASSUME NEW i \in Nat \ {0}
      PROVE  InAudio(i) <=> IF desc[i].type = "interface" THEN desc[i].name \in {"umidi", "audio"}
                            ELSE InAudio(i - 1)
  BY <1>2, <1>3 DEF InAudio
<1> QED BY <1>1, <1>4

LEMMA HeaderKeeps ==
    ASSUME ParseInv, CheckHeader
    PROVE  ParseInv'
<1>1. /\ blob \in Blobs /\ phase = "header" /\ ~valid /\ ~audio /\ pos = 1 /\ off = 0 /\ last = "none"
      /\ off <= end /\ UNCHANGED <<blob, pos, off, last, audio, valid>>
  BY DEF ParseInv, CheckHeader
<1>2. phase' = IF Header THEN "walk" ELSE "done"
  BY DEF CheckHeader, Header, ConfLen
<1>3. CASE Header
  <2>1. Walked
    <3>1. pos \in 1 .. Len(desc) + 1 /\ pos - 1 = 0 /\ 1 .. pos - 1 = {} /\ ~(pos > 1)
      BY <1>1, BlobFacts
    <3>2. off = Offset[pos - 1]
      BY <1>1, <3>1, BlobFacts
    <3>3. audio <=> InAudio(pos - 1)
      BY <1>1, <3>1, InAudioIs
    <3> QED BY <1>1, <3>1, <3>2, <3>3 DEF Walked
  <2>2. Walked'
    BY <1>1, <2>1, SameBlob DEF Walked
  <2>3. phase' = "walk"
    BY <1>2, <1>3
  <2> QED BY <1>1, <1>3, <2>2, <2>3, SameBlob DEF ParseInv
<1>4. CASE ~Header
  <2>1. ~Accepted
    <3>1. ASSUME WellFormed PROVE Header
      <4>1. PICK n \in DOMAIN desc : \A i \in 1 .. n : RightAt(i)
        BY <3>1 DEF WellFormed
      <4>2. 1 \in 1 .. n
        BY <1>1, BlobFacts
      <4>3. desc[1].len = 9
        BY <3>1, <4>1, <4>2 DEF WellFormed, RightAt
      <4> QED BY <3>1, <4>3 DEF WellFormed, Header
    <3>2. ASSUME ClaimsNothing PROVE Header
      BY <3>2 DEF ClaimsNothing, Header
    <3> QED BY <1>4, <3>1, <3>2 DEF Accepted
  <2>2. phase' = "done"
    BY <1>2, <1>4
  <2> QED BY <1>1, <2>1, <2>2, SameBlob DEF ParseInv
<1> QED BY <1>3, <1>4

(* Where the parser is; three bytes in front of the end there is always    *)
(* another descriptor.                                                     *)
LEMMA WalkPlace ==
    ASSUME ParseInv, phase = "walk"
    PROVE  /\ blob \in Blobs /\ Header /\ Walked /\ ~valid
           /\ pos \in Nat \ {0} /\ pos - 1 \in 0 .. Len(desc) /\ off = Offset[pos - 1] /\ off \in Nat
           /\ off + 2 < end =>
                 /\ pos \in 1 .. Len(desc)
                 /\ Offset[pos] = off + desc[pos].len /\ Offset[pos] \in Nat
                 /\ desc[pos].len \in Nat
<1>1. blob \in Blobs /\ Header /\ Walked /\ ~valid /\ off \in Nat
  BY DEF ParseInv
<1>2. pos \in Nat \ {0} /\ pos - 1 \in 0 .. Len(desc) /\ off = Offset[pos - 1]
  BY <1>1, BlobFacts DEF Walked
<1>3. ASSUME off + 2 < end PROVE pos \in 1 .. Len(desc)
  <2>1. off < Offset[Len(desc)]
    <3>1. end <= blob.bytes /\ blob.bytes <= Offset[Len(desc)] /\ Offset[Len(desc)] \in Nat
          /\ end \in Nat /\ blob.bytes \in Nat
      BY <1>1, BlobFacts DEF Header
    <3> QED BY <1>1, <1>3, <3>1
  <2>2. pos - 1 # Len(desc)
    BY <1>1, <1>2, <2>1
  <2> QED BY <1>1, <1>2, <2>2, BlobFacts
<1>4. ASSUME pos \in 1 .. Len(desc)
      PROVE  Offset[pos] = off + desc[pos].len /\ Offset[pos] \in Nat /\ desc[pos].len \in Nat
  <2>1. pos \in 0 .. Len(desc)
    BY <1>4
  <2> QED BY <1>1, <1>2, <1>4, <2>1, BlobFacts
<1> QED BY <1>1, <1>2, <1>3, <1>4

(* The checks of the parser are those of a configuration.                  *)
LEMMA ChecksRight ==
    ASSUME ParseInv, phase = "walk", off + 2 < end
    PROVE  RightAt(pos) <=> InPlace(desc[pos]) /\ RightLength(desc[pos])
<1>1. /\ pos \in 1 .. Len(desc) /\ pos \in Nat \ {0}
      /\ last = IF pos = 1 THEN "none" ELSE desc[pos - 1].type
      /\ audio <=> InAudio(pos - 1)
      /\ desc[1].type = "conf"
  BY WalkPlace DEF Walked, Header
<1>2. desc[pos].type # "interface" => (audio <=> InAudio(pos))
  BY <1>1, InAudioIs
<1>3. CASE desc[pos].type = "conf"
  BY <1>1, <1>3 DEF RightAt, InPlace, RightLength, ConfLen
<1>4. CASE desc[pos].type = "interface"
  <2>1. pos # 1
    BY <1>1, <1>4
  <2> QED BY <1>1, <1>4, <2>1 DEF RightAt, InPlace, RightLength, InterfaceLen
<1>5. CASE desc[pos].type = "endpoint"
  <2>1. pos # 1
    BY <1>1, <1>5
  <2>2. EndpointLen(audio) = IF InAudio(pos) THEN 9 ELSE 7
    BY <1>2, <1>5 DEF EndpointLen
  <2> QED BY <1>1, <1>5, <2>1, <2>2 DEF RightAt, InPlace, RightLength, InAudio
<1>6. CASE desc[pos].type \notin {"conf", "interface", "endpoint"}
  BY <1>6 DEF RightAt, InPlace, RightLength
<1> QED BY <1>3, <1>4, <1>5, <1>6

LEMMA WalkKeeps ==
    ASSUME ParseInv, Walk
    PROVE  ParseInv'
<1> DEFINE d == desc[pos]
<1>1. phase = "walk" /\ off + 2 < end /\ UNCHANGED <<blob, valid>>
  BY DEF Walk
<1>2. /\ blob \in Blobs /\ Header /\ Walked /\ ~valid
      /\ pos \in 1 .. Len(desc) /\ pos - 1 \in 0 .. Len(desc) /\ off = Offset[pos - 1] /\ off \in Nat
      /\ Offset[pos] = off + d.len /\ Offset[pos] \in Nat /\ d.len \in Nat
      /\ Len(desc) \in Nat /\ end \in Nat
  BY <1>1, WalkPlace, BlobFacts
<1>3. RightAt(pos) <=> InPlace(d) /\ RightLength(d)
  BY <1>1, ChecksRight
<1>4. valid \in BOOLEAN /\ audio \in BOOLEAN
  BY DEF ParseInv
<1>5. CASE off + d.len <= end /\ InPlace(d) /\ RightLength(d)
  <2>1. /\ pos' = pos + 1 /\ off' = off + d.len /\ last' = d.type /\ phase' = phase
        /\ audio' = IF d.type = "interface" THEN d.name \in {"umidi", "audio"} ELSE audio
    BY <1>5 DEF Walk
  <2>2. pos' - 1 = pos /\ pos' - 2 = pos - 1 /\ pos' # 1 /\ pos' \in 1 .. Len(desc) + 1
        /\ \A i \in 1 .. pos' - 1 : i \in 1 .. pos - 1 \/ i = pos
    BY <1>2, <2>1
  <2>3. (audio' <=> InAudio(pos)) /\ audio' \in BOOLEAN
    <3>1. pos \in Nat \ {0} /\ (audio <=> InAudio(pos - 1))
      BY <1>2 DEF Walked
    <3>2. InAudio(pos) <=> IF d.type = "interface" THEN d.name \in {"umidi", "audio"}
                           ELSE InAudio(pos - 1)
      BY <3>1, InAudioIs
    <3> HIDE DEF d
    <3>3. CASE d.type = "interface"
      <4>1. audio' = (d.name \in {"umidi", "audio"})
        BY <2>1, <3>3, Zenon
      <4>2. audio' \in BOOLEAN
        <5> DEFINE b == d.name \in {"umidi", "audio"}
        <5>1. b \in BOOLEAN
          OBVIOUS
        <5> QED BY <4>1, <5>1, Zenon
      <4>3. InAudio(pos) <=> d.name \in {"umidi", "audio"}
        BY <3>2, <3>3, Zenon
      <4> QED BY <4>1, <4>2, <4>3, Zenon
    <3>4. CASE d.type # "interface"
      BY <1>4, <2>1, <3>1, <3>2, <3>4
    <3> QED BY <3>3, <3>4
  <2>4. \A i \in 1 .. pos' - 1 : RightAt(i)
    BY <1>2, <1>3, <1>5, <2>2 DEF Walked
  <2>5. Walked'
    <3>1. off' = Offset'[pos' - 1]
      BY <1>1, <1>2, <2>1, <2>2, SameBlob
    <3>2. last' = IF pos' = 1 THEN "none" ELSE desc'[pos' - 1].type
      BY <1>1, <2>1, <2>2, SameBlob
    <3>3. audio' <=> InAudio(pos - 1)'
      <4>1. InAudio(pos - 1)' <=> InAudio(pos)
        BY <1>1, <2>2, SameBlob DEF InAudio, Owner
      <4> QED BY <2>3, <4>1
    <3>4. \A i \in 1 .. pos' - 1 : RightAt(i)'
      BY <1>1, <2>4, SameBlob
    <3>5. Offset'[pos' - 2] + 2 < end'
      BY <1>1, <1>2, <2>2, SameBlob
    <3>6. pos' \in 1 .. Len(desc') + 1
      BY <1>1, <2>2, SameBlob
    <3> QED BY <3>1, <3>2, <3>3, <3>4, <3>5, <3>6 DEF Walked
  <2>6. off' \in Nat /\ off' <= end'
    BY <1>1, <1>2, <1>5, <2>1, SameBlob
  <2> QED BY <1>1, <1>2, <1>4, <2>1, <2>3, <2>5, <2>6, SameBlob DEF ParseInv
<1>6. CASE ~(off + d.len <= end /\ InPlace(d) /\ RightLength(d))
  <2>1. phase' = "done" /\ UNCHANGED <<pos, off, last, audio>>
    BY <1>6 DEF Walk
  <2>2. ~ClaimsNothing
    BY <1>1, <1>2 DEF ClaimsNothing
  <2>3. ASSUME WellFormed PROVE FALSE
    <3>1. PICK n \in DOMAIN desc : Offset[n] = end /\ \A i \in 1 .. n : RightAt(i)
      BY <2>3 DEF WellFormed
    <3>2. n \in 1 .. Len(desc) /\ n \in 0 .. Len(desc)
      BY <1>2, BlobFacts
    <3>3. ~(n < pos - 1) /\ n # pos - 1
      <4>1. off < Offset[n]
        BY <1>1, <1>2, <3>1
      <4>2. n # pos - 1
        BY <1>2, <4>1
      <4>3. ASSUME n < pos - 1 PROVE FALSE
        <5>1. pos - 1 \in n + 1 .. Len(desc)
          BY <1>2, <3>2, <4>3
        <5>2. Offset[n] < Offset[pos - 1] /\ Offset[n] \in Nat
          BY <1>2, <3>2, <5>1, Rising, BlobFacts
        <5> QED BY <1>2, <4>1, <5>2
      <4> QED BY <4>2, <4>3
    <3>4. pos \in 1 .. n
      BY <1>2, <3>2, <3>3
    <3>5. RightAt(pos)
      BY <3>1, <3>4
    <3>6. off + d.len <= end
      <4>1. CASE n = pos
        BY <1>2, <3>1, <4>1
      <4>2. CASE n # pos
        <5>1. n \in pos + 1 .. Len(desc) /\ pos \in 0 .. Len(desc)
          BY <1>2, <3>2, <3>4, <4>2
        <5>2. Offset[pos] < Offset[n]
          BY <1>2, <5>1, Rising
        <5> QED BY <1>2, <3>1, <5>2
      <4> QED BY <4>1, <4>2
    <3> QED BY <1>3, <1>6, <3>5, <3>6
  <2>4. ~Accepted
    BY <2>2, <2>3 DEF Accepted
  <2>5. off' \in Nat /\ off' <= end'
    BY <1>1, <2>1, SameBlob DEF ParseInv
  <2> QED BY <1>1, <1>2, <1>4, <2>1, <2>4, <2>5, SameBlob DEF ParseInv
<1> QED BY <1>5, <1>6

LEMMA WalkEndsKeeps ==
    ASSUME ParseInv, WalkEnds
    PROVE  ParseInv'
<1>1. /\ phase = "walk" /\ off + 2 >= end /\ UNCHANGED <<blob, off, last, audio>>
      /\ valid' = (off = end) /\ phase' = IF off = end THEN "interfaces" ELSE "done"
  BY DEF WalkEnds
<1>2. /\ blob \in Blobs /\ Header /\ Walked /\ off \in Nat /\ off <= end /\ audio \in BOOLEAN
      /\ pos \in Nat \ {0} /\ pos - 1 \in 0 .. Len(desc) /\ off = Offset[pos - 1]
      /\ Len(desc) \in Nat /\ end \in Nat
  BY <1>1, WalkPlace, BlobFacts DEF ParseInv
<1>3. CASE off = end
  <2>1. Accepted
    <3>1. CASE pos = 1
      <4>1. off = 0
        BY <1>2, <3>1, BlobFacts
      <4> QED BY <1>2, <1>3, <4>1 DEF Accepted, ClaimsNothing, Header
    <3>2. CASE pos # 1
      <4>1. pos - 1 \in 1 .. Len(desc) /\ pos > 1 /\ pos - 2 \in 0 .. Len(desc) /\ (pos - 1) - 1 = pos - 2
        BY <1>2, <3>2
      <4>2. WellFormed
        <5>1. pos - 1 \in DOMAIN desc /\ Offset[pos - 1] = end /\ \A i \in 1 .. pos - 1 : RightAt(i)
          BY <1>2, <1>3, <4>1, BlobFacts DEF Walked
        <5> QED BY <1>2, <5>1 DEF WellFormed, Header
      <4>3. ASSUME EndsShort PROVE FALSE
        <5>1. PICK i \in DOMAIN desc : Offset[i] = end /\ desc[i].len <= 2
          BY <4>3 DEF EndsShort
        <5>2. i \in 1 .. Len(desc) /\ i \in 0 .. Len(desc) /\ Offset[i] \in Nat
          BY <1>2, BlobFacts
        <5>3. ~(i < pos - 1)
          <6>1. ASSUME i < pos - 1 PROVE FALSE
            <7>1. pos - 1 \in i + 1 .. Len(desc)
              BY <1>2, <5>2, <6>1
            <7>2. Offset[i] < Offset[pos - 1]
              BY <1>2, <5>2, <7>1, Rising
            <7> QED BY <1>2, <1>3, <5>1, <7>2
          <6> QED BY <6>1
        <5>4. ~(i > pos - 1)
          <6>1. ASSUME i > pos - 1 PROVE FALSE
            <7>1. i \in (pos - 1) + 1 .. Len(desc)
              BY <1>2, <5>2, <6>1
            <7>2. Offset[pos - 1] < Offset[i]
              BY <1>2, <7>1, Rising
            <7> QED BY <1>2, <1>3, <5>1, <7>2
          <6> QED BY <6>1
        <5>5. i = pos - 1
          BY <1>2, <5>2, <5>3, <5>4
        <5>6. Offset[i] = Offset[pos - 2] + desc[i].len /\ desc[i].len \in Nat /\ Offset[pos - 2] \in Nat
          BY <1>2, <4>1, <5>2, <5>5, BlobFacts
        <5>7. Offset[pos - 2] + 2 < end
          BY <1>2, <4>1 DEF Walked
        <5> QED BY <1>2, <5>1, <5>6, <5>7
      <4> QED BY <4>2, <4>3 DEF Accepted
    <3> QED BY <3>1, <3>2
  <2> QED BY <1>1, <1>2, <1>3, <2>1, SameBlob DEF ParseInv
<1>4. CASE off # end
  <2>1. off < end
    BY <1>2, <1>4
  <2>2. ~ClaimsNothing
    BY <1>2, <2>1 DEF ClaimsNothing
  <2>3. ASSUME WellFormed, ~EndsShort PROVE FALSE
    <3>1. PICK n \in DOMAIN desc : Offset[n] = end
      BY <2>3 DEF WellFormed
    <3>2. n \in 1 .. Len(desc) /\ n \in 0 .. Len(desc) /\ n - 1 \in 0 .. Len(desc)
          /\ Offset[n] = Offset[n - 1] + desc[n].len /\ Offset[n - 1] \in Nat /\ desc[n].len \in Nat
      BY <1>2, BlobFacts
    <3>3. desc[n].len > 2
      BY <2>3, <3>1, <3>2 DEF EndsShort
    <3>4. ~(n <= pos - 1)
      <4>1. ASSUME n < pos - 1 PROVE FALSE
        <5>1. pos - 1 \in n + 1 .. Len(desc)
          BY <1>2, <3>2, <4>1
        <5>2. Offset[n] < Offset[pos - 1]
          BY <1>2, <3>2, <5>1, Rising
        <5> QED BY <1>2, <2>1, <3>1, <5>2
      <4>2. n # pos - 1
        BY <1>2, <2>1, <3>1
      <4> QED BY <1>2, <3>2, <4>1, <4>2
    <3>5. off <= Offset[n - 1]
      <4>1. CASE n - 1 = pos - 1
        BY <1>2, <4>1
      <4>2. CASE n - 1 # pos - 1
        <5>1. n - 1 \in (pos - 1) + 1 .. Len(desc)
          BY <1>2, <3>2, <3>4, <4>2
        <5>2. Offset[pos - 1] < Offset[n - 1]
          BY <1>2, <5>1, Rising
        <5> QED BY <1>2, <3>2, <5>2
      <4> QED BY <4>1, <4>2
    <3> QED BY <1>1, <1>2, <3>1, <3>2, <3>3, <3>5
  <2>4. ~Accepted
    BY <2>2, <2>3 DEF Accepted
  <2> QED BY <1>1, <1>2, <1>4, <2>4, SameBlob DEF ParseInv
<1> QED BY <1>3, <1>4

LEMMA ParseNext == ParseInv /\ [DescNext]_descVars => ParseInv'
<1> SUFFICES ASSUME ParseInv, [DescNext]_descVars PROVE ParseInv'
  OBVIOUS
<1>1. CASE CheckHeader \/ Walk \/ WalkEnds
  BY <1>1, HeaderKeeps, WalkKeeps, WalkEndsKeeps
<1>2. CASE NextInterface \/ NoMoreInterfaces \/ DriverPicks \/ DriversDone
  <2>1. /\ UNCHANGED <<blob, off, last, audio, valid>> /\ phase \in {"interfaces", "drivers"}
        /\ phase' \in {"interfaces", "drivers", "done", "assert"}
    BY <1>2 DEF NextInterface, NoMoreInterfaces, DriverPicks, DriversDone
  <2> QED BY <2>1, SameBlob DEF ParseInv
<1>3. CASE UNCHANGED descVars
  <2>1. UNCHANGED <<blob, phase, pos, off, last, audio, valid>>
    BY <1>3 DEF descVars
  <2>2. Walked => Walked'
    BY <2>1, SameBlob DEF Walked
  <2> QED BY <2>1, <2>2, SameBlob DEF ParseInv
<1> QED BY <1>1, <1>2, <1>3 DEF DescNext

(* USBConfigurationParser accepts exactly the well-formed configurations   *)
(* that do not end with a descriptor of two bytes, and those that claim no *)
(* bytes, of any number of descriptors of any types and lengths.           *)
THEOREM ParseTheorem == DescSpec => []ParseExact
<1>1. ParseInv => ParseExact
  <2> SUFFICES ASSUME ParseInv PROVE ParseExact
    OBVIOUS
  <2>1. phase # "header" => off <= end
    BY DEF ParseInv
  <2>2. phase \in {"interfaces", "drivers"} => WellFormed \/ ClaimsNothing
    BY DEF ParseInv, Accepted
  <2>3. phase = "done" => (valid <=> (WellFormed /\ ~EndsShort) \/ ClaimsNothing)
    BY DEF ParseInv, Accepted
  <2> QED BY <2>1, <2>2, <2>3 DEF ParseExact
<1> QED BY <1>1, ParseInit, ParseNext, PTL DEF DescSpec
-----------------------------------------------------------------------------
(* The functions so far.  What ifno has passed has its function, and ifno  *)
(* is where an interface or the last function has put it.                  *)

Interfaces == {i \in Count : desc[i].type = "interface"}
Num(f) == desc[functions[f].at].num

FunctionTypes ==
    /\ functions \in Seq([name : Supported, at : Nat])
    /\ ifno \in Nat /\ pos \in Nat
    /\ \A f \in 1 .. Len(functions) : functions[f].at \in Interfaces
    /\ phase \in {"header", "walk"} \/ ~valid => functions = <<>> /\ ifno = 0

NumbersRise ==
    /\ \A f \in 1 .. Len(functions) : \A g \in 1 .. f - 1 : Num(g) < Num(f)
    /\ phase = "interfaces" => \A f \in 1 .. Len(functions) : functions[f].at < pos /\ Num(f) < ifno

FirstSettings ==
    /\ blob.vendor \notin Supported =>
          \A f \in 1 .. Len(functions) : \A i \in Interfaces :
             desc[i].num = Num(f) /\ desc[i].name \in Supported => functions[f].at <= i
    /\ phase = "interfaces" =>
          \A i \in Interfaces : i < pos /\ desc[i].name \in Supported => desc[i].num < ifno

Served(i) == \E f \in 1 .. Len(functions) : Num(f) = desc[i].num

AllServed ==
    /\ phase = "interfaces" =>
          /\ \/ ifno = 0
             \/ \E i \in Interfaces : i < pos /\ desc[i].num = ifno
             \/ \E f \in 1 .. Len(functions) : Num(f) + 1 = ifno
          /\ Ascending => \A i \in Interfaces : i < pos /\ desc[i].name \in Supported => Served(i)
    /\ phase \in {"drivers", "done", "assert"} /\ valid /\ Ascending =>
          \A i \in Interfaces :
             desc[i].name \in Supported => Len(functions) = MaxFunctions \/ Served(i)

FunctionInv == FunctionTypes /\ NumbersRise /\ FirstSettings /\ AllServed

(* What a search for descriptors other than endpoints finds.               *)
LEMMA NextOf ==
    ASSUME blob \in Blobs, NEW t, t # "endpoint", NEW p \in Nat
    PROVE  /\ Count \in SUBSET Nat
           /\ \A i \in GetDescriptor(t, p) :
                 /\ i \in Count /\ i >= p /\ desc[i].type = t
                 /\ \A j \in Count : desc[j].type = t /\ j >= p => i <= j
           /\ GetDescriptor(t, p) = {} => \A j \in Count : desc[j].type = t => j < p
<1>1. Count \in SUBSET Nat
  BY BlobFacts DEF Count
<1>2. Hits(t, p) = {i \in Count : i >= p /\ desc[i].type = t}
  BY DEF Hits, Within
<1>3. ASSUME NEW i \in GetDescriptor(t, p)
      PROVE  /\ i \in Count /\ i >= p /\ desc[i].type = t
             /\ \A j \in Count : desc[j].type = t /\ j >= p => i <= j
  BY <1>2 DEF GetDescriptor
<1>4. ASSUME GetDescriptor(t, p) = {}, NEW j \in Count, desc[j].type = t
      PROVE  j < p
  <2>1. SUFFICES ASSUME ~(j < p) PROVE FALSE
    OBVIOUS
  <2>2. j \in Hits(t, p) /\ Hits(t, p) \in SUBSET Nat
    <3>1. j >= p
      BY <1>1, <1>4, <2>1
    <3> QED BY <1>1, <1>2, <1>4, <3>1
  <2>3. PICK x \in Hits(t, p) : \A y \in Hits(t, p) : x <= y
    BY <2>2, LeastMember
  <2>4. x \in GetDescriptor(t, p)
    BY <2>3 DEF GetDescriptor
  <2> QED BY <1>4, <2>4
<1> QED BY <1>1, <1>3, <1>4

LEMMA InterfaceFacts ==
    ASSUME blob \in Blobs
    PROVE  Interfaces \in SUBSET Nat /\ \A i \in Interfaces : desc[i].num \in Nat
<1>1. \A i \in Count : i \in 1 .. Len(desc)
  BY BlobFacts DEF Count
<1>2. \A i \in Interfaces : i \in 1 .. Len(desc)
  BY <1>1 DEF Interfaces
<1>3. \A i \in Interfaces : desc[i].num \in Nat
  BY <1>2, BlobFacts
<1> QED BY <1>2, <1>3

(* With the functions, what is said of them stays.                         *)
LEMMA SameFunctions ==
    ASSUME blob' = blob, functions' = functions
    PROVE  /\ Interfaces' = Interfaces /\ (Ascending' <=> Ascending)
           /\ \A f : Num(f)' = Num(f)
           /\ \A i : Served(i)' <=> Served(i)
<1>1. Interfaces' = Interfaces /\ (Ascending' <=> Ascending)
  BY SameBlob DEF Interfaces, Ascending
<1>2. \A f : Num(f)' = Num(f)
  BY SameBlob DEF Num
<1>3. \A i : Served(i)' <=> Served(i)
  BY <1>2, SameBlob DEF Served
<1> QED BY <1>1, <1>2, <1>3

LEMMA FunctionInit == DescInit => FunctionInv
<1> SUFFICES ASSUME DescInit PROVE FunctionInv
  OBVIOUS
<1>1. blob \in Blobs /\ phase = "header" /\ pos = 1 /\ ~valid /\ ifno = 0 /\ functions = <<>>
  BY DEF DescInit
<1>2. 1 .. Len(functions) = {} /\ functions \in Seq([name : Supported, at : Nat])
  BY <1>1
<1> QED BY <1>1, <1>2 DEF FunctionInv, FunctionTypes, NumbersRise, FirstSettings, AllServed

(* The parser finds an interface.                                          *)
LEMMA InterfaceKeeps ==
    ASSUME ParseInv, FunctionInv, NextInterface
    PROVE  FunctionInv'
<1>1. /\ phase = "interfaces" /\ valid /\ blob \in Blobs /\ pos \in Nat /\ ifno \in Nat
      /\ UNCHANGED <<blob, valid, picked>>
  BY DEF NextInterface, ParseInv, FunctionInv, FunctionTypes
<1>2. PICK i \in GetDescriptor("interface", pos) :
          /\ pos' = i + 1
          /\ LET num == IF desc[i].num > ifno THEN desc[i].num ELSE ifno
                 name == FactoryGetDevice(i)
             IN IF desc[i].num = num /\ name \in Supported
                THEN /\ functions' = Append(functions, [name |-> name, at |-> i])
                     /\ IF Len(functions') = MaxFunctions
                        THEN phase' = "drivers" /\ ifno' = num
                        ELSE ifno' = NextNumber(num) /\ UNCHANGED phase
                ELSE ifno' = num /\ UNCHANGED <<functions, phase>>
  BY DEF NextInterface
<1>3. /\ i \in Interfaces /\ i \in Nat /\ i >= pos /\ desc[i].num \in Nat
      /\ \A j \in Interfaces : j \in Nat /\ desc[j].num \in Nat /\ (j >= pos => i <= j)
  BY <1>1, NextOf, InterfaceFacts DEF Interfaces
<1>4. \A j \in Interfaces : (j < pos' => j < pos \/ j = i) /\ (j < pos => j < pos')
  BY <1>1, <1>2, <1>3
<1>5. Interfaces' = Interfaces /\ (Ascending' <=> Ascending) /\ desc' = desc
  BY <1>1, SameBlob DEF Interfaces, Ascending
<1> DEFINE N == Len(functions)
           new == [name |-> FactoryGetDevice(i), at |-> i]
<1>6. functions \in Seq([name : Supported, at : Nat]) /\ N \in Nat
      /\ \A f \in 1 .. N : functions[f].at \in Interfaces /\ functions[f].at < pos /\ Num(f) < ifno
                           /\ Num(f) \in Nat
  <2>1. \A f \in 1 .. N : functions[f].at \in Interfaces /\ functions[f].at < pos /\ Num(f) < ifno
    BY <1>1 DEF FunctionInv, FunctionTypes, NumbersRise
  <2>2. functions \in Seq([name : Supported, at : Nat]) /\ N \in Nat
    BY DEF FunctionInv, FunctionTypes
  <2> QED BY <1>3, <2>1, <2>2 DEF Num
<1>7. \A f \in 1 .. N : \A g \in 1 .. f - 1 : Num(g) < Num(f)
  BY DEF FunctionInv, NumbersRise
<1>8. \A j \in Interfaces : j < pos /\ desc[j].name \in Supported => desc[j].num < ifno
  BY <1>1 DEF FunctionInv, FirstSettings
<1>9. blob.vendor \notin Supported =>
          \A f \in 1 .. N : \A j \in Interfaces :
             desc[j].num = Num(f) /\ desc[j].name \in Supported => functions[f].at <= j
  BY DEF FunctionInv, FirstSettings
<1>10. /\ \/ ifno = 0
          \/ \E j \in Interfaces : j < pos /\ desc[j].num = ifno
          \/ \E f \in 1 .. N : Num(f) + 1 = ifno
       /\ Ascending => \A j \in Interfaces : j < pos /\ desc[j].name \in Supported => Served(j)
  BY <1>1 DEF FunctionInv, AllServed
<1>11. desc[i].name \in Supported => FactoryGetDevice(i) \in Supported
  BY DEF FactoryGetDevice
<1>12. CASE desc[i].num >= ifno /\ FactoryGetDevice(i) \in Supported
  <2>1. /\ functions' = Append(functions, new)
        /\ \/ phase' = "drivers" /\ Len(functions') = MaxFunctions
           \/ phase' = "interfaces" /\ ifno' = desc[i].num + 1
        /\ ifno' \in Nat
    <3>1. (IF desc[i].num > ifno THEN desc[i].num ELSE ifno) = desc[i].num
      BY <1>1, <1>3, <1>12
    <3> QED BY <1>1, <1>2, <1>3, <1>12, <3>1 DEF NextNumber
  <2>2. new \in [name : Supported, at : Nat] /\ new.at = i
    BY <1>3, <1>12
  <2>3. /\ Len(functions') = N + 1 /\ functions' \in Seq([name : Supported, at : Nat])
        /\ functions'[N + 1] = new /\ \A f \in 1 .. N : functions'[f] = functions[f]
    BY <1>6, <2>1, <2>2
  <2> HIDE DEF new, N
  <2>4. \A f \in 1 .. N + 1 : f \in 1 .. N \/ f = N + 1
    BY <1>6
  <2>5. /\ \A f : f = N + 1 => Num(f)' = desc[i].num
        /\ \A f \in 1 .. N : Num(f)' = Num(f) /\ functions'[f].at = functions[f].at
    BY <1>5, <2>2, <2>3 DEF Num
  <2>6. ASSUME NEW j \in Interfaces, j < pos, desc[j].name \in Supported
        PROVE  desc[j].num < desc[i].num
    <3>1. desc[j].num < ifno /\ desc[j].num \in Nat
      BY <1>3, <1>8, <2>6
    <3> QED BY <1>1, <1>3, <1>12, <3>1
  <2>7. pos' \in Nat /\ i < pos'
    BY <1>2, <1>3
  <2>8. FunctionTypes'
    <3>1. \A f \in 1 .. Len(functions') : functions'[f].at \in Interfaces
      BY <1>3, <1>6, <2>2, <2>3, <2>4
    <3>2. phase' \notin {"header", "walk"} /\ valid'
      BY <1>1, <2>1
    <3> QED BY <1>5, <2>1, <2>3, <2>7, <3>1, <3>2 DEF FunctionTypes
  <2>9. NumbersRise'
    <3>1. ASSUME NEW f \in 1 .. Len(functions'), NEW g \in 1 .. f - 1
          PROVE  Num(g)' < Num(f)'
      <4>1. CASE f = N + 1
        <5>1. g \in 1 .. N
          BY <1>6, <4>1
        <5>2. Num(g) < ifno /\ Num(g) \in Nat /\ Num(g) < desc[i].num
          BY <1>1, <1>3, <1>6, <1>12, <5>1
        <5>3. Num(g)' = Num(g) /\ Num(f)' = desc[i].num
          BY <2>5, <4>1, <5>1
        <5> QED BY <1>1, <1>3, <1>12, <5>2, <5>3
      <4>2. CASE f \in 1 .. N
        <5>1. g \in 1 .. N
          BY <1>6, <4>2
        <5> QED BY <1>7, <2>5, <4>2, <5>1
      <4> QED BY <2>3, <2>4, <4>1, <4>2
    <3>2. ASSUME phase' = "interfaces", NEW f \in 1 .. Len(functions')
          PROVE  functions'[f].at < pos' /\ Num(f)' < ifno'
      <4>1. ifno' = desc[i].num + 1
        BY <2>1, <3>2
      <4>2. CASE f = N + 1
        BY <1>3, <2>2, <2>3, <2>5, <2>7, <4>1, <4>2
      <4>3. CASE f \in 1 .. N
        <5>1. Num(f) < ifno /\ Num(f) \in Nat /\ functions[f].at \in Nat /\ functions[f].at < pos
          BY <1>3, <1>6, <4>3
        <5>2. Num(f) < ifno' /\ functions[f].at < pos'
          BY <1>1, <1>3, <1>12, <2>7, <4>1, <5>1
        <5> QED BY <2>5, <4>3, <5>2
      <4> QED BY <2>3, <2>4, <4>2, <4>3
    <3> QED BY <3>1, <3>2 DEF NumbersRise
  <2>10. FirstSettings'
    <3>1. ASSUME blob.vendor \notin Supported, NEW f \in 1 .. Len(functions'), NEW j \in Interfaces,
                 desc[j].num = Num(f)', desc[j].name \in Supported
          PROVE  functions'[f].at <= j
      <4>1. CASE f = N + 1
        <5>1. functions'[f].at = i /\ desc[j].num = desc[i].num
          BY <2>2, <2>3, <2>5, <3>1, <4>1
        <5>2. ~(j < pos)
          BY <1>3, <2>6, <3>1, <5>1
        <5> QED BY <1>1, <1>3, <5>1, <5>2
      <4>2. CASE f \in 1 .. N
        BY <1>9, <2>5, <3>1, <4>2
      <4> QED BY <2>3, <2>4, <4>1, <4>2
    <3>2. ASSUME phase' = "interfaces", NEW j \in Interfaces, j < pos', desc[j].name \in Supported
          PROVE  desc[j].num < ifno'
      <4>1. ifno' = desc[i].num + 1
        BY <2>1, <3>2
      <4>2. desc[j].num <= desc[i].num
        <5>1. desc[i].num \in Nat /\ desc[j].num \in Nat
          BY <1>3
        <5>2. j < pos \/ j = i
          BY <1>4, <3>2
        <5>3. CASE j < pos
          <6>1. desc[j].num < desc[i].num
            BY <2>6, <3>2, <5>3
          <6> QED BY <5>1, <6>1
        <5>4. CASE j = i
          BY <5>1, <5>4
        <5> QED BY <5>2, <5>3, <5>4
      <4> QED BY <1>3, <4>1, <4>2
    <3>3. blob'.vendor \in Supported <=> blob.vendor \in Supported
      BY <1>1
    <3> QED BY <1>5, <3>1, <3>2, <3>3 DEF FirstSettings
  <2>11. AllServed'
    <3>1. N + 1 \in 1 .. Len(functions')
      BY <1>6, <2>3
    <3>2. phase' = "interfaces" => \E f \in 1 .. Len(functions') : Num(f)' + 1 = ifno'
      BY <2>1, <2>5, <3>1
    <3>3. Served(i)'
      BY <1>5, <2>5, <3>1 DEF Served
    <3>4. ASSUME NEW j \in Interfaces, Served(j)
          PROVE  Served(j)'
      <4>1. PICK f \in 1 .. N : Num(f) = desc[j].num
        BY <3>4 DEF Served, N
      <4>2. f \in 1 .. Len(functions') /\ Num(f)' = desc[j].num
        BY <1>6, <2>3, <2>5, <4>1
      <4> QED BY <1>5, <4>2 DEF Served
    <3>5. Ascending => \A j \in Interfaces : j < pos' /\ desc[j].name \in Supported => Served(j)'
      BY <1>4, <1>10, <3>3, <3>4
    <3> QED BY <1>5, <2>1, <3>2, <3>5 DEF AllServed
  <2> QED BY <2>8, <2>9, <2>10, <2>11 DEF FunctionInv
<1>13. CASE ~(desc[i].num >= ifno /\ FactoryGetDevice(i) \in Supported)
  <2>1. /\ functions' = functions /\ phase' = "interfaces"
        /\ ifno' = IF desc[i].num > ifno THEN desc[i].num ELSE ifno
    <3>1. desc[i].num = (IF desc[i].num > ifno THEN desc[i].num ELSE ifno) <=> desc[i].num >= ifno
      BY <1>1, <1>3
    <3> QED BY <1>1, <1>2, <1>13, <3>1
  <2>2. ifno' \in Nat /\ ifno' >= ifno /\ pos' \in Nat /\ pos' > pos /\ ifno' >= desc[i].num
    BY <1>1, <1>2, <1>3, <2>1
  <2>3. (\A f : Num(f)' = Num(f)) /\ (\A j : Served(j)' <=> Served(j))
    BY <1>1, <2>1, SameFunctions
  <2> HIDE DEF N
  <2>4. FunctionTypes'
    BY <1>1, <1>5, <1>6, <2>1, <2>2 DEF FunctionTypes, N
  <2>5. NumbersRise'
    <3>1. \A f \in 1 .. N : functions'[f].at < pos' /\ Num(f)' < ifno'
      <4> SUFFICES ASSUME NEW f \in 1 .. N PROVE functions'[f].at < pos' /\ Num(f)' < ifno'
        OBVIOUS
      <4>1. functions[f].at \in Nat /\ functions[f].at < pos /\ Num(f) < ifno /\ Num(f) \in Nat
        BY <1>3, <1>6
      <4> QED BY <1>1, <2>1, <2>2, <2>3, <4>1
    <3> QED BY <1>7, <2>1, <2>3, <3>1 DEF NumbersRise, N
  <2>6. desc[i].name \in Supported => desc[i].num < ifno
    BY <1>1, <1>3, <1>11, <1>13
  <2>7. FirstSettings'
    <3>1. ASSUME NEW j \in Interfaces, j < pos', desc[j].name \in Supported
          PROVE  desc[j].num < ifno'
      <4>1. desc[j].num < ifno /\ desc[j].num \in Nat
        BY <1>3, <1>4, <1>8, <2>6, <3>1
      <4> QED BY <1>1, <2>2, <4>1
    <3> QED BY <1>1, <1>5, <1>9, <2>1, <2>3, <3>1 DEF FirstSettings, N
  <2>8. AllServed'
    <3>1. \/ ifno' = 0
          \/ \E j \in Interfaces : j < pos' /\ desc[j].num = ifno'
          \/ \E f \in 1 .. N : Num(f) + 1 = ifno'
      <4>1. CASE desc[i].num > ifno
        <5>1. desc[i].num = ifno' /\ i < pos'
          BY <1>2, <1>3, <2>1, <4>1
        <5> QED BY <1>3, <5>1
      <4>2. CASE ~(desc[i].num > ifno)
        <5>1. ifno' = ifno
          BY <2>1, <4>2
        <5> QED BY <1>4, <1>10, <5>1
      <4> QED BY <4>1, <4>2
    <3>2. ASSUME Ascending, desc[i].name \in Supported
          PROVE  Served(i)
      <4>1. desc[i].num < ifno
        BY <2>6, <3>2
      <4>2. ifno # 0
        BY <1>3, <4>1
      <4>3. ASSUME NEW j \in Interfaces, j < pos
            PROVE  desc[j].num <= desc[i].num
        <5>1. j < i
          BY <1>1, <1>3, <4>3
        <5> QED BY <1>3, <3>2, <5>1 DEF Ascending, Interfaces
      <4>4. ASSUME NEW j \in Interfaces, j < pos
            PROVE  desc[j].num # ifno
        <5>1. desc[j].num \in Nat /\ desc[i].num \in Nat /\ ifno \in Nat
          BY <1>1, <1>3
        <5>2. desc[j].num <= desc[i].num
          BY <4>3, <4>4
        <5> QED BY <4>1, <5>1, <5>2
      <4>5. PICK f \in 1 .. N : Num(f) + 1 = ifno
        BY <1>10, <4>2, <4>4
      <4>6. Num(f) <= desc[i].num /\ Num(f) \in Nat
        BY <1>6, <4>3 DEF Num
      <4>7. Num(f) = desc[i].num
        BY <1>1, <1>3, <4>1, <4>5, <4>6
      <4> QED BY <4>7 DEF Served, N
    <3>3. Ascending => \A j \in Interfaces : j < pos' /\ desc[j].name \in Supported => Served(j)
      BY <1>4, <1>10, <3>2
    <3> QED BY <1>5, <2>1, <2>3, <3>1, <3>3 DEF AllServed, N
  <2> QED BY <2>4, <2>5, <2>7, <2>8 DEF FunctionInv
<1> QED BY <1>12, <1>13

(* The parser starts over, or there are no interfaces left.                *)
LEMMA PhaseKeeps ==
    ASSUME ParseInv, FunctionInv,
           CheckHeader \/ Walk \/ WalkEnds \/ NoMoreInterfaces \/ DriverPicks \/ DriversDone
    PROVE  FunctionInv'
<1>1. blob \in Blobs /\ UNCHANGED <<blob, functions, ifno>> /\ pos \in Nat /\ ifno \in Nat
      /\ pos' \in {pos, pos + 1, 1}
  BY DEF ParseInv, FunctionInv, FunctionTypes, CheckHeader, Walk, WalkEnds, NoMoreInterfaces,
         DriverPicks, DriversDone
<1>2. /\ Interfaces' = Interfaces /\ (Ascending' <=> Ascending) /\ desc' = desc
      /\ (\A f : Num(f)' = Num(f)) /\ (\A i : Served(i)' <=> Served(i))
  BY <1>1, SameFunctions, SameBlob
<1>3. functions \in Seq([name : Supported, at : Nat]) /\ pos' \in Nat
      /\ \A f \in 1 .. Len(functions) : functions[f].at \in Interfaces
  BY <1>1 DEF FunctionInv, FunctionTypes
<1>4. \A f \in 1 .. Len(functions) : \A g \in 1 .. f - 1 : Num(g) < Num(f)
  BY DEF FunctionInv, NumbersRise
<1>5. blob.vendor \notin Supported =>
          \A f \in 1 .. Len(functions) : \A i \in Interfaces :
             desc[i].num = Num(f) /\ desc[i].name \in Supported => functions[f].at <= i
  BY DEF FunctionInv, FirstSettings
<1>6. CASE CheckHeader \/ Walk
  <2>1. phase \in {"header", "walk"} /\ ~valid /\ valid' = valid /\ phase' \in {"walk", "done"}
    BY <1>6 DEF CheckHeader, Walk, ParseInv
  <2>2. functions = <<>> /\ ifno = 0
    BY <2>1 DEF FunctionInv, FunctionTypes
  <2> QED BY <1>1, <1>2, <1>3, <1>4, <1>5, <2>1, <2>2
          DEF FunctionInv, FunctionTypes, NumbersRise, FirstSettings, AllServed
<1>7. CASE WalkEnds
  <2>1. phase = "walk" /\ pos' = 1 /\ (phase' = "interfaces" \/ (phase' = "done" /\ ~valid'))
    <3>1. /\ phase = "walk" /\ pos' = 1 /\ valid' = (off = end)
          /\ phase' = IF off = end THEN "interfaces" ELSE "done"
      BY <1>7 DEF WalkEnds
    <3> QED BY <3>1, Zenon
  <2>2. functions = <<>> /\ ifno = 0
    BY <2>1 DEF FunctionInv, FunctionTypes
  <2>3. 1 .. Len(functions) = {} /\ \A i \in Interfaces : ~(i < pos')
    <3>1. \A i \in Interfaces : i \in 1 .. Len(desc)
      BY <1>1, BlobFacts DEF Interfaces, Count
    <3>2. \A i \in 1 .. Len(desc) : ~(i < 1)
      BY <1>1, BlobFacts
    <3> QED BY <2>1, <2>2, <3>1, <3>2
  <2> QED BY <1>1, <1>2, <1>3, <1>4, <1>5, <2>1, <2>2, <2>3
          DEF FunctionInv, FunctionTypes, NumbersRise, FirstSettings, AllServed
<1>8. CASE NoMoreInterfaces
  <2>1. phase = "interfaces" /\ phase' \in {"done", "drivers"} /\ valid /\ valid' = valid
        /\ GetDescriptor("interface", pos) = {}
    BY <1>8 DEF NoMoreInterfaces, ParseInv
  <2>2. \A i \in Interfaces : i < pos
    BY <1>1, <2>1, NextOf DEF Interfaces
  <2>3. Ascending => \A i \in Interfaces : desc[i].name \in Supported => Served(i)
    BY <2>1, <2>2 DEF FunctionInv, AllServed
  <2> QED BY <1>1, <1>2, <1>3, <1>4, <1>5, <2>1, <2>3
          DEF FunctionInv, FunctionTypes, NumbersRise, FirstSettings, AllServed
<1>9. CASE DriverPicks \/ DriversDone
  <2>1. phase = "drivers" /\ phase' \in {"drivers", "done", "assert"} /\ valid /\ valid' = valid
    BY <1>9 DEF DriverPicks, DriversDone, ParseInv
  <2>2. Ascending => \A i \in Interfaces :
            desc[i].name \in Supported => Len(functions) = MaxFunctions \/ Served(i)
    BY <2>1 DEF FunctionInv, AllServed
  <2> QED BY <1>1, <1>2, <1>3, <1>4, <1>5, <2>1, <2>2
          DEF FunctionInv, FunctionTypes, NumbersRise, FirstSettings, AllServed
<1> QED BY <1>6, <1>7, <1>8, <1>9

LEMMA FunctionNext == ParseInv /\ FunctionInv /\ [DescNext]_descVars => FunctionInv'
<1> SUFFICES ASSUME ParseInv, FunctionInv, [DescNext]_descVars PROVE FunctionInv'
  OBVIOUS
<1>1. CASE UNCHANGED descVars
  <2>1. UNCHANGED <<blob, phase, pos, valid, ifno, functions>>
    BY <1>1 DEF descVars
  <2>2. /\ Interfaces' = Interfaces /\ (Ascending' <=> Ascending) /\ desc' = desc
        /\ (\A f : Num(f)' = Num(f)) /\ (\A i : Served(i)' <=> Served(i))
    BY <2>1, SameFunctions, SameBlob
  <2> QED BY <2>1, <2>2 DEF FunctionInv, FunctionTypes, NumbersRise, FirstSettings, AllServed
<1> QED BY <1>1, InterfaceKeeps, PhaseKeeps DEF DescNext

LEMMA FunctionsAreRight == ParseInv /\ FunctionInv => FunctionsRight
<1> SUFFICES ASSUME ParseInv, FunctionInv PROVE FunctionsRight
  OBVIOUS
<1>1. /\ blob \in Blobs /\ functions \in Seq([name : Supported, at : Nat])
      /\ \A f \in 1 .. Len(functions) : functions[f].at \in Interfaces
  BY DEF ParseInv, FunctionInv, FunctionTypes
<1>2. DOMAIN functions = 1 .. Len(functions) /\ Len(functions) \in Nat
  BY <1>1
<1>3. ASSUME NEW f \in DOMAIN functions, NEW g \in DOMAIN functions, Num(f) = Num(g)
      PROVE  f = g
  <2>1. f \in 1 .. Len(functions) /\ g \in 1 .. Len(functions) /\ Num(f) \in Nat
    BY <1>1, <1>2, InterfaceFacts DEF Num
  <2>2. ~(f < g)
    <3>1. ASSUME f < g PROVE FALSE
      <4>1. f \in 1 .. g - 1
        BY <1>2, <2>1, <3>1
      <4>2. Num(f) < Num(g)
        BY <2>1, <4>1 DEF FunctionInv, NumbersRise
      <4> QED BY <1>3, <2>1, <4>2
    <3> QED BY <3>1
  <2>3. ~(g < f)
    <3>1. ASSUME g < f PROVE FALSE
      <4>1. g \in 1 .. f - 1
        BY <1>2, <2>1, <3>1
      <4>2. Num(g) < Num(f)
        BY <2>1, <4>1 DEF FunctionInv, NumbersRise
      <4> QED BY <1>3, <2>1, <4>2
    <3> QED BY <3>1
  <2> QED BY <1>2, <2>1, <2>2, <2>3
<1>4. blob.vendor \notin Supported =>
          \A f \in DOMAIN functions : \A i \in Count :
             desc[i].type = "interface" /\ desc[i].num = desc[functions[f].at].num
             /\ desc[i].name \in Supported => functions[f].at <= i
  BY <1>2 DEF FunctionInv, FirstSettings, Num, Interfaces
<1>5. phase = "done" /\ valid /\ Ascending =>
          \A i \in Count :
             desc[i].type = "interface" /\ desc[i].name \in Supported =>
                \/ Len(functions) = MaxFunctions
                \/ \E f \in DOMAIN functions : desc[functions[f].at].num = desc[i].num
  BY <1>2 DEF FunctionInv, AllServed, Served, Num, Interfaces
<1> QED BY <1>3, <1>4, <1>5 DEF FunctionsRight, Num

-----------------------------------------------------------------------------
(* The endpoints of an interface, and the ones that a driver takes.        *)

Own(at, t) == {i \in Count : desc[i].type = t /\ at \in Owner(i)}

(* From at on, p is behind no other interface.                             *)
Inside(at, p) == p \in Nat /\ p > at /\ \A j \in at + 1 .. p - 1 : desc[j].type # "interface"

LEMMA CountFacts ==
    ASSUME blob \in Blobs
    PROVE  /\ Len(desc) \in Nat /\ Count \in SUBSET Nat
           /\ \A i \in Count : i \in 1 .. Len(desc)
           /\ \A i \in Interfaces : i \in Count /\ i \in Nat /\ i >= 1 /\ desc[i].type = "interface"
<1>1. Len(desc) \in Nat /\ \A i \in Count : i \in 1 .. Len(desc)
  BY BlobFacts DEF Count
<1> QED BY <1>1 DEF Interfaces

(* A search that starts inside an interface stays there.                   *)
LEMMA SearchStays ==
    ASSUME blob \in Blobs, NEW at \in Interfaces, NEW p, Inside(at, p)
    PROVE  Hits("endpoint", p) \subseteq Own(at, "endpoint")
<1> SUFFICES ASSUME NEW i \in Hits("endpoint", p)
             PROVE  i \in Own(at, "endpoint")
  OBVIOUS
<1>1. /\ i \in Count /\ i >= p /\ desc[i].type = "endpoint"
      /\ \A j \in p .. i : desc[j].type # "interface"
  BY DEF Hits, Within
<1>2. /\ i \in Nat /\ at \in Nat /\ at >= 1 /\ p \in Nat /\ p > at /\ desc[at].type = "interface"
      /\ \A j \in at + 1 .. p - 1 : desc[j].type # "interface"
  BY <1>1, CountFacts DEF Inside
<1>3. at \in 1 .. i /\ \A j \in at + 1 .. i : j \in at + 1 .. p - 1 \/ j \in p .. i
  BY <1>1, <1>2
<1>4. at \in Owner(i)
  BY <1>1, <1>2, <1>3 DEF Owner
<1> QED BY <1>1, <1>4 DEF Own

(* Where a descriptor of the interface is, everything before it is too.    *)
LEMMA OwnInside ==
    ASSUME blob \in Blobs, NEW at \in Interfaces, NEW t, t # "interface", NEW k \in Own(at, t)
    PROVE  /\ k \in Count /\ k \in Nat /\ k > at /\ Inside(at, k + 1)
           /\ \A h \in Nat : h > at /\ h <= k => Inside(at, h + 1)
<1>1. /\ k \in Count /\ desc[k].type = t /\ at \in 1 .. k
      /\ \A j \in at + 1 .. k : desc[j].type # "interface"
  BY DEF Own, Owner
<1>2. k \in Nat /\ at \in Nat /\ desc[at].type = "interface"
  BY <1>1, CountFacts
<1>3. k # at
  BY <1>1, <1>2
<1>4. k > at
  BY <1>1, <1>2, <1>3
<1>5. ASSUME NEW h \in Nat, h > at, h <= k
      PROVE  Inside(at, h + 1)
  <2>1. h + 1 \in Nat /\ h + 1 > at /\ \A j \in at + 1 .. (h + 1) - 1 : j \in at + 1 .. k
    BY <1>2, <1>5
  <2> QED BY <1>1, <2>1 DEF Inside
<1> QED BY <1>1, <1>2, <1>4, <1>5

LEMMA NextInside ==
    ASSUME blob \in Blobs, NEW at \in Interfaces
    PROVE  Inside(at, at + 1)
<1>1. at \in Nat
  BY CountFacts
<1>2. at + 1 \in Nat /\ at + 1 > at /\ at + 1 .. (at + 1) - 1 = {}
  BY <1>1
<1> QED BY <1>2 DEF Inside

(* Where a driver starts to look for endpoints.                            *)
LEMMA StartsInside ==
    ASSUME blob \in Blobs, NEW f, f.at \in Interfaces,
           f.name \in {"umouse", "upad"} => Own(f.at, "hid") # {}
    PROVE  \A p \in Starts(f) : Inside(f.at, p)
<1> DEFINE at == f.at
<1>1. CASE f.name \in {"umouse", "upad"}
  <2>1. PICK k \in Own(at, "hid") : TRUE
    BY <1>1
  <2>2. /\ k \in Count /\ k \in Nat /\ k > at /\ desc[k].type = "hid"
        /\ \A h \in Nat : h > at /\ h <= k => Inside(at, h + 1)
    <3>1. desc[k].type = "hid"
      BY DEF Own
    <3> QED BY <3>1, OwnInside
  <2>3. at \in Nat /\ at + 1 \in Nat
    BY CountFacts
  <2> HIDE DEF at
  <2>4. ASSUME NEW h \in GetDescriptor("hid", at + 1)
        PROVE  Inside(at, h + 1)
    <3>1. h \in Nat /\ h >= at + 1 /\ \A j \in Count : desc[j].type = "hid" /\ j >= at + 1 => h <= j
      <4>1. "hid" # "endpoint"
        OBVIOUS
      <4>2. h \in Count /\ h >= at + 1 /\ \A j \in Count : desc[j].type = "hid" /\ j >= at + 1 => h <= j
        BY <2>3, <4>1, NextOf
      <4> QED BY <4>2, CountFacts
    <3>2. k >= at + 1 /\ h > at
      BY <2>2, <2>3, <3>1
    <3>3. h <= k
      BY <2>2, <3>1, <3>2
    <3> QED BY <2>2, <3>1, <3>2, <3>3
  <2> QED BY <1>1, <2>4 DEF Starts, HidDescriptor, at
<1>2. CASE f.name \notin {"umouse", "upad"}
  BY <1>2, NextInside DEF Starts
<1> QED BY <1>1, <1>2

LEMMA KindsOwn ==
    ASSUME blob \in Blobs, NEW f, f.at \in Interfaces,
           f.name \in {"umouse", "upad"} => Own(f.at, "hid") # {}
    PROVE  \A dir : OfKind(f, dir) \subseteq Own(f.at, "endpoint")
<1> SUFFICES ASSUME NEW dir, NEW i \in OfKind(f, dir)
             PROVE  i \in Own(f.at, "endpoint")
  OBVIOUS
<1>1. PICK p \in Starts(f) : i \in Hits("endpoint", p)
  BY DEF OfKind
<1>2. Inside(f.at, p)
  BY StartsInside
<1> QED BY <1>1, <1>2, SearchStays

LEMMA KindsCount ==
    ASSUME NEW f
    PROVE  \A dir : OfKind(f, dir) \subseteq Count
<1> SUFFICES ASSUME NEW dir, NEW i \in OfKind(f, dir)
             PROVE  i \in Count
  OBVIOUS
<1>1. PICK p \in Starts(f) : i \in Hits("endpoint", p)
  BY DEF OfKind
<1> QED BY <1>1 DEF Hits

(* A driver other than the one for MIDI takes what it has looked at.       *)
LEMMA ChosenKinds ==
    ASSUME NEW f, f.name \in Supported \ {"umidi"}, NEW G, \A dir : OfKind(f, dir) \subseteq G
    PROVE  Chosen(f) \subseteq G
<1> DEFINE all(dirs) == UNION {OfKind(f, d) : d \in dirs}
<1>1. \A dirs : all(dirs) \subseteq G
  OBVIOUS
<1>2. \A T : First(T) \subseteq T
  BY DEF First
<1> HIDE DEF all
<1>3. CASE f.name \in {"ukbd", "umouse"}
  <2>1. Chosen(f) = First(OfKind(f, "int-in"))
    BY <1>3 DEF Chosen
  <2> QED BY <1>2, <2>1
<1>4. CASE f.name = "hub"
  <2>1. Chosen(f) \subseteq OfKind(f, "int-in")
    BY <1>4 DEF Chosen
  <2> QED BY <2>1
<1>5. CASE f.name \in {"umsd", "smsc", "lan"}
  <2>1. Chosen(f) \in {all({"bulk-in", "bulk-out"}), {}}
    BY <1>5 DEF Chosen, all
  <2> QED BY <1>1, <2>1
<1>6. CASE f.name = "upad"
  <2>1. Chosen(f) \in {all({"int-in", "int-out"}), {}}
    BY <1>6 DEF Chosen, all
  <2> QED BY <1>1, <2>1
<1> QED BY <1>3, <1>4, <1>5, <1>6 DEF Supported

-----------------------------------------------------------------------------
(* The endpoints of a MIDI stream.                                         *)

Bulks(p) == First({i \in Hits("endpoint", p) : desc[i].dir = "bulk-in"})

Body(p, g) ==
    UNION {UNION {(IF c = i + 1 THEN {i} ELSE {}) \cup g[c + 1]
                    : c \in GetDescriptor("cs", i + 1)}
             : i \in Bulks(p)}

LEMMA BodyIn ==
    ASSUME NEW p, NEW g, NEW x
    PROVE  x \in Body(p, g) <=>
             \E i \in Bulks(p) : \E c \in GetDescriptor("cs", i + 1) : (c = i + 1 /\ x = i) \/ x \in g[c + 1]
BY DEF Body

(* The search goes forward.                                                *)
LEMMA BodyForward ==
    ASSUME blob \in Blobs, NEW p \in 1 .. Len(desc) + 1, NEW i \in Bulks(p)
    PROVE  /\ i \in Hits("endpoint", p) /\ i \in Count /\ i \in Nat /\ i >= p
           /\ \A c \in GetDescriptor("cs", i + 1) :
                 c \in Count /\ c \in Nat /\ c >= i + 1 /\ c + 1 \in p + 1 .. Len(desc) + 1
<1>1. i \in Hits("endpoint", p) /\ i \in Count /\ i >= p
  BY DEF Bulks, First, Hits
<1>2. i \in Nat /\ i + 1 \in Nat /\ Len(desc) \in Nat
  BY <1>1, CountFacts
<1>3. ASSUME NEW c \in GetDescriptor("cs", i + 1)
      PROVE  c \in Count /\ c \in Nat /\ c >= i + 1 /\ c + 1 \in p + 1 .. Len(desc) + 1
  <2>1. c \in Count /\ c >= i + 1
    BY <1>2, NextOf
  <2>2. c \in 1 .. Len(desc)
    BY <2>1, CountFacts
  <2> QED BY <1>1, <1>2, <2>1, <2>2
<1> QED BY <1>1, <1>2, <1>3

LEMMA BodySame ==
    ASSUME blob \in Blobs, NEW p \in 1 .. Len(desc) + 1, NEW g, NEW h,
           \A q \in p + 1 .. Len(desc) + 1 : g[q] = h[q]
    PROVE  Body(p, g) = Body(p, h)
<1>1. \A i \in Bulks(p) : \A c \in GetDescriptor("cs", i + 1) : g[c + 1] = h[c + 1]
  BY BodyForward
<1>2. \A x : x \in Body(p, g) <=> x \in Body(p, h)
  BY <1>1, BodyIn
<1> QED BY <1>2

Solves(k, g) ==
    /\ g = [p \in 1 .. Len(desc) + 1 |-> g[p]]
    /\ \A p \in k + 1 .. Len(desc) + 1 : g[p] = Body(p, g)

LEMMA StreamingExists ==
    ASSUME blob \in Blobs
    PROVE  \E g : Solves(0, g)
<1> DEFINE N == Len(desc) + 1
           S == {k \in 0 .. N : \E g : Solves(k, g)}
<1>1. N \in Nat
  BY CountFacts
<1>2. N \in S
  <2>1. N + 1 .. N = {}
    BY <1>1
  <2>2. Solves(N, [p \in 1 .. N |-> {}])
    BY <2>1 DEF Solves
  <2> QED BY <1>1, <2>2
<1>3. ASSUME NEW k \in S, k \in 1 .. N
      PROVE  k - 1 \in S
  <2>1. PICK g : Solves(k, g)
    OBVIOUS
  <2> DEFINE h == [p \in 1 .. N |-> IF p = k THEN Body(k, g) ELSE g[p]]
  <2>2. h = [p \in 1 .. N |-> h[p]]
    OBVIOUS
  <2>3. /\ h[k] = Body(k, g) /\ \A p \in 1 .. N : p # k => h[p] = g[p]
    BY <1>3
  <2> HIDE DEF h
  <2>4. ASSUME NEW p \in k .. N
        PROVE  h[p] = Body(p, h)
    <3>1. p \in 1 .. N /\ \A q \in p + 1 .. N : q \in 1 .. N /\ q # k
      BY <1>1, <1>3
    <3>2. Body(p, g) = Body(p, h)
      BY <2>3, <3>1, BodySame
    <3>3. CASE p = k
      BY <2>3, <3>2, <3>3
    <3>4. CASE p # k
      <4>1. p \in k + 1 .. N
        BY <1>1, <1>3, <3>4
      <4>2. g[p] = Body(p, g)
        BY <2>1, <4>1 DEF Solves
      <4> QED BY <2>3, <3>1, <3>2, <3>4, <4>2
    <3> QED BY <3>3, <3>4
  <2>5. (k - 1) + 1 = k /\ k - 1 \in 0 .. N
    BY <1>1, <1>3
  <2>6. Solves(k - 1, h)
    BY <2>2, <2>4, <2>5 DEF Solves
  <2> QED BY <2>5, <2>6
<1> HIDE DEF S
<1>4. \A k \in 0 .. N : k \in S
  BY <1>1, <1>2, <1>3, Downwards
<1>5. 0 \in S
  BY <1>1, <1>4
<1> QED BY <1>5 DEF S

LEMMA StreamingIs ==
    ASSUME blob \in Blobs
    PROVE  \A p \in 1 .. Len(desc) + 1 : Streaming[p] = Body(p, Streaming)
<1>1. PICK g : Solves(0, g)
  BY StreamingExists
<1>2. g = [p \in 1 .. Len(desc) + 1 |-> Body(p, g)]
  <2>1. g = [p \in 1 .. Len(desc) + 1 |-> g[p]] /\ \A p \in 1 .. Len(desc) + 1 : g[p] = Body(p, g)
    BY <1>1 DEF Solves
  <2> QED BY <2>1
<1>3. Streaming = [p \in 1 .. Len(desc) + 1 |-> Body(p, Streaming)]
  BY <1>2 DEF Streaming, Body, Bulks
<1> HIDE DEF Streaming
<1> QED BY <1>3

LEMMA StreamingCount ==
    ASSUME blob \in Blobs
    PROVE  \A p \in 1 .. Len(desc) + 1 : Streaming[p] \subseteq Count
<1> DEFINE N == Len(desc) + 1
           S == {k \in 0 .. N : \A p \in k + 1 .. N : Streaming[p] \subseteq Count}
<1>1. N \in Nat
  BY CountFacts
<1>2. N \in S
  <2>1. N + 1 .. N = {} /\ N \in 0 .. N
    BY <1>1
  <2> QED BY <2>1
<1>3. ASSUME NEW k \in S, k \in 1 .. N
      PROVE  k - 1 \in S
  <2>1. Streaming[k] \subseteq Count
    <3> SUFFICES ASSUME NEW x \in Streaming[k] PROVE x \in Count
      OBVIOUS
    <3>1. x \in Body(k, Streaming)
      BY <1>3, StreamingIs
    <3>2. PICK i \in Bulks(k) : \E c \in GetDescriptor("cs", i + 1) :
              (c = i + 1 /\ x = i) \/ x \in Streaming[c + 1]
      BY <3>1, BodyIn
    <3>3. PICK c \in GetDescriptor("cs", i + 1) : (c = i + 1 /\ x = i) \/ x \in Streaming[c + 1]
      BY <3>2
    <3>4. i \in Count /\ c + 1 \in k + 1 .. N
      BY <1>3, BodyForward
    <3>5. Streaming[c + 1] \subseteq Count
      BY <3>4
    <3> QED BY <3>3, <3>4, <3>5
  <2>2. (k - 1) + 1 = k /\ k - 1 \in 0 .. N /\ \A p \in k .. N : p = k \/ p \in k + 1 .. N
    BY <1>1, <1>3
  <2>3. \A p \in k .. N : Streaming[p] \subseteq Count
    BY <2>1, <2>2
  <2> QED BY <2>2, <2>3
<1> HIDE DEF S
<1>4. 0 \in S
  BY <1>1, <1>2, <1>3, Downwards
<1>5. 0 + 1 = 1
  OBVIOUS
<1> QED BY <1>4, <1>5 DEF S

(* Every endpoint of the interface has its class-specific descriptor at    *)
(* once behind it: the search does not leave the interface.                *)
LEMMA StreamingOwn ==
    ASSUME blob \in Blobs, NEW at \in Interfaces,
           \A i \in Own(at, "endpoint") : i + 1 \in Own(at, "cs")
    PROVE  \A p \in 1 .. Len(desc) + 1 : Inside(at, p) => Streaming[p] \subseteq Own(at, "endpoint")
<1> DEFINE N == Len(desc) + 1
           Fits(p) == Inside(at, p) => Streaming[p] \subseteq Own(at, "endpoint")
           S == {k \in 0 .. N : \A p \in k + 1 .. N : Fits(p)}
<1>1. N \in Nat
  BY CountFacts
<1>2. N \in S
  <2>1. N + 1 .. N = {} /\ N \in 0 .. N
    BY <1>1
  <2> QED BY <2>1
<1>3. ASSUME NEW k \in S, k \in 1 .. N
      PROVE  k - 1 \in S
  <2>1. Fits(k)
    <3> SUFFICES ASSUME Inside(at, k), NEW x \in Streaming[k] PROVE x \in Own(at, "endpoint")
      OBVIOUS
    <3>1. x \in Body(k, Streaming)
      BY <1>3, StreamingIs
    <3>2. PICK i \in Bulks(k) : \E c \in GetDescriptor("cs", i + 1) :
              (c = i + 1 /\ x = i) \/ x \in Streaming[c + 1]
      BY <3>1, BodyIn
    <3>3. PICK c \in GetDescriptor("cs", i + 1) : (c = i + 1 /\ x = i) \/ x \in Streaming[c + 1]
      BY <3>2
    <3>4. i \in Hits("endpoint", k) /\ i \in Nat /\ c \in Count /\ c \in Nat /\ c >= i + 1
          /\ c + 1 \in k + 1 .. N
      BY <1>3, BodyForward
    <3>5. i \in Own(at, "endpoint") /\ i + 1 \in Own(at, "cs")
      BY <3>4, SearchStays
    <3>6. c = i + 1
      <4>1. "cs" # "endpoint" /\ i + 1 \in Nat
        BY <3>4
      <4>2. \A j \in Count : desc[j].type = "cs" /\ j >= i + 1 => c <= j
        BY <4>1, NextOf
      <4>3. i + 1 \in Count /\ desc[i + 1].type = "cs"
        BY <3>5 DEF Own
      <4>4. i + 1 >= i + 1
        BY <4>1
      <4>5. c <= i + 1
        BY <4>2, <4>3, <4>4
      <4> QED BY <3>4, <4>1, <4>5
    <3>7. Inside(at, c + 1)
      <4>1. "cs" # "interface"
        OBVIOUS
      <4> QED BY <3>5, <3>6, <4>1, OwnInside
    <3>8. Fits(c + 1)
      BY <3>4
    <3>9. Streaming[c + 1] \subseteq Own(at, "endpoint")
      BY <3>7, <3>8
    <3> QED BY <3>3, <3>5, <3>9
  <2> HIDE DEF Fits
  <2>2. (k - 1) + 1 = k /\ k - 1 \in 0 .. N /\ \A p \in k .. N : p = k \/ p \in k + 1 .. N
    BY <1>1, <1>3
  <2>3. \A p \in k .. N : Fits(p)
    BY <2>1, <2>2
  <2> QED BY <2>2, <2>3
<1> HIDE DEF S
<1>4. 0 \in S
  BY <1>1, <1>2, <1>3, Downwards
<1>5. 0 + 1 = 1
  OBVIOUS
<1> QED BY <1>4, <1>5 DEF S

-----------------------------------------------------------------------------
(* What the drivers have taken so far.                                     *)

PickInv ==
    /\ picked \in Seq(SUBSET Nat) /\ Len(picked) <= Len(functions)
    /\ phase \in {"header", "walk", "interfaces"} => picked = <<>>
    /\ PicksOwn

(* What the driver of a function takes.                                    *)
LEMMA ChosenOwn ==
    ASSUME blob \in Blobs, NEW f, f.name \in Supported, f.at \in Interfaces
    PROVE  /\ Chosen(f) \in SUBSET Nat
           /\ \/ f.name \in {"umouse", "upad"} /\ Own(f.at, "hid") = {}
              \/ f.name = "umidi" /\ \E i \in Own(f.at, "endpoint") : i + 1 \notin Own(f.at, "cs")
              \/ Chosen(f) \subseteq Own(f.at, "endpoint")
<1>1. CASE f.name # "umidi"
  <2>1. Chosen(f) \subseteq Count
    BY <1>1, KindsCount, ChosenKinds
  <2>2. Chosen(f) \in SUBSET Nat
    BY <2>1, CountFacts
  <2>3. ASSUME f.name \in {"umouse", "upad"} => Own(f.at, "hid") # {}
        PROVE  Chosen(f) \subseteq Own(f.at, "endpoint")
    BY <1>1, <2>3, KindsOwn, ChosenKinds
  <2> QED BY <2>2, <2>3
<1>2. CASE f.name = "umidi"
  <2>1. Chosen(f) = Streaming[f.at + 1]
    BY <1>2 DEF Chosen
  <2>2. f.at + 1 \in 1 .. Len(desc) + 1
    <3>1. f.at \in 1 .. Len(desc) /\ Len(desc) \in Nat
      BY CountFacts
    <3> QED BY <3>1
  <2>3. Chosen(f) \in SUBSET Nat
    BY <2>1, <2>2, StreamingCount, CountFacts
  <2>4. ASSUME \A i \in Own(f.at, "endpoint") : i + 1 \in Own(f.at, "cs")
        PROVE  Chosen(f) \subseteq Own(f.at, "endpoint")
    BY <2>1, <2>2, <2>4, NextInside, StreamingOwn
  <2> QED BY <1>2, <2>3, <2>4
<1> QED BY <1>1, <1>2

(* PicksOwn, one driver at a time.                                         *)
TakesOwn(f, eps) ==
    \/ f.name \in {"umouse", "upad"} /\ Own(f.at, "hid") = {}
    \/ f.name = "umidi" /\ \E i \in Own(f.at, "endpoint") : i + 1 \notin Own(f.at, "cs")
    \/ eps \subseteq Own(f.at, "endpoint")

LEMMA PicksOwnIs == PicksOwn <=> \A f \in DOMAIN picked : TakesOwn(functions[f], picked[f])
BY DEF PicksOwn, TakesOwn, Own

LEMMA SameOwn ==
    ASSUME blob' = blob
    PROVE  \A f, eps : TakesOwn(f, eps)' <=> TakesOwn(f, eps)
<1>1. \A i : Owner(i)' = Owner(i)
  BY SameBlob DEF Owner
<1>2. \A at, t : Own(at, t)' = Own(at, t)
  BY <1>1, SameBlob DEF Own
<1> QED BY <1>2 DEF TakesOwn

LEMMA PickInit == DescInit => PickInv
<1> SUFFICES ASSUME DescInit PROVE PickInv
  OBVIOUS
<1>1. picked = <<>> /\ functions = <<>>
  BY DEF DescInit
<1>2. picked \in Seq(SUBSET Nat) /\ Len(picked) <= Len(functions) /\ DOMAIN picked = {}
  BY <1>1
<1> QED BY <1>1, <1>2, PicksOwnIs DEF PickInv

LEMMA PickNext == ParseInv /\ FunctionInv /\ PickInv /\ [DescNext]_descVars => PickInv'
<1> SUFFICES ASSUME ParseInv, FunctionInv, PickInv, [DescNext]_descVars PROVE PickInv'
  OBVIOUS
<1>1. /\ blob \in Blobs /\ picked \in Seq(SUBSET Nat) /\ Len(picked) <= Len(functions)
      /\ functions \in Seq([name : Supported, at : Nat])
      /\ \A f \in 1 .. Len(functions) : functions[f].at \in Interfaces
      /\ \A f \in DOMAIN picked : TakesOwn(functions[f], picked[f])
  BY PicksOwnIs DEF ParseInv, FunctionInv, FunctionTypes, PickInv
<1>2. Len(picked) \in Nat /\ Len(functions) \in Nat /\ DOMAIN picked = 1 .. Len(picked)
  BY <1>1
<1>3. ASSUME UNCHANGED <<blob, functions, picked>>
      PROVE  PicksOwn'
  <2>1. \A g, e : TakesOwn(g, e)' <=> TakesOwn(g, e)
    BY <1>3, SameOwn
  <2> QED BY <1>1, <1>3, <2>1, SameBlob DEF PicksOwn, TakesOwn, Own, Owner
<1>4. CASE CheckHeader \/ Walk \/ WalkEnds \/ NoMoreInterfaces \/ DriversDone \/ UNCHANGED descVars
  <2>1. UNCHANGED <<blob, functions, picked>>
        /\ (phase' \in {"header", "walk", "interfaces"} => phase \in {"header", "walk", "interfaces"})
    BY <1>4 DEF CheckHeader, Walk, WalkEnds, NoMoreInterfaces, DriversDone, descVars
  <2> QED BY <1>1, <1>3, <2>1 DEF PickInv
<1>5. CASE NextInterface
  <2>1. phase = "interfaces" /\ picked' = picked /\ picked = <<>>
    BY <1>5 DEF NextInterface, PickInv
  <2>2. functions' \in Seq([name : Supported, at : Nat])
    BY <1>5, InterfaceKeeps DEF FunctionInv, FunctionTypes
  <2>3. Len(picked') <= Len(functions') /\ DOMAIN picked' = {} /\ picked' \in Seq(SUBSET Nat)
    BY <2>1, <2>2
  <2> QED BY <2>1, <2>3 DEF PickInv, PicksOwn
<1>6. CASE DriverPicks
  <2> DEFINE n == Len(picked) + 1
             f == functions[n]
             eps == IF EndpointsFit(f.name, desc[f.at].num_eps) THEN Chosen(f) ELSE {}
  <2>1. /\ phase = "drivers" /\ Len(picked) < Len(functions) /\ UNCHANGED <<blob, functions>>
        /\ \/ phase' = "assert" /\ picked' = picked
           \/ picked' = Append(picked, eps) /\ phase' = phase
    BY <1>6 DEF DriverPicks
  <2>2. CASE phase' = "assert" /\ picked' = picked
    BY <1>1, <1>3, <2>1, <2>2 DEF PickInv
  <2>3. CASE picked' = Append(picked, eps) /\ phase' = phase
    <3>1. n \in 1 .. Len(functions)
      BY <1>2, <2>1
    <3>2. f \in [name : Supported, at : Nat] /\ f.at \in Interfaces
      <4>1. \A g \in 1 .. Len(functions) : functions[g] \in [name : Supported, at : Nat]
        BY <1>1, ElementOfSeq, Zenon
      <4> HIDE DEF n
      <4> QED BY <1>1, <3>1, <4>1
    <3> HIDE DEF f
    <3>3. f.name \in Supported
      BY <3>2
    <3>4. eps \in SUBSET Nat /\ TakesOwn(f, eps)
      <4>1. Chosen(f) \in SUBSET Nat /\ TakesOwn(f, Chosen(f))
        BY <1>1, <3>2, <3>3, ChosenOwn DEF TakesOwn
      <4>2. {} \in SUBSET Nat /\ TakesOwn(f, {})
        BY DEF TakesOwn
      <4> QED BY <4>1, <4>2
    <3> HIDE DEF eps, n
    <3>5. n = Len(picked) + 1
      BY DEF n
    <3>6. /\ picked' \in Seq(SUBSET Nat) /\ Len(picked') = n /\ picked'[n] = eps
          /\ \A g \in 1 .. Len(picked) : picked'[g] = picked[g]
      BY <1>1, <2>3, <3>4, <3>5
    <3>7. DOMAIN picked' = 1 .. n /\ \A g \in 1 .. n : g = n \/ g \in 1 .. Len(picked)
      BY <1>2, <3>5, <3>6
    <3>8. \A g \in DOMAIN picked' : TakesOwn(functions[g], picked'[g])
      <4>1. TakesOwn(functions[n], picked'[n])
        BY <3>4, <3>6 DEF f
      <4> QED BY <1>1, <1>2, <3>6, <3>7, <4>1
    <3>9. PicksOwn'
      <4>1. \A g, e : TakesOwn(g, e)' <=> TakesOwn(g, e)
        BY <2>1, SameOwn
      <4> QED BY <2>1, <3>8, <4>1, SameBlob DEF PicksOwn, TakesOwn, Own, Owner
    <3>10. Len(picked') <= Len(functions')
      BY <1>2, <2>1, <3>5, <3>6
    <3> QED BY <2>1, <2>3, <3>6, <3>9, <3>10 DEF PickInv
  <2> QED BY <2>1, <2>2, <2>3
<1> QED BY <1>4, <1>5, <1>6 DEF DescNext

(* USBDeviceInitialize gives every interface number at most one function,  *)
(* the first alternate setting that has a driver, and leaves none out when *)
(* the numbers ascend; and a driver takes endpoints of its own interface   *)
(* only, when that has what the driver looks for first.  For any           *)
(* descriptors and any number of functions.                                *)
THEOREM DriversTheorem == DescSpec => []DriversMatch
<1> DEFINE Inv == ParseInv /\ FunctionInv /\ PickInv
<1>1. DescInit => Inv
  BY ParseInit, FunctionInit, PickInit
<1>2. Inv /\ [DescNext]_descVars => Inv'
  BY ParseNext, FunctionNext, PickNext
<1>3. Inv => DriversMatch
  BY FunctionsAreRight DEF PickInv, DriversMatch
<1> QED BY <1>1, <1>2, <1>3, PTL DEF DescSpec

-----------------------------------------------------------------------------
(* What a request is doing, packet by packet.                              *)

Pids == {"setup", "data0", "data1"}
DataPids == {"data0", "data1"}
ChannelBits == {"halted", "xfer", "err", "nak", "nyet", "ack"}

ReqType == [in : BOOLEAN, len : Nat, first : Int, status : {0, 1}, result : Int, n : Int]
StageType ==
    [in : BOOLEAN, status : BOOLEAN, size : Nat, total : Int, packets : Int, bytesPer : Int,
     packetsPer : Int, state : {"none", "nosplit", "start", "complete", "delay"}]
ChanType ==
    [bytes : Int, packets : Int, pid : Pids, addr : Int, frame : Int, int : SUBSET ChannelBits]
PeerType ==
    [tog : DataPids, next : Int, pkt : Int, open : {"no", "data", "status"}, bad : BOOLEAN, hub : Int,
     setup : BOOLEAN]
SchedType ==
    [state : {"unknown", "start", "started", "completing", "retry", "done", "failed"},
     tries : Int, next : Int]

PktTypes ==
    /\ type \in {"control", "bulk", "interrupt"} /\ split \in BOOLEAN
    /\ type = "control" => MaxPacket >= SetupSize
    /\ pid \in Pids /\ req \in ReqType /\ st \in StageType /\ chan \in ChanType /\ peer \in PeerType
    /\ sched \in SchedType
    /\ pc \in {"idle", "stage", "start", "run", "delay"}
    /\ mark \in Int /\ lost \in BOOLEAN

(* The stages of a request.  Setting: the setup stage of a control one.    *)
StageOf(in, status) == [in |-> in, status |-> status]
StatusStage == StageOf(~req.in, TRUE)
AfterSetup == IF req.len = 0 THEN <<StatusStage>> ELSE <<StageOf(req.in, FALSE), StatusStage>>
AllStages == IF req.len = 0 THEN <<StageOf(FALSE, FALSE), StatusStage>>
             ELSE <<StageOf(FALSE, FALSE), StageOf(req.in, FALSE), StatusStage>>
Busy == pc \in {"start", "run", "delay"}
Setting == type = "control" /\ pid = "setup"

PktShape ==
    /\ type # "control" => pid \in DataPids
    /\ type = "interrupt" => req.in
    /\ pc # "idle" => /\ req.in \/ type # "control" => req.len > 0
                      /\ type = "interrupt" => req.len <= MaxPacket
    /\ type = "control" /\ lost => pc = "idle"
    /\ type = "control" /\ ~lost /\ pc = "idle" => pid = "setup"
    /\ pc = "stage" =>
        \/ type # "control" /\ stages = <<StageOf(req.in, FALSE)>>
        \/ Setting /\ stages = AllStages
        \/ type = "control" /\ pid = "data1" /\ stages = AfterSetup
        \/ type = "control" /\ pid \in DataPids /\ req.len > 0 /\ stages = <<StatusStage>>
    /\ Busy =>
        \/ type # "control" /\ stages = <<>> /\ ~st.status /\ st.in = req.in /\ st.size = req.len
        \/ Setting /\ ~st.status /\ ~st.in /\ st.size = SetupSize /\ stages = AfterSetup
        \/ /\ type = "control" /\ pid \in DataPids /\ ~st.status /\ st.in = req.in
           /\ st.size = req.len /\ req.len > 0 /\ stages = <<StatusStage>>
        \/ type = "control" /\ st.status /\ st.size = 0 /\ stages = <<>>

LEMMA Tuples ==
    ASSUME NEW a, NEW b, NEW c
    PROVE  /\ Head(<<a>>) = a /\ Tail(<<a>>) = <<>> /\ <<a>> # <<>>
           /\ Head(<<a, b>>) = a /\ Tail(<<a, b>>) = <<b>> /\ <<a, b>> # <<>>
           /\ Head(<<a, b, c>>) = a /\ Tail(<<a, b, c>>) = <<b, c>>
<1>1. Head(<<a>>) = a /\ <<a>> # <<>> /\ Head(<<a, b>>) = a /\ <<a, b>> # <<>> /\ Head(<<a, b, c>>) = a
  OBVIOUS
<1>2. Tail(<<a>>) = <<>>
  OBVIOUS
<1>3. Tail(<<a, b>>) = <<b>>
  OBVIOUS
<1>4. Tail(<<a, b, c>>) = <<b, c>>
  OBVIOUS
<1> QED BY <1>1, <1>2, <1>3, <1>4

LEMMA TypeFields ==
    ASSUME PktTypes
    PROVE  /\ MaxPacket \in Nat \ {0}
           /\ req.in \in BOOLEAN /\ req.len \in Nat /\ req.first \in Int /\ req.result \in Int /\ req.n \in Int
           /\ st.in \in BOOLEAN /\ st.status \in BOOLEAN /\ st.size \in Nat /\ st.total \in Int
           /\ st.packets \in Int /\ st.bytesPer \in Int /\ st.packetsPer \in Int
           /\ chan.bytes \in Int /\ chan.packets \in Int /\ chan.pid \in Pids /\ chan.addr \in Int
           /\ chan.frame \in Int /\ chan.int \in SUBSET ChannelBits
           /\ peer.tog \in DataPids /\ peer.next \in Int /\ peer.pkt \in Int /\ peer.hub \in Int
           /\ sched.tries \in Int /\ sched.next \in Int
BY PacketConstants DEF PktTypes, ReqType, StageType, ChanType, PeerType, SchedType

LEMMA Smallest ==
    ASSUME NEW a \in Int, NEW b \in Int
    PROVE  Smaller(a, b) \in Int /\ Smaller(a, b) <= a /\ Smaller(a, b) <= b /\ Smaller(a, b) \in {a, b}
BY DEF Smaller

LEMMA Flips ==
    /\ \A p : Flip(p) \in DataPids
    /\ \A p \in DataPids : Flip(Flip(p)) = p /\ Flip(p) # p
    /\ \A p, q \in DataPids : p # q => p = Flip(q)
BY DEF Flip, DataPids

LEMMA MovedInts ==
    ASSUME PktTypes
    PROVE  PacketsMoved \in Int /\ BytesMoved \in Int
<1>1. PacketsMoved \in Int /\ MaxPacket * PacketsMoved \in Int
  BY TypeFields DEF PacketsMoved
<1> QED BY <1>1, TypeFields DEF BytesMoved

(* DWHCITransferStageDataTransactionComplete changes the counts only.      *)
LEMMA CompleteFields ==
    ASSUME PktTypes, NEW t, t = TransactionComplete
    PROVE  /\ t \in StageType
           /\ t.in = st.in /\ t.status = st.status /\ t.size = st.size /\ t.packetsPer = st.packetsPer
           /\ t.state = st.state
           /\ Refused(chan) => t = st
           /\ ~Refused(chan) =>
                 /\ t.total = st.total + BytesMoved /\ t.packets = st.packets - PacketsMoved
                 /\ t.bytesPer = IF t.total <= st.size THEN Smaller(st.bytesPer, st.size - t.total)
                                 ELSE st.bytesPer
<1>1. CASE Refused(chan)
  BY <1>1 DEF TransactionComplete, PktTypes
<1>2. CASE ~Refused(chan)
  <2> DEFINE total == st.total + BytesMoved
             per == IF total <= st.size THEN Smaller(st.bytesPer, st.size - total) ELSE st.bytesPer
             left == st.packets - PacketsMoved
  <2>1. total \in Int /\ left \in Int
    BY MovedInts, TypeFields
  <2>2. per \in Int
    <3>1. st.size - total \in Int /\ st.bytesPer \in Int
      BY <2>1, TypeFields
    <3> HIDE DEF total
    <3> QED BY <3>1, Smallest
  <2>3. t = [st EXCEPT !.total = total, !.packets = left, !.bytesPer = per]
    BY <1>2 DEF TransactionComplete
  <2>4. st \in StageType
    BY DEF PktTypes
  <2> HIDE DEF total, per, left
  <2>5. /\ t \in StageType /\ t.in = st.in /\ t.status = st.status /\ t.size = st.size
        /\ t.packetsPer = st.packetsPer /\ t.state = st.state
        /\ t.total = total /\ t.packets = left /\ t.bytesPer = per
    BY <2>1, <2>2, <2>3, <2>4 DEF StageType
  <2> QED BY <1>2, <2>5 DEF total, per, left
<1> QED BY <1>1, <1>2

LEMMA SkipType ==
    ASSUME PktTypes
    PROVE  PIDAfter \in Pids
BY TypeFields DEF PIDAfter, SkipPID, PktTypes, Flip, Pids

-----------------------------------------------------------------------------
(* Types.                                                                  *)

Ceil(n) == (n + MaxPacket - 1) \div MaxPacket

(* The number of packets for n bytes.                                      *)
LEMMA CeilFacts ==
    /\ \A n \in Nat : Ceil(n) \in Nat
    /\ Ceil(0) = 0
    /\ \A n \in Nat : n > 0 => Ceil(n) >= 1
    /\ \A n \in Nat : n > 0 /\ n <= MaxPacket => Ceil(n) = 1
    /\ \A n \in Nat : n >= MaxPacket => Ceil(n) = Ceil(n - MaxPacket) + 1
    /\ \A n \in Nat : n > MaxPacket => Ceil(n) > 1
<1>1. MaxPacket \in Nat \ {0}
  BY PacketConstants
<1>2. \A n \in Nat : Ceil(n) \in Nat
  BY <1>1 DEF Ceil
<1>3. Ceil(0) = 0
  BY <1>1 DEF Ceil
<1>4. ASSUME NEW n \in Nat, n >= MaxPacket
      PROVE  Ceil(n) = Ceil(n - MaxPacket) + 1
  <2>1. n + MaxPacket - 1 = (n - MaxPacket + MaxPacket - 1) + MaxPacket /\ n - MaxPacket + MaxPacket - 1 \in Nat
    BY <1>1, <1>4
  <2>2. \A m \in Nat : (m + MaxPacket) \div MaxPacket = (m \div MaxPacket) + 1
    BY <1>1
  <2> QED BY <2>1, <2>2 DEF Ceil
<1>5. ASSUME NEW n \in Nat, n > 0, n <= MaxPacket
      PROVE  Ceil(n) = 1
  <2>1. n + MaxPacket - 1 = (n - 1) + MaxPacket /\ n - 1 \in Nat /\ n - 1 < MaxPacket
    BY <1>1, <1>5
  <2>2. \A m \in Nat : (m + MaxPacket) \div MaxPacket = (m \div MaxPacket) + 1
    BY <1>1
  <2>3. (n - 1) \div MaxPacket = 0
    BY <1>1, <2>1
  <2> QED BY <2>1, <2>2, <2>3 DEF Ceil
<1>6. ASSUME NEW n \in Nat, n > 0
      PROVE  Ceil(n) >= 1 /\ (n > MaxPacket => Ceil(n) > 1)
  <2>1. CASE n <= MaxPacket
    BY <1>1, <1>5, <1>6, <2>1
  <2>2. CASE n > MaxPacket
    <3>1. n - MaxPacket \in Nat /\ n - MaxPacket > 0 /\ n - MaxPacket + MaxPacket - 1 \in Nat
          /\ n - MaxPacket + MaxPacket - 1 >= MaxPacket
      BY <1>1, <2>2
    <3>2. \A m \in Nat : m >= MaxPacket => m \div MaxPacket >= 1
      BY <1>1
    <3>3. Ceil(n - MaxPacket) >= 1 /\ Ceil(n - MaxPacket) \in Nat
      BY <1>2, <3>1, <3>2 DEF Ceil
    <3>4. Ceil(n) = Ceil(n - MaxPacket) + 1
      BY <1>1, <1>4, <2>2
    <3> QED BY <3>3, <3>4
  <2> QED BY <1>1, <2>1, <2>2
<1>7. ASSUME NEW n \in Nat, n > MaxPacket
      PROVE  Ceil(n) > 1
  <2>1. n > 0
    BY <1>1, <1>7
  <2> QED BY <1>6, <1>7, <2>1
<1> QED BY <1>2, <1>3, <1>4, <1>5, <1>6, <1>7

(* DWHCITransferStageData.                                                 *)
LEMMA NewStageFields ==
    ASSUME PktTypes, NEW s, s.in \in BOOLEAN, s.status \in BOOLEAN, NEW t, t = NewStage(s)
    PROVE  /\ t \in StageType /\ t.in = s.in /\ t.status = s.status
           /\ t.size = IF s.status THEN 0 ELSE IF pid = "setup" THEN SetupSize ELSE req.len
           /\ t.total = 0
           /\ t.packets = IF s.status THEN 1 ELSE Ceil(t.size)
           /\ t.bytesPer = IF split THEN Smaller(t.size, MaxPacket) ELSE t.size
           /\ t.packetsPer = IF split THEN 1 ELSE t.packets
           /\ t.state = IF split THEN "start" ELSE "nosplit"
<1> DEFINE size == IF s.status THEN 0 ELSE IF pid = "setup" THEN SetupSize ELSE req.len
           packets == IF s.status THEN 1 ELSE Ceil(size)
           per == IF split THEN Smaller(size, MaxPacket) ELSE size
           pper == IF split THEN 1 ELSE packets
           state == IF split THEN "start" ELSE "nosplit"
<1>1. t = [in |-> s.in, status |-> s.status, size |-> size, total |-> 0, packets |-> packets,
           bytesPer |-> per, packetsPer |-> pper, state |-> state]
  BY DEF NewStage, Ceil
<1>2. size \in Nat
  BY TypeFields DEF SetupSize
<1> HIDE DEF size
<1>3. packets \in Int
  BY <1>2, CeilFacts
<1>4. per \in Int
  BY <1>2, TypeFields, Smallest
<1>5. pper \in Int /\ state \in {"start", "nosplit"}
  BY <1>3
<1> HIDE DEF packets, per, pper, state
<1>6. /\ t \in StageType /\ t.in = s.in /\ t.status = s.status /\ t.size = size /\ t.total = 0
      /\ t.packets = packets /\ t.bytesPer = per /\ t.packetsPer = pper /\ t.state = state
  BY <1>1, <1>2, <1>3, <1>4, <1>5 DEF StageType
<1> QED BY <1>6 DEF size, packets, per, pper, state

LEMMA HeadStage ==
    ASSUME PktTypes, PktShape, pc = "stage"
    PROVE  Head(stages).in \in BOOLEAN /\ Head(stages).status \in BOOLEAN
<1>1. \E i, s \in BOOLEAN : Head(stages) = StageOf(i, s)
  <2>1. req.in \in BOOLEAN /\ (~req.in) \in BOOLEAN
    BY TypeFields, Zenon
  <2>2. \/ stages = <<StageOf(req.in, FALSE)>> \/ stages = AllStages \/ stages = AfterSetup
        \/ stages = <<StatusStage>>
    BY DEF PktShape
  <2>3. Head(stages) \in {StageOf(req.in, FALSE), StageOf(FALSE, FALSE), StatusStage}
    <3>1. Head(AllStages) = StageOf(FALSE, FALSE)
      BY Tuples DEF AllStages
    <3>2. Head(AfterSetup) \in {StageOf(req.in, FALSE), StatusStage}
      BY Tuples DEF AfterSetup
    <3> QED BY <2>2, <3>1, <3>2, Tuples
  <2> QED BY <2>1, <2>3 DEF StatusStage
<1> QED BY <1>1 DEF StageOf

LEMMA SchedTypes ==
    ASSUME PktTypes, NEW int
    PROVE  /\ NoSched \in SchedType /\ StartSplit(NoSched) \in SchedType
           /\ StartSplit(sched) \in SchedType
           /\ CompleteSplit(SchedAnswer(sched, int)) \in SchedType
           /\ StartSplit(CompleteSplit(SchedAnswer(sched, int))) \in SchedType
           /\ \A f \in Int : [sched EXCEPT !.next = f] \in SchedType
<1>1. sched \in SchedType
  BY DEF PktTypes
<1>2. NoSched \in SchedType
  BY DEF NoSched, SchedType, Unset
<1> DEFINE States == {"unknown", "start", "started", "completing", "retry", "done", "failed"}
<1> HIDE DEF States
<1>3. SchedType = [state : States, tries : Int, next : Int]
  BY DEF SchedType, States
<1>4. ASSUME NEW s \in SchedType, NEW x \in States, NEW y \in Int
       PROVE  /\ [s EXCEPT !.state = x, !.tries = y] \in SchedType
              /\ [s EXCEPT !.state = x, !.next = y] \in SchedType
              /\ [s EXCEPT !.state = x] \in SchedType
              /\ [s EXCEPT !.next = y] \in SchedType
              /\ s.tries \in Int /\ s.next \in Int
  BY <1>3
<1>5. {"start", "retry", "failed", "completing", "started", "done"} \subseteq States
  BY DEF States
<1>6. ASSUME NEW s \in SchedType
      PROVE  StartSplit(s) \in SchedType /\ Retried(s) \in SchedType
  <2>1. s.tries - 1 \in Int /\ Unset \in Int
    BY <1>3 DEF Unset
  <2> QED BY <1>4, <1>5, <2>1 DEF StartSplit, Retried
<1>7. \A s \in SchedType : \A x \in {"started", "done", "failed"} : [s EXCEPT !.state = x] \in SchedType
  BY DEF SchedType
<1>8. \A s \in SchedType : SchedAnswer(s, int) \in SchedType
  BY <1>6, <1>7 DEF SchedAnswer, PeriodicAnswer, NonPeriodicAnswer
<1>9. \A s \in SchedType : CompleteSplit(s) \in SchedType
  <2> SUFFICES ASSUME NEW s \in SchedType PROVE CompleteSplit(s) \in SchedType
    OBVIOUS
  <2>1. s.next \in Int /\ (s.next + 2) % 8 \in Int /\ (s.next + 1) % 8 \in Int
    BY DEF SchedType
  <2>2. \A x \in Int : [s EXCEPT !.next = x] \in SchedType
    BY <1>4, <1>5
  <2>3. \A x, y \in Int : [state |-> "completing", tries |-> x, next |-> y] \in SchedType
    BY DEF SchedType
  <2>4. [s EXCEPT !.state = "completing", !.tries = 3] \in SchedType
    <3>1. 3 \in Int
      OBVIOUS
    <3> QED BY <1>4, <1>5, <3>1
  <2>5. PeriodicCompleteSplit(s) \in SchedType
    <3>1. CASE s.state = "started"
      BY <2>1, <2>3, <3>1 DEF PeriodicCompleteSplit
    <3>2. CASE s.state = "retry"
      BY <2>1, <2>2, <3>2 DEF PeriodicCompleteSplit
    <3>3. CASE s.state \notin {"started", "retry"}
      BY <3>3 DEF PeriodicCompleteSplit
    <3> QED BY <3>1, <3>2, <3>3
  <2> QED BY <2>4, <2>5 DEF CompleteSplit, NonPeriodicCompleteSplit
<1>10. \A f \in Int : [sched EXCEPT !.next = f] \in SchedType
  BY <1>1 DEF SchedType
<1> QED BY <1>1, <1>2, <1>6, <1>8, <1>9, <1>10

LEMMA FrameInts ==
    ASSUME PktTypes
    PROVE  \A f \in FramesAfter(sched) : f \in Int
BY TypeFields DEF FramesAfter, Unset

(* The request ends, or one of its stages.                                 *)
LEMMA StageDoneTypes ==
    ASSUME PktTypes, NEW t, t \in StageType, StageDone(t)
    PROVE  /\ req' \in ReqType /\ pc' \in {"idle", "stage"} /\ mark' \in Int /\ st' \in StageType
           /\ sched' \in SchedType
<1> DEFINE res == IF t.status THEN req.result ELSE ResultLen(t)
<1>1. t.total \in Int /\ t.size \in Int
  BY DEF StageType
<1>2. ResultLen(t) \in Int
  BY <1>1, Smallest DEF ResultLen
<1>3. res \in Int
  BY <1>2, TypeFields
<1>4. req' = [req EXCEPT !.status = 1, !.result = res]
  BY DEF StageDone
<1> HIDE DEF res
<1>5. req' \in ReqType /\ req'.result \in Int
  <2>1. req \in ReqType
    BY DEF PktTypes
  <2> QED BY <1>3, <1>4, <2>1 DEF ReqType
<1>6. mark' \in Int /\ pc' \in {"idle", "stage"}
  <2>1. mark \in Int
    BY DEF PktTypes
  <2>2. (IF req.in THEN req'.result ELSE req.len) \in Int /\ req.first \in Int
    BY <1>5, TypeFields
  <2>3. \A x \in Int : req.first + x \in Int
    BY <2>2
  <2>4. /\ mark' = IF stages = <<>> THEN req.first + (IF req.in THEN req'.result ELSE req.len) ELSE mark
        /\ pc' = IF stages = <<>> THEN "idle" ELSE "stage"
    BY DEF StageDone
  <2> QED BY <2>1, <2>2, <2>3, <2>4
<1>7. st' \in StageType /\ sched' \in SchedType
  BY SchedTypes DEF StageDone, NoStage, StageType
<1> QED BY <1>5, <1>6, <1>7

LEMMA ChanSteps ==
    ASSUME PktTypes
    PROVE  /\ \A b \in SUBSET ChannelBits : [chan EXCEPT !.int = b] \in ChanType
           /\ \A n \in Int : Moved(n) \in ChanType
           /\ \A f \in Int : Programmed(f) \in ChanType
<1>1. chan \in ChanType
  BY DEF PktTypes
<1>2. \A b \in SUBSET ChannelBits : [chan EXCEPT !.int = b] \in ChanType
  BY <1>1 DEF ChanType
<1>3. ASSUME NEW n \in Int
      PROVE  Moved(n) \in ChanType
  <2> DEFINE left == chan.packets - 1
             bytes == IF split /\ ~st.in THEN chan.bytes ELSE chan.bytes - n
             addr == chan.addr + n
             p == Flip(chan.pid)
             b == IF left = 0 \/ n < MaxPacket THEN {"xfer"} ELSE {}
  <2>1. left \in Int /\ bytes \in Int /\ addr \in Int
    BY TypeFields
  <2>2. p \in Pids
    BY DEF Flip, Pids
  <2>3. b \in SUBSET ChannelBits
    BY DEF ChannelBits
  <2>4. Moved(n) = [chan EXCEPT !.packets = left, !.bytes = bytes, !.addr = addr, !.pid = p, !.int = b]
    BY DEF Moved
  <2> HIDE DEF left, bytes, addr, p, b
  <2> QED BY <1>1, <2>1, <2>2, <2>3, <2>4 DEF ChanType
<1>4. ASSUME NEW f \in Int
      PROVE  Programmed(f) \in ChanType
  <2>1. GetNextPID(st.status) \in Pids /\ {} \in SUBSET ChannelBits
    BY DEF GetNextPID, PktTypes, Pids
  <2> QED BY <2>1, TypeFields DEF Programmed, ChanType
<1> QED BY <1>2, <1>3, <1>4

LEMMA PeerSteps ==
    ASSUME PktTypes
    PROVE  /\ \A x \in Int, b \in BOOLEAN : [peer EXCEPT !.hub = x, !.setup = b] \in PeerType
           /\ \A x \in Int : [peer EXCEPT !.pkt = x] \in PeerType
           /\ \A n \in Int : Acknowledged(n) \in PeerType
           /\ \A x \in {"no", "data", "status"} : [peer EXCEPT !.open = x] \in PeerType
           /\ \A t \in DataPids, x, k \in Int : \A o \in {"no", "data", "status"} :
                 [peer EXCEPT !.tog = t, !.next = x, !.pkt = k, !.open = o] \in PeerType
           /\ \A t \in DataPids, x \in Int, b \in BOOLEAN :
                 /\ [peer EXCEPT !.tog = t, !.next = x, !.bad = b] \in PeerType
                 /\ [peer EXCEPT !.tog = t, !.pkt = x, !.bad = b] \in PeerType
<1> DEFINE Opens == {"no", "data", "status"}
<1>1. peer \in PeerType
  BY DEF PktTypes
<1> HIDE DEF Opens
<1>2. PeerType = [tog : DataPids, next : Int, pkt : Int, open : Opens, bad : BOOLEAN, hub : Int,
                  setup : BOOLEAN]
  BY DEF PeerType, Opens
<1>3. /\ \A x \in Int, b \in BOOLEAN : [peer EXCEPT !.hub = x, !.setup = b] \in PeerType
      /\ \A x \in Int : [peer EXCEPT !.pkt = x] \in PeerType
  BY <1>1, <1>2
<1>4. \A x \in Opens : [peer EXCEPT !.open = x] \in PeerType
  BY <1>1, <1>2
<1>5. \A t \in DataPids, x, k \in Int : \A o \in Opens :
         [peer EXCEPT !.tog = t, !.next = x, !.pkt = k, !.open = o] \in PeerType
  BY <1>1, <1>2
<1>6. \A t \in DataPids, x \in Int, b \in BOOLEAN :
         /\ [peer EXCEPT !.tog = t, !.next = x, !.bad = b] \in PeerType
         /\ [peer EXCEPT !.tog = t, !.pkt = x, !.bad = b] \in PeerType
  BY <1>1, <1>2
<1>7. ASSUME NEW n \in Int
      PROVE  Acknowledged(n) \in PeerType
  <2> DEFINE o == IF type = "control" /\ n < MaxPacket THEN "status" ELSE peer.open
  <2>1. o \in Opens /\ Flip(peer.tog) \in DataPids /\ peer.next + n \in Int /\ -1 \in Int
    <3>1. peer.open \in Opens
      BY <1>1, <1>2
    <3> QED BY <3>1, TypeFields, Flips DEF Opens
  <2>2. Acknowledged(n) = [peer EXCEPT !.tog = Flip(peer.tog), !.next = peer.next + n, !.pkt = -1, !.open = o]
    BY DEF Acknowledged
  <2> DEFINE t == Flip(peer.tog)
             x == peer.next + n
             k == -1
  <2>3. t \in DataPids /\ x \in Int /\ k \in Int /\ o \in Opens
    BY <2>1
  <2>4. Acknowledged(n) = [peer EXCEPT !.tog = t, !.next = x, !.pkt = k, !.open = o]
    BY <2>2
  <2> HIDE DEF o, t, x, k
  <2> QED BY <1>1, <1>2, <2>3, <2>4
<1> QED BY <1>3, <1>4, <1>5, <1>6, <1>7 DEF Opens

LEMMA LengthInts ==
    ASSUME PktTypes
    PROVE  \A n \in Lengths : n \in Int
<1>1. Shorts \subseteq Int /\ MaxPacket \in Int /\ peer.pkt \in Int
  BY PacketConstants, TypeFields
<1>2. \A n \in Lengths : n = peer.pkt \/ n \in Shorts \/ n = MaxPacket
  BY DEF Lengths
<1> QED BY <1>1, <1>2

LEMMA TypesKept ==
    ASSUME PktTypes, PktShape, PktNext
    PROVE  PktTypes'
<1> USE DEF fixed, request
<1>1. /\ type' = type /\ split' = split
  BY DEF PktNext, Submit, TransferStage, StartChannel, RestartHalted, Failed, NoSplitDone, SplitStarted,
         SplitCompleted, TimerHandler, ResetPID, HubAccepts, NotReady, HubAcks, Halts, BusFails, SetupArrives,
         StatusPacket, DataOut, DataIn, DataRepeated, Stalls
<1>2. /\ pid \in Pids /\ req \in ReqType /\ st \in StageType /\ chan \in ChanType /\ peer \in PeerType
      /\ sched \in SchedType /\ pc \in {"idle", "stage", "start", "run", "delay"}
      /\ mark \in Int /\ lost \in BOOLEAN
      /\ type \in {"control", "bulk", "interrupt"} /\ split \in BOOLEAN
      /\ (type = "control" => MaxPacket >= SetupSize)
  BY DEF PktTypes
<1> SUFFICES /\ pid' \in Pids /\ req' \in ReqType /\ st' \in StageType /\ chan' \in ChanType
             /\ peer' \in PeerType /\ sched' \in SchedType
             /\ pc' \in {"idle", "stage", "start", "run", "delay"} /\ mark' \in Int /\ lost' \in BOOLEAN
  BY <1>1, <1>2 DEF PktTypes
<1>3. NoStage \in StageType /\ NoSched \in SchedType
  BY SchedTypes DEF NoStage, StageType
<1>4. \A x \in {0, 1} : [req EXCEPT !.status = x] \in ReqType
  BY <1>2 DEF ReqType
<1>5. \A x \in {"start", "complete", "delay", "nosplit"} : \A t \in StageType : [t EXCEPT !.state = x] \in StageType
  <2> DEFINE States == {"none", "nosplit", "start", "complete", "delay"}
  <2>1. {"start", "complete", "delay", "nosplit"} \subseteq States
    OBVIOUS
  <2> HIDE DEF States
  <2>2. \A x \in States : \A t \in StageType : [t EXCEPT !.state = x] \in StageType
    BY DEF StageType, States
  <2> QED BY <2>1, <2>2
<1>6. TransactionComplete \in StageType
  BY CompleteFields
<1>7. ASSUME NEW in \in BOOLEAN, NEW len \in Sizes, Submit(in, len)
      PROVE  PktTypes'
  <2>1. len \in Nat /\ req.n + 1 \in Int
    BY PacketConstants, TypeFields
  <2>2. req' \in ReqType
    BY <1>2, <1>7, <2>1 DEF Submit, ReqType
  <2> QED BY <1>1, <1>2, <1>7, <2>2 DEF Submit, PktTypes
<1>8. CASE TransferStage
  <2>1. st' \in StageType
    BY <1>8, HeadStage, NewStageFields DEF TransferStage
  <2> QED BY <1>2, <1>8, <2>1, SchedTypes DEF TransferStage
<1>9. CASE StartChannel
  <2>1. PICK f \in FramesAfter(sched) : sched' = [sched EXCEPT !.next = f] /\ chan' = Programmed(f)
    BY <1>9 DEF StartChannel
  <2>2. sched' \in SchedType /\ chan' \in ChanType
    BY <2>1, FrameInts, SchedTypes, ChanSteps
  <2> QED BY <1>2, <1>9, <2>2 DEF StartChannel
<1>10. CASE RestartHalted
  BY <1>2, <1>10 DEF RestartHalted
<1>11. CASE Failed
  BY <1>2, <1>3, <1>4, <1>11 DEF Failed
<1>12. CASE NoSplitDone
  <2>1. pid' \in Pids
    BY <1>12, SkipType DEF NoSplitDone
  <2>2. CASE "nak" \in chan.int
    BY <1>2, <1>5, <1>6, <1>12, <2>1, <2>2 DEF NoSplitDone
  <2>3. CASE "nak" \notin chan.int
    <3>1. StageDone(TransactionComplete)
      BY <1>12, <2>3 DEF NoSplitDone
    <3> QED BY <1>2, <1>6, <1>12, <2>1, <3>1, StageDoneTypes DEF NoSplitDone
  <2> QED BY <2>2, <2>3
<1>13. CASE SplitStarted
  BY <1>2, <1>5, <1>6, <1>13, SkipType, SchedTypes DEF SplitStarted
<1>14. CASE SplitCompleted
  <2> DEFINE s == CompleteSplit(SchedAnswer(sched, chan.int))
  <2>1. pid' \in Pids /\ s \in SchedType /\ StartSplit(s) \in SchedType
        /\ UNCHANGED <<chan, peer, lost>>
    BY <1>14, SkipType, SchedTypes DEF SplitCompleted
  <2>2. \/ /\ sched' = s /\ st' = TransactionComplete /\ pc' = "start" /\ UNCHANGED <<req, mark>>
        \/ /\ pc' = (IF IsPeriodic THEN "delay" ELSE "start")
           /\ st' = [TransactionComplete EXCEPT !.state = pc']
           /\ sched' = (IF IsPeriodic THEN s ELSE StartSplit(s))
           /\ UNCHANGED <<req, mark>>
        \/ StageDone(TransactionComplete)
    BY <1>14 DEF SplitCompleted
  <2> HIDE DEF s
  <2>3. CASE StageDone(TransactionComplete)
    BY <1>2, <1>6, <2>1, <2>3, StageDoneTypes
  <2>4. CASE sched' = s /\ st' = TransactionComplete /\ pc' = "start" /\ UNCHANGED <<req, mark>>
    BY <1>2, <1>6, <2>1, <2>4
  <2>5. CASE /\ pc' = (IF IsPeriodic THEN "delay" ELSE "start")
             /\ st' = [TransactionComplete EXCEPT !.state = pc']
             /\ sched' = (IF IsPeriodic THEN s ELSE StartSplit(s))
             /\ UNCHANGED <<req, mark>>
    BY <1>2, <1>5, <1>6, <2>1, <2>5
  <2> QED BY <2>2, <2>3, <2>4, <2>5
<1>15. CASE TimerHandler
  BY <1>2, <1>5, <1>15, SchedTypes DEF TimerHandler
<1>16. CASE ResetPID
  <2>1. peer' \in PeerType
    <3>1. "data0" \in DataPids /\ -1 \in Int /\ FALSE \in BOOLEAN
      BY DEF DataPids
    <3> QED BY <1>16, <3>1, PeerSteps DEF ResetPID
  <2> QED BY <1>2, <1>4, <1>16, <2>1, TypeFields DEF ResetPID, Pids
<1>17. \A b \in SUBSET ChannelBits : Ends(b) => chan' \in ChanType
  BY ChanSteps DEF Ends
<1>18. {"ack"} \in SUBSET ChannelBits /\ {"nak"} \in SUBSET ChannelBits /\ {"nyet"} \in SUBSET ChannelBits
       /\ {"halted"} \in SUBSET ChannelBits /\ {"err"} \in SUBSET ChannelBits
  BY DEF ChannelBits
<1>19. CASE HubAccepts
  <2> DEFINE b == chan.pid = "setup"
  <2>1. Ends({"ack"}) /\ peer' = [peer EXCEPT !.hub = chan.frame, !.setup = b]
        /\ UNCHANGED <<pid, req, pc, st, sched, mark, lost>>
    BY <1>19 DEF HubAccepts
  <2>2. b \in BOOLEAN
    OBVIOUS
  <2> HIDE DEF b
  <2>3. peer' \in PeerType
    BY <2>1, <2>2, PeerSteps, TypeFields
  <2> QED BY <1>2, <1>17, <1>18, <2>1, <2>3
<1>20. CASE NotReady \/ HubAcks \/ Halts \/ BusFails \/ Stalls
  BY <1>2, <1>17, <1>18, <1>20 DEF NotReady, HubAcks, Halts, BusFails, Stalls
<1>21. CASE SetupArrives
  <2>1. chan' \in ChanType
    BY <1>21, ChanSteps DEF SetupArrives, SetupSize
  <2>2. peer' \in PeerType
    <3>1. "data1" \in DataPids /\ req.first \in Int /\ -1 \in Int /\ "data" \in {"no", "data", "status"}
      BY TypeFields DEF DataPids
    <3> QED BY <1>21, <3>1, PeerSteps DEF SetupArrives
  <2> QED BY <1>2, <1>21, <2>1, <2>2 DEF SetupArrives
<1>22. CASE StatusPacket
  <2>1. chan' \in ChanType /\ peer' \in PeerType
    <3>1. 0 \in Int /\ "no" \in {"no", "data", "status"}
      OBVIOUS
    <3>2. chan' = Moved(0) /\ peer' = [peer EXCEPT !.open = "no"]
      BY <1>22 DEF StatusPacket
    <3> QED BY <3>1, <3>2, ChanSteps, PeerSteps
  <2> QED BY <1>2, <1>22, <2>1 DEF StatusPacket
<1>23. CASE DataOut
  <2> DEFINE n == Smaller(chan.bytes, MaxPacket)
             first == req.first + chan.addr
  <2>1. n \in Int /\ first \in Int /\ first + n \in Int
    BY TypeFields, Smallest
  <2>2. chan' \in ChanType
    BY <1>2, <1>23, <2>1, ChanSteps DEF DataOut
  <2>3. \/ peer' = peer
        \/ peer' = [peer EXCEPT !.tog = Flip(peer.tog), !.next = first + n,
                                !.bad = peer.bad \/ first # peer.next]
    BY <1>23 DEF DataOut
  <2>4. (peer.bad \/ first # peer.next) \in BOOLEAN /\ Flip(peer.tog) \in DataPids
    BY Flips
  <2>5. peer' \in PeerType
    <3> DEFINE t == Flip(peer.tog)
               x == first + n
               b == peer.bad \/ first # peer.next
    <3>1. t \in DataPids /\ x \in Int /\ b \in BOOLEAN
      BY <2>1, <2>4
    <3>2. peer' = peer \/ peer' = [peer EXCEPT !.tog = t, !.next = x, !.bad = b]
      BY <2>3
    <3> HIDE DEF t, x, b
    <3>3. [peer EXCEPT !.tog = t, !.next = x, !.bad = b] \in PeerType
      BY <3>1, PeerSteps
    <3> QED BY <1>2, <3>2, <3>3
  <2> QED BY <1>2, <1>23, <2>2, <2>5 DEF DataOut
<1>24. CASE DataIn
  <2>1. PICK n \in Lengths : chan' = Moved(n) /\ (peer' = Acknowledged(n) \/ peer' = [peer EXCEPT !.pkt = n])
    BY <1>24 DEF DataIn
  <2>2. chan' \in ChanType /\ peer' \in PeerType
    BY <2>1, LengthInts, ChanSteps, PeerSteps
  <2> QED BY <1>2, <1>24, <2>2 DEF DataIn
<1>25. CASE DataRepeated
  <2>1. PICK n \in Lengths : peer' = Acknowledged(n)
    BY <1>25 DEF DataRepeated
  <2>2. peer' \in PeerType
    BY <2>1, LengthInts, PeerSteps
  <2>3. chan' \in ChanType
    BY <1>2, <1>17, <1>18, <1>25 DEF DataRepeated
  <2> QED BY <1>2, <1>25, <2>2, <2>3 DEF DataRepeated
<1> QED BY <1>7, <1>8, <1>9, <1>10, <1>11, <1>12, <1>13, <1>14, <1>15, <1>16, <1>19, <1>20, <1>21,
           <1>22, <1>23, <1>24, <1>25 DEF PktNext, PktTypes
-----------------------------------------------------------------------------
(* Caller and device agree on the bytes and on the PIDs.                   *)

Filled(n) == n \in Nat /\ buf = [i \in 1 .. n |-> req.first + i - 1]

(* The device expects, or is to send, the byte at under the PID p; a       *)
(* packet whose handshake was lost is sent again under the other one.      *)
OutSync(p, at) == peer.tog = p /\ peer.next = at
InSync(p, at) ==
    \/ peer.pkt = -1 /\ peer.tog = p /\ peer.next = at
    \/ peer.pkt # -1 /\ peer.tog = Flip(p) /\ peer.next + peer.pkt = at

AtRest(p, done) ==
    IF req.in THEN InSync(p, req.first + done) /\ Filled(done) ELSE OutSync(p, req.first + done)

(* A packet of n bytes that was sent may have arrived.                     *)
DataSync(p, done, n) == AtRest(p, done) \/ (~req.in /\ OutSync(Flip(p), req.first + done + n))

Transferred ==
    IF req.in THEN Filled(req.result)
    ELSE /\ peer.next = req.first + req.len
         /\ req.result = (IF req.len = 0 THEN SetupSize ELSE req.len)

Fresh == peer.tog = "data1" /\ peer.next = req.first /\ peer.pkt = -1
Begun == req.in => Filled(0)

IdleSync ==
    /\ req.status = 1 => Transferred
    /\ type # "control" => IF req.in THEN InSync(pid, mark) ELSE OutSync(pid, mark)

StageSync ==
    \/ type # "control" /\ AtRest(pid, 0)
    \/ Setting /\ Begun
    \/ type = "control" /\ pid = "data1" /\ stages = AfterSetup /\ Begun /\ Fresh /\ req.result = SetupSize
    \/ type = "control" /\ pid # "setup" /\ stages = <<StatusStage>> /\ Transferred

(* The stage data counts what is left.                                     *)
StageRight ==
    /\ st.total \in 0 .. st.size /\ (Setting => st.total = 0)
    /\ IF pc = "delay" THEN st.state = "delay"
       ELSE IF split THEN st.state \in {"start", "complete"} ELSE st.state = "nosplit"
    /\ ~split => st.total = 0 /\ st.bytesPer = st.size /\ st.packetsPer = st.packets
    /\ split => st.packetsPer = 1 /\ st.bytesPer = Smaller(MaxPacket, st.size - st.total)
    /\ st.packets >= 1
    /\ st.status => st.packets = 1
    /\ ~st.status /\ (~st.in \/ ~split) => st.total < st.size /\ st.packets = Ceil(st.size - st.total)

StartSync ==
    \/ Setting /\ ~st.status /\ Begun
    \/ ~Setting /\ ~st.status /\ DataSync(pid, st.total, Smaller(st.bytesPer, MaxPacket))
    \/ st.status /\ Transferred

(* The channel has moved nothing yet.                                      *)
Untouched ==
    /\ chan.bytes = st.bytesPer /\ chan.packets = st.packetsPer
    /\ chan.pid = GetNextPID(st.status) /\ chan.addr = st.total

Parity(n) == IF n % 2 = 1 THEN Flip(pid) ELSE pid

(* What the channel has moved, if it is one packet of setup or status, or  *)
(* packets with data.                                                      *)
SingleRight ==
    IF chan.int = {"xfer"}
    THEN chan.packets = st.packetsPer - 1 /\ chan.bytes = (IF split THEN st.bytesPer ELSE 0)
    ELSE Untouched

SplitRight ==
    IF chan.int # {"xfer"} THEN Untouched
    ELSE /\ chan.packets = 0
         /\ chan.addr = st.total + st.bytesPer - (IF st.in THEN chan.bytes ELSE 0)
         /\ IF st.in THEN chan.bytes < st.bytesPer ELSE chan.bytes = st.bytesPer

WholeRight ==
    /\ chan.addr + chan.bytes = st.size
    /\ PacketsMoved = 0 => Untouched
    /\ chan.int \notin {{}, {"xfer"}} => Untouched
    /\ IF st.in THEN chan.int # {"xfer"} => chan.packets > 0
       ELSE IF chan.int = {"xfer"} THEN chan.bytes = 0
       ELSE chan.bytes > 0 /\ chan.packets = Ceil(chan.bytes)

DataRight ==
    /\ PacketsMoved \in Nat /\ chan.pid = Parity(PacketsMoved)
    /\ chan.addr \in Nat /\ chan.bytes \in Nat
    /\ IF split THEN SplitRight ELSE WholeRight

Reasons ==
    /\ chan.int \in {{}, {"halted"}, {"nak"}, {"nyet"}, {"ack"}, {"xfer"}}
    /\ chan.int = {"ack"} => st.state = "start" \/ (st.state = "complete" /\ (st.status \/ pid # "setup"))
    /\ chan.int = {"xfer"} => st.state # "start"
    /\ chan.int = {"nak"} => split \/ type = "interrupt"
    /\ chan.int = {"nyet"} => split

RunSync ==
    \/ chan.int = {"err"}
    \/ /\ Reasons
       /\ \/ Setting /\ ~st.status /\ Begun /\ SingleRight /\ (chan.int = {"xfer"} => Fresh)
          \/ /\ ~Setting /\ ~st.status /\ DataRight
             /\ IF chan.int = {"xfer"} THEN AtRest(chan.pid, chan.addr)
                ELSE DataSync(chan.pid, chan.addr, Smaller(chan.bytes, MaxPacket))
          \/ st.status /\ SingleRight /\ Transferred

Sync ==
    /\ ~peer.bad
    /\ pc = "idle" => IdleSync
    /\ pc = "stage" => StageSync
    /\ Busy => StageRight
    /\ pc \in {"start", "delay"} => StartSync
    /\ pc = "run" => RunSync

(* The frame scheduler asks while the hub has the answer, and the hub      *)
(* knows a setup packet.                                                   *)
SchedRight ==
    split /\ pc \in {"start", "run"} =>
        /\ st.state = "start" => sched.state = "start"
        /\ st.state = "complete" => sched.state \in {"completing", "retry"}
        /\ st.state = "complete" \/ (pc = "run" /\ chan.int = {"ack"}) =>
              peer.setup = (~st.status /\ pid = "setup")
        /\ IsPeriodic =>
            /\ pc = "run" => chan.frame = sched.next /\ sched.next \in 0 .. 7
            /\ pc = "run" /\ chan.int = {"ack"} /\ st.state = "start" => peer.hub = chan.frame
            /\ st.state = "complete" =>
                /\ sched.next \in 0 .. 7 /\ peer.hub \in 0 .. 7 /\ sched.tries \in 0 .. 3
                /\ (sched.next - peer.hub) % 8 \in 2 .. 5 - sched.tries
            /\ pc = "start" => sched.next \in 0 .. 8

PacketInv == odd \/ (PktTypes /\ PktShape /\ (~lost => Sync /\ SchedRight))

(* What the interrupt handler sees while caller and device agree.          *)
LEMMA Answered ==
    ASSUME PktTypes, Sync, Handling, "err" \notin chan.int
    PROVE  /\ pc = "run" /\ Reasons /\ StageRight
           /\ \/ chan.int \in {{"nak"}, {"nyet"}} /\ Refused(chan) /\ TransactionComplete = st /\ PIDAfter = pid
              \/ chan.int = {"ack"} /\ ~Refused(chan) /\ st.state = "start" /\ PIDAfter = pid
              \/ /\ chan.int = {"ack"} /\ ~Refused(chan) /\ st.state = "complete"
                 /\ (st.status \/ pid # "setup") /\ PIDAfter = SkipPID(pid, PacketsMoved, st.status)
              \/ /\ chan.int = {"xfer"} /\ ~Refused(chan) /\ st.state # "start"
                 /\ PIDAfter = SkipPID(pid, PacketsMoved, st.status)
<1>1. pc = "run" /\ chan.int \notin {{}, {"halted"}} /\ chan.int # {"err"}
  BY DEF Handling
<1>2. Reasons /\ StageRight
  BY <1>1 DEF Sync, RunSync, Busy
<1>3. chan.int \in {{"nak"}, {"nyet"}, {"ack"}, {"xfer"}}
  BY <1>1, <1>2 DEF Reasons
<1>4. CASE chan.int \in {{"nak"}, {"nyet"}}
  <2>1. Refused(chan)
    BY <1>4 DEF Refused
  <2> QED BY <1>1, <1>2, <1>4, <2>1 DEF TransactionComplete, PIDAfter
<1>5. CASE chan.int = {"ack"}
  <2>1. ~Refused(chan)
    BY <1>5 DEF Refused
  <2>2. st.state = "start" \/ (st.state = "complete" /\ (st.status \/ pid # "setup"))
    BY <1>2, <1>5 DEF Reasons
  <2> QED BY <1>1, <1>2, <1>5, <2>1, <2>2 DEF PIDAfter
<1>6. CASE chan.int = {"xfer"}
  <2>1. ~Refused(chan) /\ st.state # "start"
    BY <1>2, <1>6 DEF Refused, Reasons
  <2> QED BY <1>1, <1>2, <1>6, <2>1 DEF PIDAfter
<1> QED BY <1>3, <1>4, <1>5, <1>6

(* ACK alone to a complete split: nothing has moved.                       *)
LEMMA AckedSame ==
    ASSUME PktTypes, Sync, pc = "run", split, chan.int = {"ack"}
    PROVE  PacketsMoved = 0 /\ TransactionComplete = st
<1>1. RunSync /\ StageRight /\ chan.int # {"err"} /\ chan.int # {"xfer"}
  BY DEF Sync, Busy
<1>2. Untouched
  BY <1>1 DEF RunSync, SingleRight, DataRight, SplitRight
<1>3. PacketsMoved = 0
  BY <1>2, TypeFields DEF Untouched, PacketsMoved
<1>4. BytesMoved = 0
  <2>1. MaxPacket * 0 = 0
    BY TypeFields
  <2> QED BY <1>2, <1>3, <2>1, TypeFields DEF Untouched, BytesMoved
<1>5. ~Refused(chan)
  BY DEF Refused
<1>6. st.bytesPer = Smaller(MaxPacket, st.size - st.total) /\ st.total \in 0 .. st.size
  BY <1>1 DEF StageRight
<1>7. st.total + 0 = st.total /\ st.packets - 0 = st.packets /\ st.total <= st.size
      /\ Smaller(st.bytesPer, st.size - st.total) = st.bytesPer
  BY <1>6, TypeFields DEF Smaller
<1>8. TransactionComplete = [st EXCEPT !.total = st.total, !.packets = st.packets, !.bytesPer = st.bytesPer]
  BY <1>3, <1>4, <1>5, <1>7 DEF TransactionComplete
<1>9. st \in StageType
  BY DEF PktTypes
<1> QED BY <1>3, <1>8, <1>9 DEF StageType

(* In a split transaction the answer of the hub decides what is next.      *)
LEMMA SplitAnswered ==
    ASSUME PktTypes, Sync, SchedRight, SplitCompleted, split
    PROVE  LET s == CompleteSplit(SchedAnswer(sched, chan.int)) IN
           \/ /\ chan.int \in {{"nak"}, {"nyet"}, {"ack"}} /\ (pid' = pid \/ (st.status /\ pid' = "setup"))
              /\ \/ s.state = "retry" /\ sched' = s /\ st' = st /\ pc' = "start"
                 \/ /\ pc' = (IF IsPeriodic THEN "delay" ELSE "start") /\ st' = [st EXCEPT !.state = pc']
                    /\ sched' = (IF IsPeriodic THEN s ELSE StartSplit(s))
              /\ UNCHANGED <<req, mark>>
           \/ /\ chan.int = {"xfer"} /\ pid' = SkipPID(pid, 1, st.status) /\ PacketsMoved = 1
              /\ \/ /\ st.packets # 1 /\ pc' = (IF IsPeriodic THEN "delay" ELSE "start")
                    /\ st' = [TransactionComplete EXCEPT !.state = pc']
                    /\ sched' = (IF IsPeriodic THEN s ELSE StartSplit(s))
                    /\ UNCHANGED <<req, mark>>
                 \/ st.packets = 1 /\ StageDone(TransactionComplete)
<1> DEFINE s == CompleteSplit(SchedAnswer(sched, chan.int))
           t == TransactionComplete
<1>1. Handling /\ st.state = "complete" /\ "err" \notin chan.int /\ pid' = PIDAfter
  BY DEF SplitCompleted
<1>2. \/ s.state = "retry" /\ sched' = s /\ st' = t /\ pc' = "start" /\ UNCHANGED <<req, mark>>
      \/ /\ s.state # "retry" /\ t.packets # 0
         /\ pc' = (IF IsPeriodic THEN "delay" ELSE "start") /\ st' = [t EXCEPT !.state = pc']
         /\ sched' = (IF IsPeriodic THEN s ELSE StartSplit(s)) /\ UNCHANGED <<req, mark>>
      \/ s.state # "retry" /\ t.packets = 0 /\ StageDone(t)
  BY DEF SplitCompleted
<1>3. CASE chan.int \in {{"nak"}, {"nyet"}, {"ack"}}
  <2>1. t = st /\ (pid' = pid \/ (st.status /\ pid' = "setup")) /\ st.packets >= 1
    <3>1. CASE chan.int = {"ack"}
      <4>1. pc = "run" /\ StageRight /\ pid' = SkipPID(pid, PacketsMoved, st.status) /\ (st.status \/ pid # "setup")
        BY <1>1, <3>1, Answered
      <4>2. PacketsMoved = 0 /\ t = st
        BY <3>1, <4>1, AckedSame
      <4>3. st.packets >= 1
        BY <4>1 DEF StageRight
      <4> HIDE DEF t
      <4> QED BY <4>1, <4>2, <4>3 DEF SkipPID
    <3>2. CASE chan.int # {"ack"}
      BY <1>1, <1>3, <3>2, Answered DEF StageRight
    <3> QED BY <3>1, <3>2
  <2>2. t.packets # 0
    BY <2>1, TypeFields
  <2> HIDE DEF s, t
  <2>3. \/ s.state = "retry" /\ sched' = s /\ st' = st /\ pc' = "start"
        \/ /\ pc' = (IF IsPeriodic THEN "delay" ELSE "start") /\ st' = [st EXCEPT !.state = pc']
           /\ sched' = (IF IsPeriodic THEN s ELSE StartSplit(s))
    BY <1>2, <2>1, <2>2
  <2>4. UNCHANGED <<req, mark>>
    BY <1>2, <2>2
  <2> QED BY <1>3, <2>1, <2>3, <2>4 DEF s
<1>4. CASE chan.int = {"xfer"}
  <2>1. pc = "run" /\ StageRight /\ pid' = SkipPID(pid, PacketsMoved, st.status) /\ ~Refused(chan)
    BY <1>1, <1>4, Answered DEF Refused
  <2>2. st.packetsPer = 1
    BY <2>1 DEF StageRight
  <2>3. chan.packets = 0
    BY <1>4, <2>1, <2>2, TypeFields DEF Sync, RunSync, SingleRight, DataRight, SplitRight
  <2>4. PacketsMoved = 1
    BY <2>2, <2>3 DEF PacketsMoved
  <2>5. t.packets = st.packets - 1
    BY <2>1, <2>4, CompleteFields
  <2>6. s.state = "done"
    <3>1. sched.state \in {"completing", "retry"}
      BY <1>1, <2>1 DEF SchedRight
    <3>2. SchedAnswer(sched, chan.int) = [sched EXCEPT !.state = "done"]
      BY <1>4, <3>1 DEF SchedAnswer, PeriodicAnswer, NonPeriodicAnswer
    <3>3. sched \in SchedType
      BY DEF PktTypes
    <3>4. [sched EXCEPT !.state = "done"].state = "done"
      BY <3>3 DEF SchedType
    <3> QED BY <3>2, <3>4 DEF CompleteSplit, PeriodicCompleteSplit, NonPeriodicCompleteSplit
  <2>7. (t.packets # 0) = (st.packets # 1)
    BY <2>5, TypeFields
  <2> HIDE DEF s, t
  <2>8. \/ /\ st.packets # 1 /\ pc' = (IF IsPeriodic THEN "delay" ELSE "start")
           /\ st' = [t EXCEPT !.state = pc']
           /\ sched' = (IF IsPeriodic THEN s ELSE StartSplit(s))
           /\ UNCHANGED <<req, mark>>
        \/ st.packets = 1 /\ StageDone(t)
    BY <1>2, <2>6, <2>7
  <2> QED BY <1>4, <2>1, <2>4, <2>8 DEF s, t
<1> QED BY <1>1, <1>3, <1>4, Answered
(* The shape of a request that is no control one: a single stage.          *)
LEMMA PlainShape ==
    ASSUME PktTypes, PktShape, PktNext, type # "control", type' = type, split' = split
    PROVE  PktShape'
<1> USE DEF fixed, request
<1>1. /\ pid \in DataPids /\ (type = "interrupt" => req.in)
      /\ (pc # "idle" => req.len > 0 /\ (type = "interrupt" => req.len <= MaxPacket))
      /\ (pc = "stage" => stages = <<StageOf(req.in, FALSE)>>)
      /\ (Busy => stages = <<>> /\ ~st.status /\ st.in = req.in /\ st.size = req.len)
  BY DEF PktShape, Setting
<1> SUFFICES /\ pid' \in DataPids /\ (type = "interrupt" => req'.in)
             /\ (pc' # "idle" => req'.len > 0 /\ (type = "interrupt" => req'.len <= MaxPacket))
             /\ (pc' = "stage" => stages' = <<StageOf(req'.in, FALSE)>>)
             /\ (Busy' => stages' = <<>> /\ ~st'.status /\ st'.in = req'.in /\ st'.size = req'.len)
  BY DEF PktShape, Setting
<1>2. req \in ReqType /\ st \in StageType /\ req.in \in BOOLEAN
  BY TypeFields DEF PktTypes
<1>3. \A x : [req EXCEPT !.status = x].in = req.in /\ [req EXCEPT !.status = x].len = req.len
  BY <1>2 DEF ReqType
<1>4. TransactionComplete.in = st.in /\ TransactionComplete.status = st.status /\ TransactionComplete.size = st.size
      /\ TransactionComplete \in StageType
  BY CompleteFields
<1>5. \A x : \A t \in StageType :
         /\ [t EXCEPT !.state = x].in = t.in /\ [t EXCEPT !.state = x].status = t.status
         /\ [t EXCEPT !.state = x].size = t.size
  BY DEF StageType
<1>6. Handling => Busy
  BY DEF Handling, Busy
<1>7. ~st.status => PIDAfter \in DataPids
  BY <1>1, Flips DEF PIDAfter, SkipPID, DataPids
<1>8. ASSUME NEW in \in BOOLEAN, NEW len \in Sizes, Submit(in, len)
      PROVE  PktShape'
  <2>1. req'.in = in /\ req'.len = len /\ in = req.in /\ pc' = "stage" /\ pid' = pid
    BY <1>8 DEF Submit
  <2>2. stages' = <<StageOf(in, FALSE)>>
    BY <1>8 DEF Submit, StageOf
  <2>3. len > 0 /\ (type = "interrupt" => len <= MaxPacket)
    BY <1>8 DEF Submit, IsPeriodic
  <2> QED BY <1>1, <2>1, <2>2, <2>3 DEF PktShape, Setting, Busy
<1>9. CASE TransferStage
  <2>1. pc = "stage" /\ st' = NewStage(Head(stages)) /\ stages' = Tail(stages) /\ pc' = "start"
        /\ pid' = pid /\ req' = req
    BY <1>9 DEF TransferStage
  <2>2. Head(stages) = StageOf(req.in, FALSE) /\ Tail(stages) = <<>>
    BY <1>1, <2>1, Tuples
  <2>3. Head(stages).in = req.in /\ Head(stages).status = FALSE
    BY <2>2 DEF StageOf
  <2>4. st'.in = req.in /\ ~st'.status /\ st'.size = req.len
    <3> DEFINE h == Head(stages)
    <3>1. h.in \in BOOLEAN /\ h.status \in BOOLEAN /\ st' = NewStage(h) /\ h.in = req.in /\ ~h.status
      BY <1>2, <2>1, <2>3
    <3> HIDE DEF h
    <3>2. st'.in = h.in /\ st'.status = h.status
          /\ st'.size = IF h.status THEN 0 ELSE IF pid = "setup" THEN SetupSize ELSE req.len
      BY <3>1, NewStageFields
    <3> QED BY <1>1, <3>1, <3>2 DEF DataPids
  <2> QED BY <1>1, <2>1, <2>2, <2>4 DEF Busy
<1>10. CASE StartChannel
  BY <1>1, <1>10 DEF StartChannel, Busy
<1>11. CASE RestartHalted
  BY <1>1, <1>11 DEF RestartHalted, Busy
<1>12. CASE Failed
  <2>1. req' = [req EXCEPT !.status = 0] /\ pc' = "idle" /\ pid' = pid
    BY <1>12 DEF Failed
  <2> QED BY <1>1, <1>3, <2>1 DEF Busy
<1>13. ASSUME NEW t, StageDone(t), Handling, stages' = stages
       PROVE  req'.in = req.in /\ req'.len = req.len /\ pc' = "idle"
  <2>1. stages = <<>>
    BY <1>1, <1>6, <1>13
  <2> QED BY <1>2, <1>13, <2>1 DEF StageDone, ReqType
<1>14. CASE NoSplitDone
  <2>1. Handling /\ stages' = stages /\ pid' \in DataPids
    BY <1>1, <1>6, <1>7, <1>14 DEF NoSplitDone
  <2>2. CASE "nak" \in chan.int
    <3>1. st' = [TransactionComplete EXCEPT !.state = "delay"] /\ pc' = "delay" /\ req' = req
      BY <1>14, <2>2 DEF NoSplitDone
    <3>2. pc # "idle"
      BY <2>1 DEF Handling
    <3> QED BY <1>1, <1>4, <1>5, <1>6, <2>1, <3>1, <3>2
  <2>3. CASE "nak" \notin chan.int
    <3>1. StageDone(TransactionComplete)
      BY <1>14, <2>3 DEF NoSplitDone
    <3>2. req'.in = req.in /\ req'.len = req.len /\ pc' = "idle"
      BY <1>13, <2>1, <3>1
    <3> QED BY <1>1, <2>1, <3>2 DEF Busy
  <2> QED BY <2>2, <2>3
<1>15. CASE SplitStarted
  <2>1. Handling /\ stages' = stages /\ pid' \in DataPids /\ req' = req /\ pc # "idle"
        /\ st' = [TransactionComplete EXCEPT !.state = "complete"]
    BY <1>1, <1>6, <1>7, <1>15 DEF SplitStarted, Handling
  <2>2. pc' = "start"
    BY <1>15 DEF SplitStarted
  <2> QED BY <1>1, <1>4, <1>5, <1>6, <2>1, <2>2
<1>16. CASE SplitCompleted
  <2>1. Handling /\ stages' = stages /\ pid' \in DataPids /\ pc # "idle"
    BY <1>1, <1>6, <1>7, <1>16 DEF SplitCompleted, Handling
  <2>2. \/ StageDone(TransactionComplete)
        \/ st' = TransactionComplete /\ pc' = "start" /\ req' = req
        \/ pc' \in {"delay", "start"} /\ st' = [TransactionComplete EXCEPT !.state = pc'] /\ req' = req
    BY <1>16 DEF SplitCompleted
  <2>3. CASE StageDone(TransactionComplete)
    <3>1. req'.in = req.in /\ req'.len = req.len /\ pc' = "idle"
      BY <1>13, <2>1, <2>3
    <3> QED BY <1>1, <2>1, <3>1 DEF Busy
  <2>4. CASE ~StageDone(TransactionComplete)
    <3>1. req' = req /\ pc' \in {"start", "delay"}
          /\ st'.in = st.in /\ st'.status = st.status /\ st'.size = st.size
      <4> DEFINE t == TransactionComplete
      <4>1. t \in StageType /\ t.in = st.in /\ t.status = st.status /\ t.size = st.size
        BY <1>4
      <4>2. req' = req /\ pc' \in {"start", "delay"} /\ (st' = t \/ st' = [t EXCEPT !.state = pc'])
        BY <2>2, <2>4
      <4> HIDE DEF t
      <4>3. \A x : [t EXCEPT !.state = x].in = t.in /\ [t EXCEPT !.state = x].status = t.status
                  /\ [t EXCEPT !.state = x].size = t.size
        BY <1>5, <4>1
      <4> QED BY <4>1, <4>2, <4>3
    <3> QED BY <1>1, <1>6, <2>1, <3>1
  <2> QED BY <2>3, <2>4
<1>17. CASE TimerHandler
  <2>1. pc = "delay" /\ pc' = "start" /\ pid' = pid /\ req' = req /\ stages' = stages
    BY <1>17 DEF TimerHandler
  <2>2. st'.in = st.in /\ st'.status = st.status /\ st'.size = st.size
    BY <1>2, <1>5, <1>17 DEF TimerHandler
  <2> QED BY <1>1, <2>1, <2>2 DEF Busy
<1>18. CASE ResetPID
  <2>1. pid' = "data0" /\ req' = [req EXCEPT !.status = 0] /\ pc' = "idle"
    BY <1>18 DEF ResetPID
  <2> QED BY <1>1, <1>3, <2>1 DEF Busy, DataPids
<1>19. CASE HubAccepts \/ NotReady \/ HubAcks \/ Halts \/ BusFails \/ SetupArrives \/ StatusPacket \/ DataOut \/ DataIn
            \/ DataRepeated \/ Stalls
  <2>1. pid' = pid /\ req' = req /\ stages' = stages /\ pc' = pc /\ st' = st
    BY <1>19 DEF HubAccepts, NotReady, HubAcks, Halts, BusFails, SetupArrives, StatusPacket, DataOut, DataIn,
                 DataRepeated, Stalls
  <2> QED BY <1>1, <2>1 DEF Busy
<1> QED BY <1>8, <1>9, <1>10, <1>11, <1>12, <1>14, <1>15, <1>16, <1>17, <1>18, <1>19 DEF PktNext, PktShape, Setting
(* The setup packet is a single one.                                       *)
LEMMA SettingSingle ==
    ASSUME PktTypes, PktShape, StageRight, Busy, Setting, ~st.status
    PROVE  ~st.status /\ ~st.in /\ st.size = SetupSize /\ stages = AfterSetup /\ st.packets = 1 /\ st.total = 0
           /\ st.bytesPer = SetupSize /\ st.packetsPer = 1
<1>1. ~st.status /\ ~st.in /\ st.size = SetupSize /\ stages = AfterSetup /\ MaxPacket >= SetupSize
  BY DEF PktShape, Setting, PktTypes, DataPids
<1>2. st.total = 0 /\ st.total < st.size /\ st.total \in Nat /\ st.packets = Ceil(st.size - st.total)
  BY <1>1 DEF StageRight
<1>3. st.packets = 1
  <2>1. st.size - st.total \in Nat /\ st.size - st.total > 0 /\ st.size - st.total <= MaxPacket
    BY <1>1, <1>2, TypeFields DEF SetupSize
  <2> QED BY <1>2, <2>1, CeilFacts
<1>4. st.bytesPer = SetupSize
  BY <1>1, <1>2, TypeFields DEF StageRight, Smaller, SetupSize
<1>5. st.packetsPer = 1
  BY <1>3, <1>2, TypeFields DEF StageRight, PktTypes
<1> QED BY <1>1, <1>2, <1>3, <1>4, <1>5

(* The shape of a control request: setup, data if there is some, status.   *)
LEMMA ControlShape ==
    ASSUME PktTypes, PktShape, Sync, SchedRight, ~lost, PktNext, type = "control",
           type' = type, split' = split
    PROVE  PktShape'
<1> USE DEF fixed, request
<1> DEFINE AtStage == \/ pid = "setup" /\ stages = AllStages
                      \/ pid = "data1" /\ stages = AfterSetup
                      \/ pid \in DataPids /\ req.len > 0 /\ stages = <<StatusStage>>
           AtBusy == \/ pid = "setup" /\ ~st.status /\ ~st.in /\ st.size = SetupSize /\ stages = AfterSetup
                     \/ /\ pid \in DataPids /\ ~st.status /\ st.in = req.in
                        /\ st.size = req.len /\ req.len > 0 /\ stages = <<StatusStage>>
                     \/ st.status /\ st.size = 0 /\ stages = <<>>
           Goal == /\ pc' # "idle" => (req'.in => req'.len > 0)
                   /\ lost' => pc' = "idle"
                   /\ ~lost' /\ pc' = "idle" => pid' = "setup"
                   /\ pc' = "stage" => AtStage'
                   /\ Busy' => AtBusy'
<1>1. /\ (pc # "idle" => (req.in => req.len > 0))
      /\ (pc = "idle" => pid = "setup")
      /\ (pc = "stage" => AtStage)
      /\ (Busy => AtBusy)
  BY DEF PktShape, Setting
<1>18. ASSUME Goal
      PROVE  PktShape'
  BY <1>18 DEF PktShape, Setting
<1>2. req \in ReqType /\ st \in StageType /\ req.in \in BOOLEAN
  BY TypeFields DEF PktTypes
<1>3. ASSUME req'.in = req.in, req'.len = req.len
      PROVE  AfterSetup' = AfterSetup /\ AllStages' = AllStages /\ StatusStage' = StatusStage
  BY <1>3 DEF AfterSetup, AllStages, StatusStage, StageOf
<1>4. \A x : \A t \in StageType :
         /\ [t EXCEPT !.state = x].in = t.in /\ [t EXCEPT !.state = x].status = t.status
         /\ [t EXCEPT !.state = x].size = t.size
  BY DEF StageType
<1>5. ASSUME pid' = pid \/ st.status, req' = req, stages' = stages, lost' = lost, Busy, Busy', pc' # "idle",
             st'.in = st.in, st'.status = st.status, st'.size = st.size
      PROVE  PktShape'
  <2>1. Goal
    BY <1>1, <1>3, <1>5 DEF Busy
  <2> QED BY <1>18, <2>1
<1>6. ASSUME NEW in \in BOOLEAN, NEW len \in Sizes, Submit(in, len)
      PROVE  PktShape'
  <2>1. /\ req'.in = in /\ req'.len = len /\ pc' = "stage" /\ pid' = pid /\ pc = "idle" /\ lost' = lost
        /\ (in => len > 0)
    BY <1>6 DEF Submit
  <2>2. len \in Nat
    BY PacketConstants
  <2>3. stages' = AllStages'
    <3>1. CASE in
      <4>1. ~(len = 0)
        BY <2>1, <2>2, <3>1
      <4> QED BY <1>6, <2>1, <3>1, <4>1 DEF Submit, AllStages, StageOf, StatusStage
    <3>2. CASE ~in /\ len = 0
      BY <1>6, <2>1, <3>2 DEF Submit, AllStages, StageOf, StatusStage
    <3>3. CASE ~in /\ len # 0
      BY <1>6, <2>1, <3>3 DEF Submit, AllStages, StageOf, StatusStage
    <3> QED BY <3>1, <3>2, <3>3
  <2>4. Goal
    BY <1>1, <2>1, <2>3 DEF Busy
  <2> QED BY <1>18, <2>4
<1>7. CASE TransferStage
  <2> DEFINE h == Head(stages)
  <2>1. pc = "stage" /\ st' = NewStage(h) /\ stages' = Tail(stages) /\ pc' = "start"
        /\ pid' = pid /\ req' = req /\ lost' = lost
    BY <1>7 DEF TransferStage
  <2>2. h.in \in BOOLEAN /\ h.status \in BOOLEAN
    BY <2>1, HeadStage
  <2>3. st'.in = h.in /\ st'.status = h.status
        /\ st'.size = IF h.status THEN 0 ELSE IF pid = "setup" THEN SetupSize ELSE req.len
    <3> HIDE DEF h
    <3> QED BY <2>1, <2>2, NewStageFields
  <2>4. AfterSetup' = AfterSetup /\ StatusStage' = StatusStage
    BY <1>3, <2>1
  <2>5. CASE pid = "setup" /\ stages = AllStages
    <3>1. h = StageOf(FALSE, FALSE) /\ Tail(stages) = AfterSetup
      BY <2>5, Tuples DEF AllStages, AfterSetup
    <3>2. ~h.in /\ ~h.status
      BY <3>1 DEF StageOf
    <3> HIDE DEF h
    <3>3. Goal
      BY <1>1, <2>1, <2>3, <2>4, <2>5, <3>1, <3>2 DEF Busy
    <3> QED BY <1>18, <3>3
  <2>6. CASE pid \in DataPids /\ stages = <<StatusStage>>
    <3>1. h = StatusStage /\ Tail(stages) = <<>>
      BY <2>6, Tuples
    <3>2. h.status
      BY <3>1 DEF StageOf, StatusStage
    <3> HIDE DEF h
    <3>3. Goal
      BY <1>1, <2>1, <2>3, <2>4, <2>6, <3>1, <3>2 DEF Busy
    <3> QED BY <1>18, <3>3
  <2>7. CASE pid = "data1" /\ stages = AfterSetup /\ req.len # 0
    <3>1. h = StageOf(req.in, FALSE) /\ Tail(stages) = <<StatusStage>>
      BY <2>7, Tuples DEF AfterSetup
    <3>2. h.in = req.in /\ ~h.status /\ req.len > 0
      <4>1. h.in = req.in /\ h.status = FALSE
        BY <3>1 DEF StageOf
      <4>2. req.len > 0
        BY <2>7, TypeFields
      <4> QED BY <4>1, <4>2
    <3> HIDE DEF h
    <3>3. Goal
      BY <1>1, <2>1, <2>3, <2>4, <2>7, <3>1, <3>2 DEF Busy, DataPids
    <3> QED BY <1>18, <3>3
  <2>8. pid = "data1" /\ stages = AfterSetup /\ req.len = 0 => pid \in DataPids /\ stages = <<StatusStage>>
    BY DEF AfterSetup, DataPids
  <2> HIDE DEF h
  <2> QED BY <1>1, <2>1, <2>5, <2>6, <2>7, <2>8
<1>8. CASE StartChannel \/ RestartHalted
  BY <1>5, <1>8 DEF StartChannel, RestartHalted, Busy
<1>9. CASE Failed
  <2>1. lost' /\ pc' = "idle"
    BY <1>9 DEF Failed
  <2> QED BY <1>18, <2>1 DEF Busy
<1>10. ASSUME NEW t, StageDone(t), Busy, stages' = stages, lost' = lost,
              NEW n, pid' = SkipPID(pid, n, st.status)
       PROVE  PktShape'
  <2>1. req'.in = req.in /\ req'.len = req.len /\ pc' = (IF stages = <<>> THEN "idle" ELSE "stage")
    BY <1>2, <1>10 DEF StageDone, ReqType
  <2>2. AfterSetup' = AfterSetup /\ StatusStage' = StatusStage
    BY <1>3, <2>1
  <2>3. CASE pid = "setup" /\ ~st.status /\ stages = AfterSetup
    <3>1. stages # <<>>
      BY <2>3, Tuples DEF AfterSetup
    <3>2. pid' = "data1"
      BY <1>10, <2>3 DEF SkipPID
    <3>3. Goal
      BY <1>1, <1>10, <2>1, <2>2, <2>3, <3>1, <3>2 DEF Busy
    <3> QED BY <1>18, <3>3
  <2>4. CASE pid \in DataPids /\ ~st.status /\ req.len > 0 /\ stages = <<StatusStage>>
    <3>1. stages # <<>>
      BY <2>4, Tuples
    <3>2. pid' \in DataPids
      BY <1>10, <2>4, Flips DEF SkipPID, DataPids
    <3>3. Goal
      BY <1>1, <1>10, <2>1, <2>2, <2>4, <3>1, <3>2 DEF Busy
    <3> QED BY <1>18, <3>3
  <2>5. CASE st.status /\ stages = <<>>
    <3>1. pid' = "setup"
      BY <1>10, <2>5 DEF SkipPID
    <3>2. Goal
      BY <1>10, <2>1, <2>5, <3>1 DEF Busy
    <3> QED BY <1>18, <3>2
  <2> QED BY <1>1, <1>10, <2>3, <2>4, <2>5
<1>11. Handling => Busy
  BY DEF Handling, Busy
<1>12. CASE NoSplitDone
  <2>1. /\ Handling /\ stages' = stages /\ lost' = lost /\ "err" \notin chan.int /\ st.state = "nosplit"
        /\ pid' = PIDAfter /\ Busy
    BY <1>11, <1>12 DEF NoSplitDone
  <2>2. CASE "nak" \in chan.int
    <3>1. pid' = pid /\ TransactionComplete = st
      BY <2>1, <2>2, Answered
    <3>2. st' = [st EXCEPT !.state = "delay"] /\ pc' = "delay" /\ req' = req
      BY <1>12, <2>2, <3>1 DEF NoSplitDone
    <3> QED BY <1>2, <1>4, <1>5, <2>1, <3>1, <3>2 DEF Busy
  <2>3. CASE "nak" \notin chan.int
    <3>1. StageDone(TransactionComplete)
      BY <1>12, <2>3 DEF NoSplitDone
    <3>2. ~split
      BY <2>1, Answered DEF StageRight
    <3>3. pid' = SkipPID(pid, PacketsMoved, st.status)
      BY <2>1, <2>3, <3>2, Answered DEF Reasons
    <3> QED BY <1>10, <2>1, <3>1, <3>3
  <2> QED BY <2>2, <2>3
<1>13. CASE SplitStarted
  <2>1. /\ Handling /\ stages' = stages /\ lost' = lost /\ st.state = "start" /\ pid' = pid /\ req' = req
        /\ pc' = "start" /\ st' = [TransactionComplete EXCEPT !.state = "complete"]
    BY <1>13 DEF SplitStarted, PIDAfter
  <2>2. st'.in = st.in /\ st'.status = st.status /\ st'.size = st.size
    BY <1>4, <2>1, CompleteFields
  <2> QED BY <1>5, <1>11, <2>1, <2>2 DEF Busy
<1>14. CASE SplitCompleted
  <2>1. Handling /\ Busy /\ st.state = "complete" /\ "err" \notin chan.int /\ stages' = stages /\ lost' = lost
    BY <1>11, <1>14 DEF SplitCompleted
  <2>2. split /\ StageRight
    BY <2>1, Answered DEF StageRight
  <2>3. \/ /\ pid' = pid \/ st.status
           /\ req' = req /\ (st' = st \/ st' = [st EXCEPT !.state = pc'])
           /\ pc' \in {"start", "delay"}
        \/ /\ pid' = SkipPID(pid, 1, st.status) /\ req' = req
           /\ st.packets # 1 /\ pc' \in {"start", "delay"}
           /\ st' = [TransactionComplete EXCEPT !.state = pc']
        \/ pid' = SkipPID(pid, 1, st.status) /\ StageDone(TransactionComplete)
    BY <1>14, <2>2, SplitAnswered
  <2>4. CASE /\ pid' = pid \/ st.status
             /\ req' = req /\ (st' = st \/ st' = [st EXCEPT !.state = pc'])
             /\ pc' \in {"start", "delay"}
    <3>1. st'.in = st.in /\ st'.status = st.status /\ st'.size = st.size
      <4>1. \A x : [st EXCEPT !.state = x].in = st.in /\ [st EXCEPT !.state = x].status = st.status
                  /\ [st EXCEPT !.state = x].size = st.size
        BY <1>2, <1>4
      <4>2. st' = st \/ st' = [st EXCEPT !.state = pc']
        BY <2>4
      <4> QED BY <4>1, <4>2
    <3>2. Busy' /\ pc' # "idle"
      BY <2>4 DEF Busy
    <3> QED BY <1>5, <2>1, <2>4, <3>1, <3>2
  <2>5. CASE /\ pid' = SkipPID(pid, 1, st.status) /\ req' = req
             /\ st.packets # 1 /\ pc' \in {"start", "delay"}
             /\ st' = [TransactionComplete EXCEPT !.state = pc']
    <3>1. ~Setting /\ ~st.status
      BY <2>1, <2>2, <2>5, SettingSingle DEF StageRight
    <3>2. pid \in DataPids /\ pid' \in DataPids
      BY <1>1, <2>1, <2>5, <3>1, Flips DEF SkipPID, Setting, DataPids
    <3>3. st'.in = st.in /\ st'.status = st.status /\ st'.size = st.size
      <4> DEFINE t == TransactionComplete
      <4>1. t \in StageType /\ t.in = st.in /\ t.status = st.status /\ t.size = st.size
        BY CompleteFields
      <4>2. st' = [t EXCEPT !.state = pc']
        BY <2>5
      <4> HIDE DEF t
      <4> QED BY <1>4, <4>1, <4>2
    <3>4. Goal
      BY <1>1, <1>3, <2>1, <2>5, <3>1, <3>2, <3>3 DEF Busy, DataPids, Setting
    <3> QED BY <1>18, <3>4
  <2>6. CASE pid' = SkipPID(pid, 1, st.status) /\ StageDone(TransactionComplete)
    BY <1>10, <2>1, <2>6
  <2> QED BY <2>3, <2>4, <2>5, <2>6
<1>15. CASE TimerHandler
  <2>1. pc = "delay" /\ pc' = "start" /\ pid' = pid /\ req' = req /\ stages' = stages /\ lost' = lost
    BY <1>15 DEF TimerHandler
  <2>2. st'.in = st.in /\ st'.status = st.status /\ st'.size = st.size
    BY <1>2, <1>4, <1>15 DEF TimerHandler
  <2> QED BY <1>5, <2>1, <2>2 DEF Busy
<1>16. CASE ResetPID
  BY <1>16 DEF ResetPID
<1>17. CASE HubAccepts \/ NotReady \/ HubAcks \/ Halts \/ BusFails \/ SetupArrives \/ StatusPacket \/ DataOut \/ DataIn
            \/ DataRepeated \/ Stalls
  <2>1. pid' = pid /\ req' = req /\ stages' = stages /\ pc' = pc /\ st' = st /\ pc = "run" /\ lost' = lost
    BY <1>17 DEF HubAccepts, NotReady, HubAcks, Halts, BusFails, SetupArrives, StatusPacket, DataOut, DataIn,
                 DataRepeated, Stalls, DataStage, ChannelRuns
  <2> QED BY <1>5, <2>1 DEF Busy
<1> QED BY <1>6, <1>7, <1>8, <1>9, <1>12, <1>13, <1>14, <1>15, <1>16, <1>17 DEF PktNext
-----------------------------------------------------------------------------
(* Every step keeps caller and device in agreement.                        *)

LEMMA SubmitSync ==
    ASSUME PktTypes, PktShape, Sync, ~lost, NEW in \in BOOLEAN, NEW len \in Sizes, Submit(in, len)
    PROVE  Sync' /\ SchedRight'
<1>1. /\ pc = "idle" /\ pc' = "stage" /\ pid' = pid /\ peer' = peer /\ type' = type /\ buf' = <<>>
      /\ req'.in = in /\ req'.first = mark /\ (type # "control" => in = req.in)
  BY DEF Submit, fixed
<1>2. mark \in Int
  BY DEF PktTypes
<1>3. Filled(0)'
  <2>1. [i \in 1 .. 0 |-> req'.first + i - 1] = <<>>
    OBVIOUS
  <2> QED BY <1>1, <2>1 DEF Filled
<1>4. ~peer.bad /\ IdleSync
  BY <1>1 DEF Sync
<1>5. StageSync'
  <2>1. CASE type = "control"
    <3>1. pid = "setup"
      BY <1>1, <2>1 DEF PktShape
    <3> QED BY <1>1, <1>3, <2>1, <3>1 DEF StageSync, Setting, Begun
  <2>2. CASE type # "control"
    <3>1. mark + 0 = mark
      BY <1>2
    <3>2. IF req.in THEN InSync(pid, mark) ELSE OutSync(pid, mark)
      BY <1>4, <2>2 DEF IdleSync
    <3>3. AtRest(pid, 0)'
      BY <1>1, <1>3, <2>2, <3>1, <3>2 DEF AtRest, InSync, OutSync
    <3> QED BY <1>1, <2>2, <3>3 DEF StageSync
  <2> QED BY <2>1, <2>2
<1> QED BY <1>1, <1>4, <1>5 DEF Sync, SchedRight, Busy

LEMMA TransferSync ==
    ASSUME PktTypes, PktShape, Sync, ~lost, PktTypes', PktShape', TransferStage
    PROVE  Sync' /\ SchedRight'
<1> DEFINE h == Head(stages)
<1>1. /\ pc = "stage" /\ pc' = "start" /\ pid' = pid /\ peer' = peer /\ type' = type /\ split' = split
      /\ req' = req /\ buf' = buf /\ st' = NewStage(h)
      /\ sched' = (IF split THEN StartSplit(NoSched) ELSE NoSched)
  BY DEF TransferStage, fixed
<1>2. h.in \in BOOLEAN /\ h.status \in BOOLEAN
  BY <1>1, HeadStage
<1> HIDE DEF h
<1>3. /\ st' \in StageType /\ st'.in = h.in /\ st'.status = h.status
      /\ st'.size = (IF h.status THEN 0 ELSE IF pid = "setup" THEN SetupSize ELSE req.len)
      /\ st'.total = 0
      /\ st'.packets = (IF h.status THEN 1 ELSE Ceil(st'.size))
      /\ st'.bytesPer = (IF split THEN Smaller(st'.size, MaxPacket) ELSE st'.size)
      /\ st'.packetsPer = (IF split THEN 1 ELSE st'.packets)
      /\ st'.state = (IF split THEN "start" ELSE "nosplit")
  BY <1>1, <1>2, NewStageFields
<1>4. ~h.status => st'.size > 0
  <2>1. Busy'
    BY <1>1 DEF Busy
  <2>2. ~st'.status => (st'.size = req.len /\ req.len > 0) \/ st'.size = SetupSize
    BY <1>1, <2>1 DEF PktShape
  <2> QED BY <1>3, <2>2 DEF SetupSize
<1>5. st'.size \in Nat /\ MaxPacket \in Nat \ {0} /\ st'.size - 0 = st'.size
  BY <1>3, PacketConstants DEF StageType
<1>6. StageRight'
  <2>1. st'.total \in 0 .. st'.size /\ (Setting' => st'.total = 0)
    BY <1>3, <1>5
  <2>2. st'.packets >= 1 /\ (st'.status => st'.packets = 1)
    BY <1>3, <1>4, <1>5, CeilFacts
  <2>3. ~split => st'.total = 0 /\ st'.bytesPer = st'.size /\ st'.packetsPer = st'.packets
    BY <1>3
  <2>4. split => st'.packetsPer = 1 /\ st'.bytesPer = Smaller(MaxPacket, st'.size - st'.total)
    BY <1>3, <1>5 DEF Smaller
  <2>5. ~st'.status => st'.total < st'.size /\ st'.packets = Ceil(st'.size - st'.total)
    BY <1>3, <1>4, <1>5
  <2>6. Ceil(st.size - st.total)' = Ceil(st'.size - st'.total)
    BY DEF Ceil
  <2> QED BY <1>1, <1>3, <2>1, <2>2, <2>3, <2>4, <2>5, <2>6 DEF StageRight
<1>7. ~peer.bad /\ StageSync
  BY <1>1 DEF Sync
<1>8. StartSync'
  <2>1. /\ Begun' = Begun /\ Transferred' = Transferred /\ Setting' = Setting
        /\ \A p, d : AtRest(p, d)' = AtRest(p, d)
    BY <1>1 DEF Begun, Transferred, Filled, Setting, AtRest, InSync, OutSync
  <2>2. CASE type # "control" /\ AtRest(pid, 0)
    <3>1. ~h.status
      BY <1>1, <2>2, Tuples DEF PktShape, StageOf, Setting, h
    <3>2. DataSync(pid, st.total, Smaller(st.bytesPer, MaxPacket))'
      BY <1>1, <1>3, <2>1, <2>2 DEF DataSync
    <3> QED BY <1>1, <1>3, <2>1, <2>2, <3>1, <3>2 DEF StartSync, Setting
  <2>3. CASE Setting /\ Begun
    <3>1. stages = AllStages
      BY <1>1, <2>3 DEF PktShape, Setting, DataPids
    <3>2. Head(AllStages) = StageOf(FALSE, FALSE)
      BY Tuples DEF AllStages
    <3>4. ~StageOf(FALSE, FALSE).status
      BY DEF StageOf
    <3>3. ~st'.status
      BY <1>3, <3>1, <3>2, <3>4 DEF h
    <3> QED BY <2>1, <2>3, <3>3 DEF StartSync
  <2>4. CASE type = "control" /\ pid = "data1" /\ stages = AfterSetup /\ Begun /\ Fresh /\ req.result = SetupSize
    <3>1. CASE req.len = 0
      <4>1. h = StatusStage
        BY <2>4, <3>1, Tuples DEF AfterSetup, h
      <4>2. h.status
        BY <4>1 DEF StatusStage, StageOf
      <4>3. Transferred
        <5>1. ~req.in
          BY <1>1, <3>1 DEF PktShape
        <5>2. req.first + 0 = req.first
          BY TypeFields
        <5> QED BY <2>4, <3>1, <5>1, <5>2 DEF Transferred, Fresh
      <4> QED BY <1>3, <2>1, <4>2, <4>3 DEF StartSync
    <3>2. CASE req.len # 0
      <4>1. h = StageOf(req.in, FALSE)
        BY <2>4, <3>2, Tuples DEF AfterSetup, h
      <4>2. h.status = FALSE
        BY <4>1 DEF StageOf
      <4>3. AtRest(pid, 0)
        <5>1. req.first + 0 = req.first
          BY TypeFields
        <5> QED BY <2>4, <5>1 DEF AtRest, Fresh, Begun, InSync, OutSync
      <4>4. DataSync(pid, st.total, Smaller(st.bytesPer, MaxPacket))'
        BY <1>1, <1>3, <2>1, <4>3 DEF DataSync
      <4>5. ~Setting'
        BY <1>1, <2>4 DEF Setting
      <4> QED BY <1>3, <4>2, <4>4, <4>5 DEF StartSync
    <3> QED BY <3>1, <3>2
  <2>5. CASE type = "control" /\ pid # "setup" /\ stages = <<StatusStage>> /\ Transferred
    <3>1. h = StatusStage
      BY <2>5, Tuples DEF h
    <3>2. h.status
      BY <3>1 DEF StatusStage, StageOf
    <3> QED BY <1>3, <2>1, <2>5, <3>2 DEF StartSync
  <2> QED BY <1>7, <2>2, <2>3, <2>4, <2>5 DEF StageSync
<1>9. SchedRight'
  <2>1. split => sched'.state = "start" /\ sched'.next = 8
    BY <1>1 DEF StartSplit, NoSched, Unset
  <2>2. split => st'.state = "start"
    BY <1>3
  <2> QED BY <1>1, <2>1, <2>2 DEF SchedRight
<1> QED BY <1>1, <1>6, <1>7, <1>8, <1>9 DEF Sync

(* What does not depend on the step.                                       *)
LEMMA SyncFrame ==
    ASSUME req' = req, peer'.tog = peer.tog, peer'.next = peer.next, peer'.pkt = peer.pkt,
           buf' = buf, type' = type, pid' = pid
    PROVE  /\ Begun' = Begun /\ Transferred' = Transferred /\ Setting' = Setting /\ Fresh' = Fresh
           /\ \A p, d : AtRest(p, d)' = AtRest(p, d)
           /\ \A p, d, n : DataSync(p, d, n)' = DataSync(p, d, n)
<1>1. /\ Begun' = Begun /\ Transferred' = Transferred /\ Setting' = Setting /\ Fresh' = Fresh
      /\ \A p, d : AtRest(p, d)' = AtRest(p, d)
  BY DEF Begun, Transferred, Filled, Setting, AtRest, InSync, OutSync, Fresh
<1> QED BY <1>1 DEF DataSync, OutSync

(* The bytes of a packet.                                                  *)
LEMMA StageCounts ==
    ASSUME PktTypes, StageRight, ~st.status
    PROVE  /\ st.total \in Nat /\ st.bytesPer \in Nat /\ st.packets \in Nat /\ st.packetsPer \in Nat
           /\ st.packetsPer > 0 /\ st.total + st.bytesPer <= st.size
           /\ (~split => st.total + st.bytesPer = st.size /\ st.bytesPer > 0 /\ st.packetsPer = Ceil(st.bytesPer))
           /\ (split /\ ~st.in => st.bytesPer > 0)
<1>1. /\ st.total \in 0 .. st.size /\ st.packets >= 1
      /\ (~split => st.total = 0 /\ st.bytesPer = st.size /\ st.packetsPer = st.packets)
      /\ (split => st.packetsPer = 1 /\ st.bytesPer = Smaller(MaxPacket, st.size - st.total))
      /\ (~st.in \/ ~split => st.total < st.size /\ st.packets = Ceil(st.size - st.total))
  BY DEF StageRight
<1>2. MaxPacket \in Nat \ {0} /\ st.size \in Nat /\ st.bytesPer \in Int /\ st.packets \in Int /\ st.packetsPer \in Int
  BY TypeFields
<1>3. st.total \in Nat /\ st.packets \in Nat /\ st.packetsPer \in Nat /\ st.packetsPer > 0
  BY <1>1, <1>2
<1>4. CASE split
  BY <1>1, <1>2, <1>3, <1>4 DEF Smaller
<1>5. CASE ~split
  <2>1. st.size - st.total = st.size
    BY <1>1, <1>2, <1>5
  <2> QED BY <1>1, <1>2, <1>3, <1>5, <2>1
<1> QED BY <1>4, <1>5

LEMMA StartSyncKept ==
    ASSUME PktTypes, PktShape, Sync, SchedRight, ~lost, PktTypes', StartChannel
    PROVE  Sync' /\ SchedRight'
<1>1. /\ pc = "start" /\ pc' = "run" /\ pid' = pid /\ peer' = peer /\ type' = type /\ split' = split
      /\ req' = req /\ buf' = buf /\ st' = st
  BY DEF StartChannel, fixed, request
<1>2. PICK f \in FramesAfter(sched) : sched' = [sched EXCEPT !.next = f] /\ chan' = Programmed(f)
  BY DEF StartChannel
<1>3. /\ chan'.bytes = st.bytesPer /\ chan'.packets = st.packetsPer /\ chan'.pid = GetNextPID(st.status)
      /\ chan'.addr = st.total /\ chan'.frame = f /\ chan'.int = {}
  BY <1>2 DEF Programmed
<1>4. ~peer.bad /\ StageRight /\ StartSync
  BY <1>1 DEF Sync, Busy
<1>5. Untouched'
  BY <1>1, <1>3 DEF Untouched, GetNextPID
<1>6. StageRight'
  BY <1>1, <1>4 DEF StageRight, Setting, Ceil
<1>7. Reasons' /\ SingleRight'
  BY <1>3, <1>5 DEF Reasons, SingleRight
<1>8. ~st.status => DataRight'
  <2> HAVE ~st.status
  <2>1. chan'.pid = pid
    BY <1>3 DEF GetNextPID
  <2>2. PacketsMoved' = 0
    BY <1>1, <1>3, TypeFields DEF PacketsMoved
  <2>3. Parity(PacketsMoved)' = pid
    BY <1>1, <2>2 DEF Parity
  <2>4. /\ st.total \in Nat /\ st.bytesPer \in Nat /\ st.packetsPer > 0
        /\ (~split => st.total + st.bytesPer = st.size /\ st.bytesPer > 0 /\ st.packetsPer = Ceil(st.bytesPer))
    BY <1>4, StageCounts
  <2>5. SplitRight'
    BY <1>3, <1>5 DEF SplitRight
  <2>6. ~split => WholeRight'
    <3>1. Ceil(chan.bytes)' = Ceil(st.bytesPer)
      BY <1>3 DEF Ceil
    <3> QED BY <1>1, <1>3, <1>5, <2>4, <3>1 DEF WholeRight
  <2> QED BY <1>1, <1>3, <2>1, <2>2, <2>3, <2>4, <2>5, <2>6 DEF DataRight
<1>9. RunSync'
  <2>1. CASE Setting /\ ~st.status /\ Begun
    BY <1>1, <1>3, <1>7, <2>1, SyncFrame DEF RunSync
  <2>2. CASE ~Setting /\ ~st.status /\ DataSync(pid, st.total, Smaller(st.bytesPer, MaxPacket))
    <3>1. chan'.pid = pid /\ Smaller(chan.bytes, MaxPacket)' = Smaller(st.bytesPer, MaxPacket)
      BY <1>3, <2>2 DEF GetNextPID, Smaller
    <3>2. DataSync(chan.pid, chan.addr, Smaller(chan.bytes, MaxPacket))'
      BY <1>1, <1>3, <2>2, <3>1 DEF DataSync, AtRest, InSync, OutSync, Filled
    <3> QED BY <1>1, <1>3, <1>7, <1>8, <2>2, <3>2, SyncFrame DEF RunSync
  <2>3. CASE st.status /\ Transferred
    BY <1>1, <1>7, <2>3, SyncFrame DEF RunSync
  <2> QED BY <1>4, <2>1, <2>2, <2>3 DEF StartSync
<1>10. SchedRight'
  <2>1. sched \in SchedType
    BY DEF PktTypes
  <2>2. sched'.state = sched.state /\ sched'.tries = sched.tries /\ sched'.next = f
    BY <1>2, <2>1 DEF SchedType
  <2>3. split /\ IsPeriodic => f \in 0 .. 7 /\ (st.state = "complete" => f = sched.next)
    <3>1. split /\ IsPeriodic => sched.next \in 0 .. 8 /\ (st.state = "complete" => sched.next \in 0 .. 7)
      BY <1>1 DEF SchedRight
    <3> QED BY <1>2, <3>1 DEF FramesAfter, Unset
  <2> QED BY <1>1, <1>3, <2>2, <2>3 DEF SchedRight, IsPeriodic
<1> QED BY <1>1, <1>4, <1>6, <1>9, <1>10 DEF Sync

(* The transaction is tried again from its start.                          *)
LEMMA BackToStart ==
    ASSUME PktTypes, PktShape, Sync, pc = "run", chan.int \in {{"halted"}, {"nak"}, {"nyet"}, {"ack"}}
    PROVE  StartSync
<1>1. RunSync /\ chan.int # {"err"} /\ chan.int # {"xfer"} /\ chan.int # {}
  BY DEF Sync
<1>2. CASE Setting /\ ~st.status /\ Begun
  BY <1>2 DEF StartSync
<1>3. CASE ~Setting /\ ~st.status /\ DataRight /\ DataSync(chan.pid, chan.addr, Smaller(chan.bytes, MaxPacket))
  <2>1. Untouched
    BY <1>1, <1>3 DEF DataRight, SplitRight, WholeRight
  <2>2. chan.pid = pid /\ chan.addr = st.total /\ chan.bytes = st.bytesPer
    BY <1>3, <2>1 DEF Untouched, GetNextPID
  <2> QED BY <1>3, <2>2 DEF StartSync
<1>4. CASE st.status /\ Transferred
  BY <1>4 DEF StartSync
<1> QED BY <1>1, <1>2, <1>3, <1>4 DEF RunSync

LEMMA RestartSync ==
    ASSUME PktTypes, PktShape, Sync, SchedRight, ~lost, RestartHalted
    PROVE  Sync' /\ SchedRight'
<1>1. /\ pc = "run" /\ pc' = "start" /\ pid' = pid /\ peer' = peer /\ type' = type /\ split' = split
      /\ req' = req /\ buf' = buf /\ st' = st /\ sched' = sched /\ chan' = chan /\ chan.int = {"halted"}
  BY DEF RestartHalted, fixed, request
<1>2. ~peer.bad /\ StageRight /\ StartSync
  BY <1>1, BackToStart DEF Sync, Busy
<1>3. StartSync'
  BY <1>1, <1>2, SyncFrame DEF StartSync, Smaller
<1>4. StageRight'
  BY <1>1, <1>2 DEF StageRight, Setting, Ceil
<1>5. SchedRight'
  BY <1>1 DEF SchedRight, IsPeriodic
<1> QED BY <1>1, <1>2, <1>3, <1>4, <1>5 DEF Sync

LEMMA TimerSync ==
    ASSUME PktTypes, PktShape, Sync, ~lost, TimerHandler
    PROVE  Sync' /\ SchedRight'
<1> DEFINE x == IF split THEN "start" ELSE "nosplit"
<1>1. /\ pc = "delay" /\ pc' = "start" /\ pid' = pid /\ peer' = peer /\ type' = type /\ split' = split
      /\ req' = req /\ buf' = buf /\ st' = [st EXCEPT !.state = x]
      /\ sched' = IF split THEN StartSplit(sched) ELSE sched
  BY DEF TimerHandler, fixed, request
<1>2. st \in StageType /\ sched \in SchedType /\ x \in {"start", "nosplit"}
  BY DEF PktTypes
<1> HIDE DEF x
<1>3. /\ st'.in = st.in /\ st'.status = st.status /\ st'.size = st.size /\ st'.total = st.total
      /\ st'.packets = st.packets /\ st'.bytesPer = st.bytesPer /\ st'.packetsPer = st.packetsPer
      /\ st'.state = x
  BY <1>1, <1>2 DEF StageType
<1>4. ~peer.bad /\ StageRight /\ StartSync
  BY <1>1 DEF Sync, Busy
<1>5. StartSync'
  BY <1>1, <1>3, <1>4, SyncFrame DEF StartSync, Smaller
<1>6. StageRight'
  BY <1>1, <1>3, <1>4 DEF StageRight, Setting, Ceil, x
<1>7. SchedRight'
  <2>1. split => sched'.state = "start" /\ sched'.next = 8
    BY <1>1, <1>2 DEF StartSplit, Unset, SchedType
  <2>2. split => st'.state = "start"
    BY <1>3 DEF x
  <2> QED BY <1>1, <2>1, <2>2 DEF SchedRight
<1> QED BY <1>1, <1>4, <1>5, <1>6, <1>7 DEF Sync

(* After a reset both sides begin with DATA0.                              *)
LEMMA ResetSync ==
    ASSUME PktTypes, ResetPID
    PROVE  Sync' /\ SchedRight'
<1>1. /\ pc' = "idle" /\ pid' = "data0" /\ peer' = [peer EXCEPT !.tog = "data0", !.pkt = -1, !.bad = FALSE]
      /\ mark' = peer.next /\ req' = [req EXCEPT !.status = 0]
  BY DEF ResetPID
<1>2. peer \in PeerType /\ req \in ReqType
  BY DEF PktTypes
<1>3. peer'.tog = "data0" /\ peer'.pkt = -1 /\ peer'.bad = FALSE /\ peer'.next = peer.next
  BY <1>1, <1>2 DEF PeerType
<1>4. req'.status = 0
  BY <1>1, <1>2 DEF ReqType
<1>5. IdleSync'
  BY <1>1, <1>3, <1>4 DEF IdleSync, InSync, OutSync
<1> QED BY <1>1, <1>3, <1>5 DEF Sync, SchedRight, Busy

(* The controller or the device ends the transaction where it began.       *)
LEMMA RunsUntouched ==
    ASSUME PktTypes, PktShape, Sync, ChannelRuns, split \/ IsPeriodic \/ chan.packets = st.packetsPer
    PROVE  Untouched
<1>1. RunSync /\ StageRight /\ chan.int = {} /\ Busy /\ pc = "run"
  BY DEF Sync, ChannelRuns, Busy
<1>2. CASE Setting \/ st.status
  BY <1>1, <1>2 DEF RunSync, SingleRight
<1>3. CASE ~Setting /\ ~st.status
  <2>1. DataRight
    BY <1>1, <1>3 DEF RunSync
  <2>2. CASE split
    BY <1>1, <2>1, <2>2 DEF DataRight, SplitRight
  <2>3. CASE ~split
    <3>1. PacketsMoved = 0
      <4>1. CASE IsPeriodic
        <5>1. st.in /\ st.size = req.len /\ req.len <= MaxPacket
          BY <1>1, <4>1 DEF PktShape, IsPeriodic, Setting
        <5>2. st.packetsPer = Ceil(st.bytesPer) /\ st.bytesPer > 0 /\ st.bytesPer \in Nat /\ st.bytesPer <= MaxPacket
          BY <1>1, <1>3, <2>3, <5>1, StageCounts, TypeFields DEF StageRight
        <5>3. st.packetsPer = 1
          BY <5>2, CeilFacts
        <5>4. chan.packets > 0 /\ PacketsMoved \in Nat
          BY <1>1, <2>1, <2>3, <5>1 DEF DataRight, WholeRight
        <5> QED BY <5>3, <5>4, TypeFields DEF PacketsMoved
      <4>2. CASE chan.packets = st.packetsPer
        BY <4>2, TypeFields DEF PacketsMoved
      <4> QED BY <2>3, <4>1, <4>2
    <3> QED BY <2>1, <2>3, <3>1 DEF DataRight, WholeRight
  <2> QED BY <2>2, <2>3
<1> QED BY <1>2, <1>3

LEMMA EndsSync ==
    ASSUME PktTypes, PktShape, Sync, SchedRight, ChannelRuns, NEW b, Ends(b),
           UNCHANGED <<type, split, pid, req, stages, pc, st, sched, buf>>,
           peer'.tog = peer.tog, peer'.next = peer.next, peer'.pkt = peer.pkt, peer'.bad = peer.bad,
           (peer'.hub = peer.hub /\ peer'.setup = peer.setup) \/ st.state = "start",
           b = {"ack"} /\ st.state = "start" =>
               peer'.hub = chan.frame /\ peer'.setup = (~st.status /\ pid = "setup"),
           b = {"err"} \/ (Reasons' /\ b # {"xfer"} /\ Untouched)
    PROVE  Sync' /\ SchedRight'
<1>1. chan \in ChanType
  BY DEF PktTypes
<1>2. /\ chan'.bytes = chan.bytes /\ chan'.packets = chan.packets /\ chan'.pid = chan.pid
      /\ chan'.addr = chan.addr /\ chan'.frame = chan.frame /\ chan'.int = b
  BY <1>1 DEF Ends, ChanType
<1>3. ~peer.bad /\ StageRight /\ RunSync /\ chan.int = {} /\ pc = "run"
  BY DEF Sync, ChannelRuns, Busy
<1>4. StageRight'
  BY <1>3 DEF StageRight, Setting, Ceil
<1>5. SchedRight'
  <2>1. split => st.state \in {"start", "complete"}
    BY <1>3 DEF StageRight
  <2>2. CASE st.state = "start"
    BY <1>2, <1>3, <2>2 DEF SchedRight, IsPeriodic
  <2>3. CASE st.state = "complete"
    BY <1>2, <1>3, <2>3 DEF SchedRight, IsPeriodic
  <2> QED BY <2>1, <2>2, <2>3 DEF SchedRight
<1>6. RunSync'
  <2>1. CASE b = {"err"}
    BY <1>2, <2>1 DEF RunSync
  <2>2. CASE Reasons' /\ b # {"xfer"} /\ Untouched
    <3>1. Untouched'
      BY <1>2, <2>2 DEF Untouched, GetNextPID
    <3>2. SingleRight' /\ SplitRight'
      BY <1>2, <2>2, <3>1 DEF SingleRight, SplitRight
    <3>3. DataRight => DataRight'
      <4> HAVE DataRight
      <4>1. /\ PacketsMoved' = PacketsMoved /\ Parity(PacketsMoved)' = Parity(PacketsMoved)
            /\ Ceil(chan.bytes)' = Ceil(chan.bytes)
        BY <1>2 DEF PacketsMoved, Parity, Ceil
      <4>2. ~split => WholeRight'
        BY <1>2, <1>3, <2>2, <3>1, <4>1 DEF DataRight, WholeRight
      <4> QED BY <1>2, <3>2, <4>1, <4>2 DEF DataRight
    <3>4. DataSync(chan.pid, chan.addr, Smaller(chan.bytes, MaxPacket))
            => DataSync(chan.pid, chan.addr, Smaller(chan.bytes, MaxPacket))'
      BY <1>2 DEF DataSync, AtRest, InSync, OutSync, Filled, Smaller
    <3> QED BY <1>2, <1>3, <2>2, <3>2, <3>3, <3>4, SyncFrame DEF RunSync
  <2> QED BY <2>1, <2>2
<1> QED BY <1>3, <1>4, <1>5, <1>6 DEF Sync

LEMMA EndingSync ==
    ASSUME PktTypes, PktShape, Sync, SchedRight,
           HubAccepts \/ NotReady \/ HubAcks \/ Halts \/ BusFails \/ Stalls, ~odd'
    PROVE  Sync' /\ SchedRight'
<1> USE DEF fixed, request
<1>1. peer \in PeerType /\ chan \in ChanType
  BY DEF PktTypes
<1>2. StageRight /\ pc = "run" /\ ChannelRuns
  BY DEF HubAccepts, NotReady, HubAcks, Halts, BusFails, Stalls, ChannelRuns, Sync, Busy
<1>3. \A b : Ends(b) => chan'.int = b
  BY <1>1 DEF Ends, ChanType
<1>4. UNCHANGED <<type, split, pid, req, stages, pc, st, sched, buf>>
  BY DEF HubAccepts, NotReady, HubAcks, Halts, BusFails, Stalls
<1>5. CASE HubAccepts
  <2> DEFINE f == chan.pid = "setup"
  <2>1. /\ Ends({"ack"}) /\ split /\ st.state = "start" /\ peer' = [peer EXCEPT !.hub = chan.frame, !.setup = f]
    BY <1>5 DEF HubAccepts, Starting
  <2>3. Reasons' /\ {"ack"} # {"xfer"} /\ Untouched
    BY <1>2, <1>3, <1>4, <2>1, RunsUntouched DEF Reasons
  <2>4. f = (~st.status /\ pid = "setup")
    BY <2>3 DEF Untouched, GetNextPID
  <2> HIDE DEF f
  <2>2. peer'.tog = peer.tog /\ peer'.next = peer.next /\ peer'.pkt = peer.pkt /\ peer'.bad = peer.bad
        /\ peer'.hub = chan.frame /\ peer'.setup = (~st.status /\ pid = "setup")
    BY <1>1, <2>1, <2>4 DEF PeerType
  <2> QED BY <1>2, <1>4, <2>1, <2>2, <2>3, EndsSync
<1>6. CASE NotReady
  <2>1. PICK b \in {{"nak"}, {"nyet"}} : Ends(b) /\ (split \/ IsPeriodic) /\ (b = {"nyet"} => split)
    BY <1>6 DEF NotReady
  <2>2. peer' = peer
    BY <1>6 DEF NotReady
  <2>3. Reasons' /\ Untouched
    BY <1>2, <1>3, <1>4, <2>1, RunsUntouched DEF Reasons, IsPeriodic
  <2>4. b # {"xfer"} /\ b # {"ack"}
    BY <2>1
  <2> QED BY <1>2, <1>4, <2>1, <2>2, <2>3, <2>4, EndsSync
<1>9. CASE HubAcks
  <2>1. Ends({"ack"}) /\ split /\ st.state = "complete" /\ peer' = peer /\ chan.pid # "setup"
    BY <1>9 DEF HubAcks
  <2>2. Untouched
    BY <1>2, <2>1, RunsUntouched
  <2>3. st.status \/ pid # "setup"
    BY <2>1, <2>2 DEF Untouched, GetNextPID
  <2>4. Reasons' /\ {"ack"} # {"xfer"}
    BY <1>3, <1>4, <2>1, <2>3 DEF Reasons
  <2> QED BY <1>2, <1>4, <2>1, <2>2, <2>4, EndsSync
<1>7. CASE Halts
  <2>1. Ends({"halted"}) /\ peer' = peer /\ chan.packets = st.packetsPer
    BY <1>7 DEF Halts
  <2>2. Reasons' /\ Untouched
    BY <1>2, <1>3, <1>4, <2>1, RunsUntouched DEF Reasons
  <2>3. {"halted"} # {"xfer"} /\ {"halted"} # {"ack"}
    OBVIOUS
  <2> QED BY <1>2, <1>4, <2>1, <2>2, <2>3, EndsSync
<1>8. CASE BusFails \/ Stalls
  <2>1. Ends({"err"}) /\ peer' = peer
    BY <1>8 DEF BusFails, Stalls
  <2>2. {"err"} # {"ack"}
    OBVIOUS
  <2> QED BY <1>2, <1>4, <2>1, <2>2, EndsSync
<1> QED BY <1>5, <1>6, <1>7, <1>8, <1>9

(* The channel after a packet.                                             *)
LEMMA MovedFields ==
    ASSUME PktTypes, NEW n, chan' = Moved(n)
    PROVE  /\ chan'.packets = chan.packets - 1
           /\ chan'.bytes = (IF split /\ ~st.in THEN chan.bytes ELSE chan.bytes - n)
           /\ chan'.addr = chan.addr + n /\ chan'.pid = Flip(chan.pid) /\ chan'.frame = chan.frame
           /\ chan'.int = (IF chan.packets - 1 = 0 \/ n < MaxPacket THEN {"xfer"} ELSE {})
<1> DEFINE left == chan.packets - 1
           bytes == IF split /\ ~st.in THEN chan.bytes ELSE chan.bytes - n
           addr == chan.addr + n
           p == Flip(chan.pid)
           b == IF left = 0 \/ n < MaxPacket THEN {"xfer"} ELSE {}
<1>1. chan' = [chan EXCEPT !.packets = left, !.bytes = bytes, !.addr = addr, !.pid = p, !.int = b]
  BY DEF Moved
<1>2. chan \in ChanType
  BY DEF PktTypes
<1> HIDE DEF left, bytes, addr, p, b
<1>3. chan'.packets = left /\ chan'.bytes = bytes /\ chan'.addr = addr /\ chan'.pid = p /\ chan'.int = b
      /\ chan'.frame = chan.frame
  BY <1>1, <1>2 DEF ChanType
<1> QED BY <1>3 DEF left, bytes, addr, p, b

(* A setup or a status packet.                                             *)
LEMMA SingleSync ==
    ASSUME PktTypes, PktShape, Sync, SchedRight, SetupArrives \/ StatusPacket
    PROVE  Sync' /\ SchedRight'
<1> USE DEF fixed, request
<1>1. /\ pc = "run" /\ chan.int = {} /\ (~split \/ st.state = "complete") /\ Busy
      /\ UNCHANGED <<type, split, pid, req, pc, st, sched, buf>>
  BY DEF SetupArrives, StatusPacket, ChannelRuns, Answerable, Busy
<1>2. ~peer.bad /\ StageRight /\ RunSync /\ chan.int # {"err"} /\ chan.int # {"xfer"} /\ peer \in PeerType
  BY <1>1 DEF Sync, PktTypes
<1>3. st.state # "start"
  BY <1>1, <1>2 DEF StageRight
<1>4. StageRight'
  BY <1>1, <1>2 DEF StageRight, Setting, Ceil
<1>5. CASE SetupArrives
  <2>1. SetupPacket /\ chan' = Moved(8)
        /\ peer' = [peer EXCEPT !.tog = "data1", !.next = req.first, !.pkt = -1, !.open = "data"]
    BY <1>5 DEF SetupArrives, SetupSize
  <2>2. Setting /\ ~st.status
    <3>3. CASE split
      <4>1. ~st.status /\ pid = "setup"
        BY <1>1, <2>1, <3>3 DEF SchedRight, SetupPacket
      <4> QED BY <4>1 DEF Setting, PktShape, DataPids
    <3>4. ~split => chan.pid = "setup"
      BY <2>1 DEF SetupPacket
    <3>1. CASE ~split /\ st.status
      <4>1. chan.pid = "data1"
        BY <1>2, <3>1 DEF RunSync, SingleRight, Untouched, GetNextPID
      <4> QED BY <3>1, <3>4, <4>1
    <3>2. CASE ~split /\ ~Setting /\ ~st.status
      <4>1. chan.pid = Parity(PacketsMoved)
        BY <1>2, <3>2 DEF RunSync, DataRight
      <4>2. pid # "setup"
        BY <3>2 DEF Setting, PktShape, DataPids
      <4> QED BY <3>2, <3>4, <4>1, <4>2 DEF Parity, Flip
    <3> QED BY <3>1, <3>2, <3>3
  <2>3. ~st.status /\ ~st.in /\ st.bytesPer = 8 /\ st.packetsPer = 1
    BY <1>1, <1>2, <2>2, SettingSingle DEF SetupSize
  <2>4. Begun /\ Untouched
    BY <1>2, <2>2, <2>3 DEF RunSync, SingleRight
  <2>5. chan.packets = 1 /\ chan.bytes = 8
    BY <2>3, <2>4 DEF Untouched
  <2>6. /\ chan'.packets = 0 /\ chan'.bytes = (IF split THEN 8 ELSE 0) /\ chan'.int = {"xfer"}
        /\ chan'.frame = chan.frame
    BY <2>1, <2>3, <2>5, MovedFields
  <2>7. /\ peer'.tog = "data1" /\ peer'.next = req.first /\ peer'.pkt = -1 /\ peer'.bad = peer.bad
        /\ peer'.hub = peer.hub /\ peer'.setup = peer.setup
    <3> DEFINE t == "data1"
               k == -1
               o == "data"
    <3>1. peer' = [peer EXCEPT !.tog = t, !.next = req.first, !.pkt = k, !.open = o]
      BY <2>1
    <3> HIDE DEF t, k, o
    <3>2. peer'.tog = t /\ peer'.next = req.first /\ peer'.pkt = k /\ peer'.bad = peer.bad
          /\ peer'.hub = peer.hub /\ peer'.setup = peer.setup
      BY <1>2, <3>1 DEF PeerType
    <3> QED BY <3>2 DEF t, k
  <2>8. Reasons' /\ SingleRight'
    BY <1>1, <1>3, <2>3, <2>6 DEF Reasons, SingleRight
  <2>9. Fresh' /\ Begun' /\ Setting'
    BY <1>1, <2>2, <2>4, <2>7 DEF Fresh, Begun, Filled, Setting
  <2>10. RunSync'
    BY <1>1, <2>3, <2>6, <2>8, <2>9 DEF RunSync
  <2>11. SchedRight'
    BY <1>1, <2>6, <2>7 DEF SchedRight, IsPeriodic
  <2> QED BY <1>1, <1>2, <1>4, <2>7, <2>10, <2>11 DEF Sync
<1>6. CASE StatusPacket
  <2>1. st.status /\ chan' = Moved(0) /\ peer' = [peer EXCEPT !.open = "no"]
    BY <1>6 DEF StatusPacket
  <2>2. Untouched /\ Transferred
    BY <1>2, <2>1 DEF RunSync, SingleRight
  <2>3. st.size = 0 /\ st.packets = 1
    BY <1>1, <1>2, <2>1 DEF PktShape, StageRight
  <2>4. st.packetsPer = 1 /\ (~split => st.bytesPer = 0)
    BY <1>2, <2>3 DEF StageRight, PktTypes
  <2>5. chan.packets = 1 /\ chan.bytes = st.bytesPer /\ st.bytesPer \in Int
    BY <2>2, <2>4, TypeFields DEF Untouched
  <2>6. /\ chan'.packets = 0 /\ chan'.bytes = (IF split THEN st.bytesPer ELSE 0) /\ chan'.int = {"xfer"}
        /\ chan'.frame = chan.frame
    BY <2>1, <2>4, <2>5, MovedFields
  <2>7. /\ peer'.tog = peer.tog /\ peer'.next = peer.next /\ peer'.pkt = peer.pkt /\ peer'.bad = peer.bad
        /\ peer'.hub = peer.hub /\ peer'.setup = peer.setup
    BY <1>2, <2>1 DEF PeerType
  <2>8. Reasons' /\ SingleRight'
    BY <1>1, <1>3, <2>4, <2>6 DEF Reasons, SingleRight
  <2>9. RunSync'
    BY <1>1, <2>1, <2>2, <2>7, <2>8, SyncFrame DEF RunSync
  <2>10. SchedRight'
    BY <1>1, <2>6, <2>7 DEF SchedRight, IsPeriodic
  <2> QED BY <1>1, <1>2, <1>4, <2>7, <2>9, <2>10 DEF Sync
<1> QED BY <1>5, <1>6

(* A data packet is on its way.                                            *)
LEMMA DataRunning ==
    ASSUME PktTypes, PktShape, Sync, SchedRight, DataStage
    PROVE  /\ pc = "run" /\ chan.int = {} /\ Busy /\ (~split \/ st.state = "complete") /\ st.state # "start"
           /\ ~Setting /\ ~st.status /\ pid \in DataPids /\ chan.pid \in DataPids /\ st.in = req.in
           /\ ~peer.bad /\ StageRight /\ DataRight
           /\ DataSync(chan.pid, chan.addr, Smaller(chan.bytes, MaxPacket))
<1>1. pc = "run" /\ chan.int = {} /\ Busy /\ (~split \/ st.state = "complete") /\ ~SetupPacket /\ ~st.status
  BY DEF DataStage, ChannelRuns, Answerable, Busy
<1>2. ~peer.bad /\ StageRight /\ RunSync /\ chan.int # {"err"} /\ chan.int # {"xfer"}
  BY <1>1 DEF Sync
<1>3. ~Setting
  <2>1. Setting => chan.pid = "setup"
    BY <1>1, <1>2 DEF RunSync, SingleRight, Untouched, GetNextPID, Setting
  <2>2. split => peer.setup = (pid = "setup")
    BY <1>1 DEF SchedRight
  <2> QED BY <1>1, <2>1, <2>2 DEF SetupPacket, Setting
<1>4. DataRight /\ DataSync(chan.pid, chan.addr, Smaller(chan.bytes, MaxPacket))
  BY <1>1, <1>2, <1>3 DEF RunSync
<1>5. pid \in DataPids /\ st.in = req.in
  BY <1>1, <1>3 DEF PktShape
<1>6. chan.pid \in DataPids
  BY <1>4, <1>5, Flips DEF DataRight, Parity
<1>7. st.state # "start"
  BY <1>1, <1>2 DEF StageRight
<1> QED BY <1>1, <1>2, <1>3, <1>4, <1>5, <1>6, <1>7

(* One more packet, and the other PID.                                     *)
LEMMA MovedParity ==
    ASSUME PktTypes, DataRight, pid \in DataPids, chan'.packets = chan.packets - 1,
           UNCHANGED <<st, pid>>
    PROVE  /\ PacketsMoved' = PacketsMoved + 1 /\ PacketsMoved' \in Nat /\ PacketsMoved' # 0
           /\ Parity(PacketsMoved)' = Flip(chan.pid)
<1>1. PacketsMoved \in Nat /\ chan.pid = Parity(PacketsMoved)
  BY DEF DataRight
<1>2. PacketsMoved' = PacketsMoved + 1
  BY TypeFields DEF PacketsMoved
<1> DEFINE k == PacketsMoved
<1>3. ((k + 1) % 2 = 1) <=> ~(k % 2 = 1)
  <2>1. k \in Nat
    BY <1>1
  <2> HIDE DEF k
  <2> QED BY <2>1
<1>4. Flip(Flip(pid)) = pid
  BY Flips
<1>5. Parity(PacketsMoved)' = IF (k + 1) % 2 = 1 THEN Flip(pid) ELSE pid
  BY <1>2 DEF Parity, Flip
<1>6. chan.pid = IF k % 2 = 1 THEN Flip(pid) ELSE pid
  BY <1>1 DEF Parity
<1> QED BY <1>1, <1>2, <1>3, <1>4, <1>5, <1>6

LEMMA DataOutSync ==
    ASSUME PktTypes, PktShape, Sync, SchedRight, DataOut
    PROVE  Sync' /\ SchedRight'
<1> USE DEF fixed, request
<1> DEFINE n == Smaller(chan.bytes, MaxPacket)
           first == req.first + chan.addr
<1>1. DataStage /\ ~st.in /\ UNCHANGED <<type, split, pid, req, pc, st, sched, buf>>
  BY DEF DataOut
<1>2. /\ pc = "run" /\ chan.int = {} /\ Busy /\ (~split \/ st.state = "complete") /\ st.state # "start"
      /\ ~Setting /\ ~st.status /\ pid \in DataPids /\ chan.pid \in DataPids /\ st.in = req.in
      /\ ~peer.bad /\ StageRight /\ DataRight
      /\ DataSync(chan.pid, chan.addr, n)
  BY <1>1, DataRunning
<1>3. peer' = IF chan.pid # peer.tog THEN peer
              ELSE [peer EXCEPT !.tog = Flip(peer.tog), !.next = first + n, !.bad = peer.bad \/ first # peer.next]
  BY DEF DataOut
<1>4. chan' = Moved(n) \/ chan' = chan
  BY DEF DataOut
<1>5. n \in Int /\ first \in Int /\ chan.bytes \in Int /\ MaxPacket \in Int
  <2>1. chan.bytes \in Int /\ MaxPacket \in Int /\ first \in Int
    BY TypeFields
  <2> QED BY <2>1, Smallest
<1>6. peer \in PeerType
  BY DEF PktTypes
<1>7. peer'.tog = Flip(chan.pid) /\ peer'.next = first + n /\ peer'.bad = FALSE /\ peer'.hub = peer.hub /\ peer'.setup = peer.setup
  <2>1. OutSync(chan.pid, first) \/ OutSync(Flip(chan.pid), first + n)
    BY <1>1, <1>2 DEF DataSync, AtRest
  <2>2. peer.bad = FALSE
    <3>1. peer.bad \in BOOLEAN
      BY <1>6 DEF PeerType
    <3> QED BY <1>2, <3>1
  <2>3. CASE OutSync(Flip(chan.pid), first + n)
    <3>1. peer.tog = Flip(chan.pid) /\ chan.pid # peer.tog
      BY <1>2, <2>3, Flips DEF OutSync
    <3> QED BY <1>3, <2>2, <2>3, <3>1 DEF OutSync
  <2>4. CASE OutSync(chan.pid, first)
    <3>1. peer.tog = chan.pid /\ peer.next = first
      BY <2>4 DEF OutSync
    <3> DEFINE t == Flip(peer.tog)
               x == first + n
               b == peer.bad \/ first # peer.next
    <3>2. b = FALSE
      BY <2>2, <3>1
    <3>3. peer' = [peer EXCEPT !.tog = t, !.next = x, !.bad = b]
      BY <1>3, <3>1
    <3> HIDE DEF t, x, b
    <3>4. peer'.tog = t /\ peer'.next = x /\ peer'.bad = b /\ peer'.hub = peer.hub /\ peer'.setup = peer.setup
      BY <1>6, <3>3 DEF PeerType
    <3> QED BY <3>1, <3>2, <3>4 DEF t, x
  <2> QED BY <2>1, <2>3, <2>4
<1>8. StageRight'
  BY <1>1, <1>2 DEF StageRight, Setting, Ceil
<1>9. CASE chan' = chan
  <2>1. DataSync(chan.pid, chan.addr, Smaller(chan.bytes, MaxPacket))'
    <3>1. OutSync(Flip(chan.pid), first + n)'
      BY <1>1, <1>7, <1>9 DEF OutSync, Flip, Smaller
    <3>2. ~req'.in
      BY <1>1, <1>2
    <3> QED BY <1>1, <1>9, <3>1, <3>2 DEF DataSync
  <2>2. DataRight' /\ Reasons' /\ ~Setting' /\ ~st'.status
    BY <1>1, <1>2, <1>9 DEF DataRight, Reasons, Setting, PacketsMoved, Parity, SplitRight, WholeRight, Untouched,
                            Flip, GetNextPID, Ceil
  <2>3. RunSync'
    BY <1>2, <1>9, <2>1, <2>2 DEF RunSync
  <2>4. SchedRight'
    BY <1>1, <1>2, <1>7, <1>9 DEF SchedRight, IsPeriodic
  <2> QED BY <1>1, <1>2, <1>7, <1>8, <2>3, <2>4 DEF Sync
<1>10. CASE chan' = Moved(n)
  <2>1. /\ chan'.packets = chan.packets - 1
        /\ chan'.bytes = (IF split THEN chan.bytes ELSE chan.bytes - n)
        /\ chan'.addr = chan.addr + n /\ chan'.pid = Flip(chan.pid) /\ chan'.frame = chan.frame
        /\ chan'.int = (IF chan.packets - 1 = 0 \/ n < MaxPacket THEN {"xfer"} ELSE {})
    BY <1>1, <1>10, MovedFields
  <2>2. AtRest(chan.pid, chan.addr)'
    <3>1. req.first + (chan.addr + n) = first + n
      BY <1>5, TypeFields
    <3>2. OutSync(chan.pid, req.first + chan.addr)'
      BY <1>1, <1>7, <2>1, <3>1 DEF OutSync
    <3> QED BY <1>1, <1>2, <3>2 DEF AtRest
  <2>3. /\ PacketsMoved' \in Nat /\ PacketsMoved' # 0 /\ chan'.pid = Parity(PacketsMoved)'
    BY <1>1, <1>2, <2>1, MovedParity
  <2>4. chan.bytes \in Nat /\ chan.addr \in Nat /\ n \in Nat /\ n <= chan.bytes
    BY <1>2, <1>5, Smallest, TypeFields DEF DataRight
  <2>5. chan'.addr \in Nat /\ chan'.bytes \in Nat
    BY <2>1, <2>4
  <2>6. ASSUME split
        PROVE  SplitRight'
    <3>1. Untouched /\ st.packetsPer = 1 /\ st.bytesPer <= MaxPacket
      BY <1>2, <1>5, <2>6, TypeFields DEF DataRight, SplitRight, StageRight, Smaller
    <3>2. chan.packets = 1 /\ chan.bytes = st.bytesPer /\ chan.addr = st.total
      BY <3>1 DEF Untouched
    <3>3. n = st.bytesPer
      BY <1>5, <3>1, <3>2 DEF Smaller
    <3>4. chan'.packets = 0 /\ chan'.int = {"xfer"} /\ chan'.bytes = st.bytesPer /\ chan'.addr = st.total + st.bytesPer
      BY <2>1, <2>6, <3>2, <3>3
    <3>5. chan'.addr = st'.total + st'.bytesPer - 0
      BY <1>1, <3>4, TypeFields
    <3> QED BY <1>1, <3>4, <3>5 DEF SplitRight
  <2>7. ASSUME ~split
        PROVE  WholeRight'
    <3>1. chan.addr + chan.bytes = st.size /\ chan.bytes > 0 /\ chan.packets = Ceil(chan.bytes)
      BY <1>1, <1>2, <2>7 DEF DataRight, WholeRight
    <3>2. chan'.addr + chan'.bytes = st.size
      BY <1>5, <2>1, <2>4, <2>7, <3>1
    <3>3. CASE chan.bytes <= MaxPacket
      <4>1. n = chan.bytes /\ chan.packets = 1
        BY <1>5, <2>4, <3>1, <3>3, CeilFacts DEF Smaller
      <4>2. chan'.int = {"xfer"} /\ chan'.bytes = 0
        BY <2>1, <2>4, <2>7, <4>1
      <4> QED BY <1>1, <2>3, <3>2, <4>2 DEF WholeRight
    <3>4. CASE chan.bytes > MaxPacket
      <4>1. n = MaxPacket /\ chan.packets > 1 /\ chan.packets = Ceil(chan.bytes - n) + 1
        BY <1>5, <2>4, <3>1, <3>4, CeilFacts DEF Smaller
      <4>2. chan'.int = {} /\ chan'.bytes > 0
        BY <1>5, <2>1, <2>4, <2>7, <3>4, <4>1, TypeFields
      <4>3. chan'.packets = Ceil(chan.bytes)'
        <5>1. Ceil(chan.bytes)' = Ceil(chan.bytes - n)
          BY <2>1, <2>7 DEF Ceil
        <5>2. Ceil(chan.bytes - n) \in Int
          BY <1>5, <2>4, CeilFacts
        <5> QED BY <2>1, <4>1, <5>1, <5>2
      <4> QED BY <1>1, <2>3, <3>2, <4>2, <4>3 DEF WholeRight
    <3> QED BY <1>5, <3>3, <3>4
  <2>8. DataRight'
    BY <1>1, <2>3, <2>5, <2>6, <2>7 DEF DataRight
  <2>9. Reasons' /\ ~Setting' /\ ~st'.status
    BY <1>1, <1>2, <2>1 DEF Reasons, Setting
  <2>10. RunSync'
    BY <2>2, <2>8, <2>9 DEF RunSync, DataSync
  <2>11. SchedRight'
    BY <1>1, <1>2, <1>7, <2>1 DEF SchedRight, IsPeriodic
  <2> QED BY <1>1, <1>2, <1>7, <1>8, <2>10, <2>11 DEF Sync
<1> QED BY <1>4, <1>9, <1>10

LEMMA AcknowledgedFields ==
    ASSUME PktTypes, NEW n, peer' = Acknowledged(n)
    PROVE  peer'.tog = Flip(peer.tog) /\ peer'.next = peer.next + n /\ peer'.pkt = -1
           /\ peer'.bad = peer.bad /\ peer'.hub = peer.hub /\ peer'.setup = peer.setup
<1> DEFINE t == Flip(peer.tog)
           x == peer.next + n
           k == -1
           o == IF type = "control" /\ n < MaxPacket THEN "status" ELSE peer.open
<1>1. peer' = [peer EXCEPT !.tog = t, !.next = x, !.pkt = k, !.open = o]
  BY DEF Acknowledged
<1>2. peer \in PeerType
  BY DEF PktTypes
<1> HIDE DEF t, x, k, o
<1>3. peer'.tog = t /\ peer'.next = x /\ peer'.pkt = k /\ peer'.bad = peer.bad /\ peer'.hub = peer.hub /\ peer'.setup = peer.setup
  BY <1>1, <1>2 DEF PeerType
<1> QED BY <1>3 DEF t, x, k

LEMMA DataInSync ==
    ASSUME PktTypes, PktShape, Sync, SchedRight, DataIn, ~odd'
    PROVE  Sync' /\ SchedRight'
<1> USE DEF fixed, request
<1>1. DataStage /\ st.in /\ chan.pid = peer.tog /\ UNCHANGED <<type, split, pid, req, pc, st, sched>>
  BY DEF DataIn
<1>2. /\ pc = "run" /\ chan.int = {} /\ Busy /\ (~split \/ st.state = "complete") /\ st.state # "start"
      /\ ~Setting /\ ~st.status /\ pid \in DataPids /\ chan.pid \in DataPids /\ st.in = req.in
      /\ ~peer.bad /\ StageRight /\ DataRight
      /\ DataSync(chan.pid, chan.addr, Smaller(chan.bytes, MaxPacket))
  BY <1>1, DataRunning
<1>3. PICK n \in Lengths :
        /\ chan' = Moved(n)
        /\ buf' = [i \in 1 .. chan.addr + n |->
                     IF i > chan.addr THEN peer.next + i - chan.addr - 1
                     ELSE IF i \in DOMAIN buf THEN buf[i] ELSE 0]
        /\ peer' = Acknowledged(n) \/ peer' = [peer EXCEPT !.pkt = n]
        /\ odd' = (odd \/ (split /\ n = 0))
  BY DEF DataIn
<1>4. peer.pkt = -1 /\ peer.next = req.first + chan.addr /\ Filled(chan.addr) /\ chan.addr \in Nat
  <2>1. InSync(chan.pid, req.first + chan.addr) /\ Filled(chan.addr)
    BY <1>1, <1>2 DEF DataSync, AtRest
  <2>2. peer.tog # Flip(chan.pid)
    BY <1>1, <1>2, Flips
  <2> QED BY <2>1, <2>2 DEF InSync, Filled
<1>5. n \in Nat /\ n <= MaxPacket /\ n <= chan.bytes /\ chan.bytes \in Nat /\ MaxPacket \in Nat /\ (split => n > 0)
  <2>1. n \in Shorts \union {MaxPacket} /\ n <= chan.bytes
    BY <1>4 DEF Lengths
  <2>2. n \in Nat /\ n <= MaxPacket /\ MaxPacket \in Nat
    BY <2>1, PacketConstants
  <2>3. chan.bytes \in Nat
    BY <1>2 DEF DataRight
  <2>4. split => n # 0
    BY <1>3
  <2> QED BY <2>1, <2>2, <2>3, <2>4
<1>6. /\ chan'.packets = chan.packets - 1
      /\ chan'.bytes = chan.bytes - n
      /\ chan'.addr = chan.addr + n /\ chan'.pid = Flip(chan.pid) /\ chan'.frame = chan.frame
      /\ chan'.int = (IF chan.packets - 1 = 0 \/ n < MaxPacket THEN {"xfer"} ELSE {})
  BY <1>1, <1>3, MovedFields
<1>7. req.first \in Int
  BY TypeFields
<1>8. Filled(chan.addr)'
  <2> DEFINE a == chan.addr
             f == req.first
  <2>1. chan'.addr = a + n /\ a + n \in Nat /\ req'.first = f /\ a \in Nat /\ f \in Int
    BY <1>1, <1>4, <1>5, <1>6, <1>7
  <2>2. buf = [i \in 1 .. a |-> f + i - 1]
    BY <1>4 DEF Filled
  <2>3. buf' = [i \in 1 .. a + n |->
                  IF i > a THEN (f + a) + i - a - 1 ELSE IF i \in DOMAIN buf THEN buf[i] ELSE 0]
    BY <1>3, <1>4
  <2> HIDE DEF a, f
  <2>4. ASSUME NEW i \in 1 .. a + n
        PROVE  (IF i > a THEN (f + a) + i - a - 1 ELSE IF i \in DOMAIN buf THEN buf[i] ELSE 0) = f + i - 1
    BY <1>5, <2>1, <2>2
  <2>5. buf' = [i \in 1 .. a + n |-> f + i - 1]
    BY <2>3, <2>4
  <2> QED BY <2>1, <2>5 DEF Filled
<1>9. peer'.bad = peer.bad /\ peer'.hub = peer.hub /\ peer'.setup = peer.setup /\ InSync(chan.pid, req.first + chan.addr)'
  <2>1. peer.next + n = req.first + (chan.addr + n)
    BY <1>4, <1>5, <1>7
  <2>2. CASE peer' = Acknowledged(n)
    <3>1. peer'.tog = Flip(peer.tog) /\ peer'.next = peer.next + n /\ peer'.pkt = -1
          /\ peer'.bad = peer.bad /\ peer'.hub = peer.hub /\ peer'.setup = peer.setup
      BY <2>2, AcknowledgedFields
    <3>2. peer'.tog = chan'.pid /\ peer'.next = req'.first + chan'.addr
      BY <1>1, <1>6, <2>1, <3>1
    <3> QED BY <3>1, <3>2 DEF InSync
  <2>3. CASE peer' = [peer EXCEPT !.pkt = n]
    <3>1. peer'.tog = peer.tog /\ peer'.next = peer.next /\ peer'.pkt = n /\ peer'.bad = peer.bad
          /\ peer'.hub = peer.hub /\ peer'.setup = peer.setup
      BY <2>3 DEF PktTypes, PeerType
    <3>2. peer'.tog = Flip(chan'.pid) /\ peer'.next + peer'.pkt = req'.first + chan'.addr /\ peer'.pkt # -1
      BY <1>1, <1>2, <1>5, <1>6, <2>1, <3>1, Flips
    <3>3. Flip(chan.pid)' = Flip(chan'.pid)
      BY DEF Flip
    <3> QED BY <3>1, <3>2, <3>3 DEF InSync, Flip
  <2> QED BY <1>3, <2>2, <2>3
<1>10. AtRest(chan.pid, chan.addr)'
  BY <1>1, <1>2, <1>8, <1>9 DEF AtRest
<1>11. /\ PacketsMoved' \in Nat /\ PacketsMoved' # 0 /\ chan'.pid = Parity(PacketsMoved)'
  BY <1>1, <1>2, <1>6, MovedParity
<1>12. chan'.addr \in Nat /\ chan'.bytes \in Nat
  BY <1>4, <1>5, <1>6
<1>13. ASSUME split
       PROVE  SplitRight'
  <2>1. chan.packets = 1 /\ chan.bytes = st.bytesPer /\ chan.addr = st.total
    BY <1>2, <1>13 DEF DataRight, SplitRight, StageRight, Untouched
  <2>2. chan'.packets = 0 /\ chan'.int = {"xfer"}
    BY <1>6, <2>1
  <2>3. chan'.bytes < st.bytesPer /\ chan'.addr = st.total + st.bytesPer - chan'.bytes
    BY <1>4, <1>5, <1>6, <1>13, <2>1
  <2> QED BY <1>1, <2>2, <2>3 DEF SplitRight
<1>14. ASSUME ~split
       PROVE  WholeRight'
  <2>1. chan.addr + chan.bytes = st.size /\ chan.packets > 0
    BY <1>1, <1>2, <1>14 DEF DataRight, WholeRight
  <2>2. chan'.addr + chan'.bytes = st.size
    BY <1>4, <1>5, <1>6, <2>1
  <2>3. chan'.int # {"xfer"} => chan'.packets > 0
    BY <1>6, <2>1, TypeFields
  <2> QED BY <1>1, <1>6, <1>11, <2>2, <2>3 DEF WholeRight
<1>15. DataRight'
  BY <1>1, <1>11, <1>12, <1>13, <1>14 DEF DataRight
<1>16. Reasons' /\ ~Setting' /\ ~st'.status
  BY <1>1, <1>2, <1>6 DEF Reasons, Setting
<1>17. RunSync'
  BY <1>10, <1>15, <1>16 DEF RunSync, DataSync
<1>18. StageRight'
  BY <1>1, <1>2 DEF StageRight, Setting, Ceil
<1>19. SchedRight'
  BY <1>1, <1>2, <1>6, <1>9 DEF SchedRight, IsPeriodic
<1> QED BY <1>1, <1>2, <1>9, <1>17, <1>18, <1>19 DEF Sync

(* The hub is asked while it keeps the answer, so only a packet that was   *)
(* sent before is sent again.                                              *)
LEMMA DataRepeatedSync ==
    ASSUME PktTypes, PktShape, Sync, SchedRight, DataRepeated
    PROVE  Sync' /\ SchedRight'
<1> USE DEF fixed, request
<1>1. DataStage /\ st.in /\ (chan.pid # peer.tog \/ ~Kept) /\ UNCHANGED <<type, split, pid, req, pc, st, sched, buf>>
  BY DEF DataRepeated
<1>2. /\ pc = "run" /\ chan.int = {} /\ Busy /\ (~split \/ st.state = "complete") /\ st.state # "start"
      /\ ~Setting /\ ~st.status /\ pid \in DataPids /\ chan.pid \in DataPids /\ st.in = req.in
      /\ ~peer.bad /\ StageRight /\ DataRight
      /\ DataSync(chan.pid, chan.addr, Smaller(chan.bytes, MaxPacket))
  BY <1>1, DataRunning
<1>3. Kept
  <2>1. ASSUME IsPeriodic, split
        PROVE  (chan.frame - peer.hub) % 8 \in 2 .. 5
    <3>1. chan.frame = sched.next /\ sched.tries \in 0 .. 3 /\ (sched.next - peer.hub) % 8 \in 2 .. 5 - sched.tries
      BY <1>2, <2>1 DEF SchedRight
    <3> DEFINE d == (sched.next - peer.hub) % 8
    <3>2. d \in 2 .. 5 - sched.tries /\ (chan.frame - peer.hub) % 8 = d
      BY <3>1
    <3> HIDE DEF d
    <3> QED BY <3>1, <3>2
  <2> QED BY <2>1 DEF Kept
<1>4. PICK n \in Lengths : peer' = Acknowledged(n)
  BY DEF DataRepeated
<1>5. Filled(chan.addr) /\ peer.pkt # -1 /\ peer.tog = Flip(chan.pid) /\ peer.next + peer.pkt = req.first + chan.addr
  BY <1>1, <1>2, <1>3 DEF DataSync, AtRest, InSync
<1>6. n = peer.pkt
  BY <1>5 DEF Lengths
<1>7. peer'.tog = chan.pid /\ peer'.next = req.first + chan.addr /\ peer'.pkt = -1
      /\ peer'.bad = peer.bad /\ peer'.hub = peer.hub /\ peer'.setup = peer.setup
  BY <1>2, <1>4, <1>5, <1>6, AcknowledgedFields, Flips
<1>8. PICK b : chan' = [chan EXCEPT !.int = b] /\ (b = {"err"} \/ (b = {"nyet"} /\ split) \/ b = {})
  <2>1. chan = [chan EXCEPT !.int = {}]
    BY <1>2 DEF PktTypes, ChanType
  <2> QED BY <2>1 DEF DataRepeated, Ends
<1>9. /\ chan'.bytes = chan.bytes /\ chan'.packets = chan.packets /\ chan'.pid = chan.pid
      /\ chan'.addr = chan.addr /\ chan'.frame = chan.frame /\ chan'.int = b
  BY <1>8 DEF PktTypes, ChanType
<1>10. StageRight'
  BY <1>1, <1>2 DEF StageRight, Setting, Ceil
<1>11. SchedRight'
  <2>1. b # {"ack"}
    BY <1>8
  <2> QED BY <1>1, <1>2, <1>7, <1>9, <2>1 DEF SchedRight, IsPeriodic
<1>12. RunSync'
  <2>1. CASE b = {"err"}
    BY <1>9, <2>1 DEF RunSync
  <2>2. CASE b # {"err"}
    <3>1. AtRest(chan.pid, chan.addr)'
      BY <1>1, <1>2, <1>5, <1>7, <1>9 DEF AtRest, InSync, Filled
    <3>2. b # {"xfer"} /\ Reasons'
      BY <1>1, <1>2, <1>8, <1>9, <2>2 DEF Reasons
    <3>3. split => Untouched
      BY <1>2 DEF DataRight, SplitRight
    <3>4. split => Untouched'
      BY <1>1, <1>9, <3>3 DEF Untouched, GetNextPID
    <3>5. /\ PacketsMoved' = PacketsMoved /\ Parity(PacketsMoved)' = Parity(PacketsMoved)
          /\ Ceil(chan.bytes)' = Ceil(chan.bytes) /\ Untouched' = Untouched
      BY <1>1, <1>9 DEF PacketsMoved, Parity, Ceil, Flip, Untouched, GetNextPID
    <3>6. ~split => WholeRight'
      BY <1>1, <1>2, <1>8, <1>9, <2>2, <3>5 DEF DataRight, WholeRight
    <3>7. split => SplitRight'
      BY <1>9, <3>2, <3>4 DEF SplitRight
    <3>8. DataRight'
      BY <1>1, <1>2, <1>9, <3>5, <3>6, <3>7 DEF DataRight
    <3>9. ~Setting' /\ ~st'.status
      BY <1>1, <1>2 DEF Setting
    <3> QED BY <1>9, <3>1, <3>2, <3>8, <3>9 DEF RunSync, DataSync
  <2> QED BY <2>1, <2>2
<1> QED BY <1>1, <1>2, <1>7, <1>10, <1>11, <1>12 DEF Sync

(* The end of a stage: the result is what the channel has moved.           *)
LEMMA StageDoneSync ==
    ASSUME PktTypes, PktShape, Sync, pc = "run", chan.int = {"xfer"},
           NEW t, StageDone(t), t.status = st.status,
           UNCHANGED <<type, split, stages, chan, peer, buf>>,
           pid' = SkipPID(pid, PacketsMoved, st.status),
           Setting /\ ~st.status => ResultLen(t) = SetupSize,
           ~Setting /\ ~st.status => ResultLen(t) = chan.addr /\ (~st.in => chan.addr = st.size)
    PROVE  Sync' /\ SchedRight'
<1>1. ~peer.bad /\ RunSync /\ StageRight /\ Busy /\ chan.int # {"err"}
  BY DEF Sync, Busy
<1>2. /\ req' = [req EXCEPT !.status = 1, !.result = IF t.status THEN req.result ELSE ResultLen(t)]
      /\ pc' = (IF stages = <<>> THEN "idle" ELSE "stage")
      /\ (stages = <<>> => mark' = req.first + (IF req.in THEN req'.result ELSE req.len))
  BY DEF StageDone
<1>3. /\ req'.in = req.in /\ req'.len = req.len /\ req'.first = req.first /\ req'.status = 1
      /\ req'.result = (IF st.status THEN req.result ELSE ResultLen(t))
  <2> DEFINE r == IF t.status THEN req.result ELSE ResultLen(t)
  <2>1. req' = [req EXCEPT !.status = 1, !.result = r] /\ req \in ReqType
    BY <1>2 DEF PktTypes
  <2> HIDE DEF r
  <2>2. /\ req'.in = req.in /\ req'.len = req.len /\ req'.first = req.first /\ req'.status = 1
        /\ req'.result = r
    BY <2>1 DEF ReqType
  <2> QED BY <2>2 DEF r
<1>4. pc' \notin {"start", "run", "delay"}
  BY <1>2
<1>5. SchedRight'
  BY <1>4 DEF SchedRight
<1>6. ASSUME pc' = "idle" => IdleSync', pc' = "stage" => StageSync'
      PROVE  Sync'
  BY <1>1, <1>4, <1>6 DEF Sync, Busy
<1>7. StatusStage' = StatusStage /\ AfterSetup' = AfterSetup
  BY <1>3 DEF StatusStage, AfterSetup, StageOf
<1>8. CASE Setting /\ ~st.status
  <2>1. ~st.status /\ stages = AfterSetup
    BY <1>1, <1>8, SettingSingle
  <2>2. stages # <<>>
    BY <2>1, Tuples DEF AfterSetup
  <2>3. Begun /\ Fresh /\ pid = "setup" /\ type = "control"
    BY <1>1, <1>8, <2>1 DEF RunSync, Setting
  <2>4. pid' = "data1" /\ req'.result = SetupSize /\ pc' = "stage"
    BY <1>2, <1>3, <1>8, <2>1, <2>2, <2>3 DEF SkipPID
  <2>5. Begun' /\ Fresh'
    BY <1>3, <2>3 DEF Begun, Fresh, Filled
  <2>6. StageSync'
    BY <1>7, <2>1, <2>3, <2>4, <2>5 DEF StageSync
  <2> QED BY <1>5, <1>6, <2>4, <2>6
<1>9. CASE st.status
  <2>1. stages = <<>> /\ type = "control"
    BY <1>1, <1>9 DEF PktShape
  <2>2. Transferred
    BY <1>1, <1>9, <2>1 DEF RunSync
  <2>3. Transferred'
    BY <1>3, <1>9, <2>2 DEF Transferred, Filled
  <2>4. IdleSync' /\ pc' = "idle"
    BY <1>2, <2>1, <2>3 DEF IdleSync
  <2> QED BY <1>5, <1>6, <2>4
<1>10. CASE ~Setting /\ ~st.status
  <2>1. DataRight /\ AtRest(chan.pid, chan.addr)
    BY <1>1, <1>10 DEF RunSync
  <2>2. pid \in DataPids /\ st.in = req.in /\ st.size = req.len /\ req.len > 0
    BY <1>1, <1>10 DEF PktShape, Busy
  <2>3. pid' = chan.pid /\ pid' \in DataPids
    BY <1>10, <2>1, <2>2, Flips DEF SkipPID, DataRight, Parity, DataPids
  <2>4. req'.result = chan.addr /\ (~req.in => chan.addr = req.len)
    BY <1>3, <1>10, <2>2
  <2>5. Transferred'
    <3>1. CASE req.in
      BY <1>3, <2>1, <2>4, <3>1 DEF Transferred, AtRest, Filled
    <3>2. CASE ~req.in
      <4>1. peer.next = req.first + req.len
        BY <2>1, <2>4, <3>2 DEF AtRest, OutSync
      <4>2. req.len # 0
        BY <2>2, TypeFields
      <4> QED BY <1>3, <2>4, <3>2, <4>1, <4>2 DEF Transferred
    <3> QED BY <3>1, <3>2
  <2>6. CASE type = "control"
    <3>1. stages = <<StatusStage>>
      BY <1>1, <1>10, <2>6 DEF PktShape
    <3>2. stages # <<>>
      BY <3>1, Tuples
    <3>3. StageSync' /\ pc' = "stage"
      BY <1>2, <1>7, <2>3, <2>5, <2>6, <3>1, <3>2 DEF StageSync, DataPids
    <3> QED BY <1>5, <1>6, <3>3
  <2>7. CASE type # "control"
    <3>1. stages = <<>>
      BY <1>1, <2>7 DEF PktShape, Setting
    <3>2. mark' = req.first + chan.addr
      BY <1>2, <2>4, <3>1
    <3>3. IF req.in THEN InSync(chan.pid, req.first + chan.addr) ELSE OutSync(chan.pid, req.first + chan.addr)
      BY <2>1 DEF AtRest
    <3>4. IF req'.in THEN InSync(pid, mark)' ELSE OutSync(pid, mark)'
      BY <1>3, <2>3, <3>2, <3>3 DEF InSync, OutSync, Flip
    <3>5. IdleSync' /\ pc' = "idle"
      BY <1>2, <2>5, <3>1, <3>4 DEF IdleSync
    <3> QED BY <1>5, <1>6, <3>5
  <2> QED BY <2>6, <2>7
<1> QED BY <1>8, <1>9, <1>10

(* The transaction goes on later: everything stays as it was at its start. *)
LEMMA LaterSync ==
    ASSUME PktTypes, PktShape, Sync, SchedRight', pc = "run", chan.int \in {{"nak"}, {"nyet"}, {"ack"}},
           UNCHANGED <<type, split, req, peer, buf>>, pid' = pid \/ st.status, pc' \in {"start", "delay"},
           st'.in = st.in, st'.status = st.status, st'.size = st.size, st'.total = st.total,
           st'.packets = st.packets, st'.bytesPer = st.bytesPer, st'.packetsPer = st.packetsPer,
           IF pc' = "delay" THEN st'.state = "delay"
           ELSE IF split THEN st'.state \in {"start", "complete"} ELSE st'.state = "nosplit"
    PROVE  Sync'
<1>1. ~peer.bad /\ StageRight /\ StartSync
  BY BackToStart DEF Sync, Busy
<1>2. StartSync'
  <2>1. CASE pid' = pid
    BY <1>1, <2>1, SyncFrame DEF StartSync, Smaller
  <2>2. CASE st.status
    BY <1>1, <2>2 DEF StartSync, Transferred, Filled
  <2> QED BY <2>1, <2>2
<1>3. StageRight'
  <2>1. st.status => st.total = 0
    BY <1>1 DEF StageRight, PktShape, Busy
  <2> QED BY <1>1, <2>1 DEF StageRight, Setting, Ceil
<1> QED BY <1>1, <1>2, <1>3 DEF Sync

LEMMA NoSplitSync ==
    ASSUME PktTypes, PktShape, Sync, SchedRight, NoSplitDone
    PROVE  Sync' /\ SchedRight'
<1> USE DEF fixed
<1>1. /\ Handling /\ st.state = "nosplit" /\ "err" \notin chan.int /\ pid' = PIDAfter
      /\ UNCHANGED <<type, split, stages, chan, peer, buf>>
  BY DEF NoSplitDone
<1>2. pc = "run" /\ Reasons /\ StageRight /\ Busy /\ ~split
  BY <1>1, Answered DEF StageRight, Busy
<1>3. CASE "nak" \in chan.int
  <2>1. chan.int = {"nak"} /\ TransactionComplete = st /\ pid' = pid
    BY <1>1, <1>3, Answered
  <2>2. st' = [st EXCEPT !.state = "delay"] /\ pc' = "delay" /\ req' = req
    BY <1>3, <2>1 DEF NoSplitDone
  <2>3. /\ st'.in = st.in /\ st'.status = st.status /\ st'.size = st.size /\ st'.total = st.total
        /\ st'.packets = st.packets /\ st'.bytesPer = st.bytesPer /\ st'.packetsPer = st.packetsPer
        /\ st'.state = "delay"
    BY <2>2 DEF PktTypes, StageType
  <2>4. SchedRight'
    BY <2>2 DEF SchedRight
  <2> QED BY <1>1, <1>2, <2>1, <2>2, <2>3, <2>4, LaterSync
<1>4. CASE "nak" \notin chan.int
  <2> DEFINE t == TransactionComplete
  <2>1. /\ chan.int = {"xfer"} /\ ~Refused(chan) /\ pid' = SkipPID(pid, PacketsMoved, st.status)
    BY <1>1, <1>2, <1>4, Answered DEF Reasons
  <2>2. StageDone(t)
    BY <1>4 DEF NoSplitDone
  <2>3. t.status = st.status /\ t.size = st.size /\ t.total = st.total + BytesMoved
    BY <2>1, CompleteFields
  <2>4. BytesMoved = st.bytesPer - chan.bytes /\ st.total = 0 /\ st.bytesPer = st.size
    BY <1>2 DEF BytesMoved, StageRight
  <2>5. t.total = st.size - chan.bytes
    BY <2>3, <2>4, TypeFields
  <2> HIDE DEF t
  <2>6. RunSync /\ chan.int # {"err"}
    BY <1>2, <2>1 DEF Sync
  <2>7. Setting /\ ~st.status => ResultLen(t) = SetupSize
    <3> HAVE Setting /\ ~st.status
    <3>1. ~st.status /\ st.size = SetupSize
      BY <1>2, SettingSingle
    <3>2. chan.bytes = 0
      BY <1>2, <2>1, <2>6, <3>1 DEF RunSync, SingleRight
    <3> QED BY <2>3, <2>5, <3>1, <3>2 DEF ResultLen, Smaller, SetupSize
  <2>8. ~Setting /\ ~st.status => ResultLen(t) = chan.addr /\ (~st.in => chan.addr = st.size)
    <3> HAVE ~Setting /\ ~st.status
    <3>1. chan.addr + chan.bytes = st.size /\ chan.addr \in Nat /\ chan.bytes \in Nat
          /\ (~st.in => chan.bytes = 0)
      BY <1>2, <2>1, <2>6 DEF RunSync, DataRight, WholeRight
    <3> QED BY <2>3, <2>5, <3>1, TypeFields DEF ResultLen, Smaller
  <2> QED BY <1>1, <1>2, <2>1, <2>2, <2>3, <2>7, <2>8, StageDoneSync
<1> QED BY <1>3, <1>4

(* The frames of a periodic split.                                         *)
LEMMA StartedSched ==
    ASSUME PktTypes, sched.state = "start", NEW int, IsPeriodic => sched.next \in 0 .. 7,
           NEW s, s = CompleteSplit(SchedAnswer(sched, int))
    PROVE  /\ s.state = "completing"
           /\ IsPeriodic => /\ s.next \in 0 .. 7 /\ s.tries \in 0 .. 3
                            /\ (s.next - sched.next) % 8 \in 2 .. 5 - s.tries
<1> DEFINE a == [sched EXCEPT !.state = "started"]
<1>1. sched \in SchedType
  BY DEF PktTypes
<1>2. SchedAnswer(sched, int) = a /\ a.state = "started" /\ a.next = sched.next
  BY <1>1 DEF SchedAnswer, PeriodicAnswer, NonPeriodicAnswer, SchedType
<1>3. a \in SchedType
  BY <1>1 DEF SchedType
<1> HIDE DEF a
<1>4. CASE IsPeriodic
  <2>1. s = [state |-> "completing", tries |-> IF a.next = 5 THEN 2 ELSE 3, next |-> (a.next + 2) % 8]
    BY <1>2, <1>4 DEF CompleteSplit, PeriodicCompleteSplit
  <2>2. s.state = "completing" /\ s.tries = (IF sched.next = 5 THEN 2 ELSE 3) /\ s.next = (sched.next + 2) % 8
    BY <1>2, <2>1
  <2>3. \A x \in 0 .. 7 : (x + 2) % 8 \in 0 .. 7 /\ (((x + 2) % 8) - x) % 8 = 2
    OBVIOUS
  <2>4. sched.next \in 0 .. 7
    BY <1>4
  <2>5. s.next \in 0 .. 7 /\ (s.next - sched.next) % 8 = 2
    BY <2>2, <2>3, <2>4
  <2>6. s.tries \in {2, 3}
    BY <2>2
  <2> QED BY <2>2, <2>5, <2>6
<1>5. CASE ~IsPeriodic
  BY <1>2, <1>3, <1>5 DEF CompleteSplit, NonPeriodicCompleteSplit, SchedType
<1> QED BY <1>4, <1>5

LEMMA RetrySched ==
    ASSUME PktTypes, sched.state \in {"completing", "retry"}, NEW int, "xfer" \notin int,
           NEW s, s = CompleteSplit(SchedAnswer(sched, int)), s.state = "retry", NEW h \in 0 .. 7,
           IsPeriodic => /\ sched.next \in 0 .. 7 /\ sched.tries \in 0 .. 3
                         /\ (sched.next - h) % 8 \in 2 .. 5 - sched.tries
    PROVE  IsPeriodic => /\ s.next \in 0 .. 7 /\ s.tries \in 0 .. 3
                         /\ (s.next - h) % 8 \in 2 .. 5 - s.tries
<1> HAVE IsPeriodic
<1> DEFINE n == sched.next
           t == sched.tries
           r == [sched EXCEPT !.state = "retry", !.tries = sched.tries - 1]
           f == [sched EXCEPT !.state = "failed"]
<1>1. sched \in SchedType
  BY DEF PktTypes
<1>2. f.state = "failed"
  BY <1>1 DEF SchedType
<1>3. CompleteSplit(f) = f
  BY <1>2 DEF CompleteSplit, PeriodicCompleteSplit
<1>4. SchedAnswer(sched, int) = f \/ (SchedAnswer(sched, int) = r /\ t # 0)
  BY DEF SchedAnswer, PeriodicAnswer, Retried
<1> HIDE DEF f
<1>5. s = CompleteSplit(r) /\ t # 0
  BY <1>2, <1>3, <1>4
<1>6. r.state = "retry" /\ r.tries = t - 1 /\ r.next = n /\ r \in SchedType
  <2> DEFINE k == sched.tries - 1
             x == "retry"
             States == {"unknown", "start", "started", "completing", "retry", "done", "failed"}
  <2>1. k \in Int /\ x \in States
    BY TypeFields
  <2> HIDE DEF k, x, States
  <2>2. SchedType = [state : States, tries : Int, next : Int]
    BY DEF SchedType, States
  <2>3. r = [sched EXCEPT !.state = x, !.tries = k]
    BY DEF x, k
  <2>4. r.state = x /\ r.tries = k /\ r.next = n /\ r \in SchedType
    BY <1>1, <2>1, <2>2, <2>3
  <2> QED BY <2>4 DEF x, k
<1> HIDE DEF r
<1>7. s = [r EXCEPT !.next = (r.next + 1) % 8]
  BY <1>5, <1>6 DEF CompleteSplit, PeriodicCompleteSplit
<1>8. s.next = (n + 1) % 8 /\ s.tries = t - 1
  BY <1>6, <1>7 DEF SchedType
<1>9. n \in 0 .. 7 /\ t \in 0 .. 3 /\ (n - h) % 8 \in 2 .. 5 - t
  OBVIOUS
<1> HIDE DEF n, t
<1>10. \A x, y \in 0 .. 7 : (x - y) % 8 < 7 => (((x + 1) % 8) - y) % 8 = ((x - y) % 8) + 1
  OBVIOUS
<1>11. (n - h) % 8 \in Int /\ (n - h) % 8 < 7
  BY <1>9
<1>12. (((n + 1) % 8) - h) % 8 = ((n - h) % 8) + 1 /\ (n + 1) % 8 \in 0 .. 7
  BY <1>9, <1>10, <1>11
<1> DEFINE d == (n - h) % 8
<1>13. d \in 2 .. 5 - t /\ t \in 1 .. 3
  BY <1>5, <1>9
<1>14. (s.next - h) % 8 = d + 1
  BY <1>8, <1>12
<1> HIDE DEF d
<1>15. d + 1 \in 2 .. 5 - s.tries /\ s.tries \in 0 .. 3
  BY <1>8, <1>13
<1> QED BY <1>8, <1>12, <1>14, <1>15

(* The hub has taken the start split.                                      *)
LEMMA SplitStartedSync ==
    ASSUME PktTypes, PktShape, Sync, SchedRight, SplitStarted
    PROVE  Sync' /\ SchedRight'
<1> USE DEF fixed, request
<1> DEFINE t == TransactionComplete
           s == CompleteSplit(SchedAnswer(sched, chan.int))
<1>1. /\ Handling /\ st.state = "start" /\ ~Refused(chan) /\ pc' = "start"
      /\ st' = [t EXCEPT !.state = "complete"] /\ sched' = s /\ pid' = PIDAfter
      /\ UNCHANGED <<type, split, req, chan, peer, buf>>
  BY DEF SplitStarted
<1>2. "err" \notin chan.int
  BY <1>1 DEF Refused
<1>3. /\ pc = "run" /\ Reasons /\ StageRight /\ chan.int = {"ack"} /\ pid' = pid /\ Busy
  BY <1>1, <1>2, Answered DEF Busy
<1>4. split /\ st.packetsPer = 1 /\ st.bytesPer = Smaller(MaxPacket, st.size - st.total) /\ st.total \in 0 .. st.size
  BY <1>1, <1>3 DEF StageRight
<1>5. Untouched
  <2>1. RunSync /\ chan.int # {"err"} /\ chan.int # {"xfer"}
    BY <1>3 DEF Sync
  <2> QED BY <1>4, <2>1 DEF RunSync, SingleRight, DataRight, SplitRight
<1>6. PacketsMoved = 0 /\ BytesMoved = 0
  BY <1>1, <1>5, TypeFields DEF Untouched, PacketsMoved, BytesMoved
<1>7. /\ t.in = st.in /\ t.status = st.status /\ t.size = st.size /\ t.total = st.total
      /\ t.packets = st.packets /\ t.bytesPer = st.bytesPer /\ t.packetsPer = st.packetsPer /\ t \in StageType
  <2>1. /\ t.in = st.in /\ t.status = st.status /\ t.size = st.size /\ t.packetsPer = st.packetsPer /\ t \in StageType
        /\ t.total = st.total + BytesMoved /\ t.packets = st.packets - PacketsMoved
        /\ t.bytesPer = IF t.total <= st.size THEN Smaller(st.bytesPer, st.size - t.total) ELSE st.bytesPer
    BY <1>1, CompleteFields
  <2>2. t.total = st.total /\ t.packets = st.packets
    BY <1>6, <2>1, TypeFields
  <2>3. t.bytesPer = st.bytesPer
    BY <1>4, <2>1, <2>2, TypeFields DEF Smaller
  <2> QED BY <2>1, <2>2, <2>3
<1> HIDE DEF t, s
<1>8. /\ st'.in = st.in /\ st'.status = st.status /\ st'.size = st.size /\ st'.total = st.total
      /\ st'.packets = st.packets /\ st'.bytesPer = st.bytesPer /\ st'.packetsPer = st.packetsPer
      /\ st'.state = "complete"
  BY <1>1, <1>7 DEF StageType
<1>9. SchedRight'
  <2>1. sched.state = "start"
        /\ (IsPeriodic => chan.frame = sched.next /\ sched.next \in 0 .. 7 /\ peer.hub = chan.frame)
        /\ peer.setup = (~st.status /\ pid = "setup")
    BY <1>1, <1>3, <1>4 DEF SchedRight
  <2>2. /\ s.state = "completing"
        /\ IsPeriodic => /\ s.next \in 0 .. 7 /\ s.tries \in 0 .. 3
                         /\ (s.next - sched.next) % 8 \in 2 .. 5 - s.tries
    BY <2>1, StartedSched DEF s
  <2>3. IsPeriodic' = IsPeriodic
    BY <1>1 DEF IsPeriodic
  <2> QED BY <1>1, <1>3, <1>8, <2>1, <2>2, <2>3 DEF SchedRight
<1>10. Sync'
  BY <1>1, <1>3, <1>4, <1>8, <1>9, LaterSync
<1> QED BY <1>9, <1>10

(* The hub answers a complete split.                                       *)
LEMMA SplitCompletedSync ==
    ASSUME PktTypes, PktShape, Sync, SchedRight, SplitCompleted
    PROVE  Sync' /\ SchedRight'
<1> USE DEF fixed
<1> DEFINE t == TransactionComplete
           s == CompleteSplit(SchedAnswer(sched, chan.int))
<1>1. /\ Handling /\ st.state = "complete" /\ "err" \notin chan.int
      /\ UNCHANGED <<type, split, stages, chan, peer, buf>>
  BY DEF SplitCompleted
<1>2. pc = "run" /\ Reasons /\ StageRight /\ Busy
  BY <1>1, Answered DEF Busy
<1>3. /\ split /\ st.packetsPer = 1 /\ st.bytesPer = Smaller(MaxPacket, st.size - st.total)
      /\ st.total \in 0 .. st.size /\ st.packets >= 1
  BY <1>1, <1>2 DEF StageRight
<1>4. st \in StageType /\ sched \in SchedType /\ s \in SchedType
  BY SchedTypes DEF PktTypes
<1>5. IsPeriodic' = IsPeriodic
  BY <1>1 DEF IsPeriodic
<1>6. ASSUME pc' = (IF IsPeriodic THEN "delay" ELSE "start"), st'.state = pc',
             sched' = (IF IsPeriodic THEN s ELSE StartSplit(s))
      PROVE  SchedRight'
  <2> HIDE DEF s
  <2>1. ~IsPeriodic => sched'.state = "start"
    BY <1>4, <1>6 DEF StartSplit, SchedType
  <2> QED BY <1>5, <1>6, <2>1 DEF SchedRight
<1>7. \/ /\ chan.int \in {{"nak"}, {"nyet"}, {"ack"}} /\ (pid' = pid \/ st.status) /\ req' = req
         /\ \/ s.state = "retry" /\ sched' = s /\ st' = st /\ pc' = "start"
            \/ /\ pc' = (IF IsPeriodic THEN "delay" ELSE "start") /\ st' = [st EXCEPT !.state = pc']
               /\ sched' = (IF IsPeriodic THEN s ELSE StartSplit(s))
      \/ /\ chan.int = {"xfer"} /\ pid' = SkipPID(pid, 1, st.status) /\ PacketsMoved = 1
         /\ \/ /\ st.packets # 1 /\ pc' = (IF IsPeriodic THEN "delay" ELSE "start")
               /\ st' = [t EXCEPT !.state = pc']
               /\ sched' = (IF IsPeriodic THEN s ELSE StartSplit(s)) /\ req' = req
            \/ st.packets = 1 /\ StageDone(t)
  BY <1>3, SplitAnswered
<1>8. CASE chan.int \in {{"nak"}, {"nyet"}, {"ack"}}
  <2>1. /\ pid' = pid \/ st.status
        /\ req' = req
        /\ \/ s.state = "retry" /\ sched' = s /\ st' = st /\ pc' = "start"
           \/ /\ pc' = (IF IsPeriodic THEN "delay" ELSE "start") /\ st' = [st EXCEPT !.state = pc']
              /\ sched' = (IF IsPeriodic THEN s ELSE StartSplit(s))
    BY <1>7, <1>8
  <2>2. CASE s.state = "retry" /\ sched' = s /\ st' = st /\ pc' = "start"
    <3>1. /\ sched.state \in {"completing", "retry"}
          /\ IsPeriodic => /\ sched.next \in 0 .. 7 /\ sched.tries \in 0 .. 3 /\ peer.hub \in 0 .. 7
                           /\ (sched.next - peer.hub) % 8 \in 2 .. 5 - sched.tries
      BY <1>1, <1>2, <1>3 DEF SchedRight
    <3>2. "xfer" \notin chan.int
      BY <1>8
    <3>3. IsPeriodic => /\ s.next \in 0 .. 7 /\ s.tries \in 0 .. 3
                        /\ (s.next - peer.hub) % 8 \in 2 .. 5 - s.tries
      BY <2>2, <3>1, <3>2, RetrySched
    <3> HIDE DEF s
    <3>4. SchedRight'
      <4>1. peer.setup = (~st.status /\ pid = "setup")
        BY <1>1, <1>2, <1>3 DEF SchedRight
      <4>2. peer'.setup = (~st'.status /\ pid' = "setup")
        BY <1>1, <2>1, <2>2, <4>1
      <4> QED BY <1>1, <1>5, <2>2, <3>1, <3>3, <4>2 DEF SchedRight
    <3>5. Sync'
      BY <1>1, <1>2, <1>3, <1>8, <2>1, <2>2, <3>4, LaterSync
    <3> QED BY <3>4, <3>5
  <2>3. CASE /\ pc' = (IF IsPeriodic THEN "delay" ELSE "start") /\ st' = [st EXCEPT !.state = pc']
             /\ sched' = (IF IsPeriodic THEN s ELSE StartSplit(s))
    <3>1. \A x : LET u == [st EXCEPT !.state = x] IN
                 /\ u.in = st.in /\ u.status = st.status /\ u.size = st.size /\ u.total = st.total
                 /\ u.packets = st.packets /\ u.bytesPer = st.bytesPer /\ u.packetsPer = st.packetsPer
                 /\ u.state = x
      BY <1>4 DEF StageType
    <3>2. st' = [st EXCEPT !.state = pc']
      BY <2>3
    <3>3. /\ st'.in = st.in /\ st'.status = st.status /\ st'.size = st.size /\ st'.total = st.total
          /\ st'.packets = st.packets /\ st'.bytesPer = st.bytesPer /\ st'.packetsPer = st.packetsPer
          /\ st'.state = pc'
      BY <3>1, <3>2
    <3>4. SchedRight' /\ pc' \in {"start", "delay"}
      BY <1>6, <2>3, <3>3
    <3>5. Sync'
      BY <1>1, <1>2, <1>3, <1>8, <2>1, <3>3, <3>4, LaterSync
    <3> QED BY <3>4, <3>5
  <2> QED BY <2>1, <2>2, <2>3
<1>9. CASE chan.int = {"xfer"}
  <2>1. RunSync /\ chan.int # {"err"} /\ ~Refused(chan) /\ ~peer.bad
    BY <1>2, <1>9 DEF Sync, Refused
  <2>2. pid' = SkipPID(pid, 1, st.status) /\ PacketsMoved = 1
    BY <1>7, <1>9
  <2>3. /\ t \in StageType /\ t.in = st.in /\ t.status = st.status /\ t.size = st.size
        /\ t.packetsPer = st.packetsPer
        /\ t.total = st.total + BytesMoved /\ t.packets = st.packets - 1
        /\ t.bytesPer = IF t.total <= st.size THEN Smaller(st.bytesPer, st.size - t.total) ELSE st.bytesPer
    BY <2>1, <2>2, CompleteFields
  <2> HIDE DEF t
  <2>4. BytesMoved = IF st.bytesPer - chan.bytes = 0 /\ st.bytesPer > 0 THEN MaxPacket
                     ELSE st.bytesPer - chan.bytes
    <3>1. MaxPacket * 1 = MaxPacket
      BY TypeFields
    <3> QED BY <1>1, <1>3, <2>2, <3>1 DEF BytesMoved
  <2>5. MaxPacket \in Nat \ {0} /\ st.size \in Nat /\ st.total \in Nat /\ chan.bytes \in Int
    BY <1>3, TypeFields
  <2>6. Setting /\ ~st.status => ResultLen(t) = SetupSize
    <3> HAVE Setting /\ ~st.status
    <3>1. ~st.status /\ st.size = SetupSize /\ st.bytesPer = SetupSize /\ st.total = 0
      BY <1>2, SettingSingle
    <3>2. chan.bytes = SetupSize
      BY <1>3, <1>9, <2>1, <3>1 DEF RunSync, SingleRight
    <3>3. MaxPacket >= SetupSize
      BY DEF Setting, PktTypes
    <3> QED BY <2>3, <2>4, <2>5, <3>1, <3>2, <3>3 DEF ResultLen, Smaller, SetupSize
  <2>7. ASSUME ~Setting, ~st.status
        PROVE  /\ chan.addr \in Nat /\ chan.addr <= st.size /\ ResultLen(t) = chan.addr
               /\ (st.in \/ st.packets # 1 => t.total = chan.addr)
               /\ (~st.in => (st.packets = 1 <=> chan.addr = st.size))
               /\ (~st.in /\ st.packets # 1 => chan.addr < st.size /\ t.packets = Ceil(st.size - chan.addr))
    <3>1. DataRight /\ SplitRight
      BY <1>3, <2>1, <2>7 DEF RunSync, DataRight
    <3>2. /\ chan.addr = st.total + st.bytesPer - (IF st.in THEN chan.bytes ELSE 0)
          /\ (IF st.in THEN chan.bytes < st.bytesPer ELSE chan.bytes = st.bytesPer)
          /\ chan.bytes \in Nat /\ chan.addr \in Nat
      BY <1>9, <3>1 DEF SplitRight, DataRight
    <3>3. st.bytesPer \in Nat /\ st.total + st.bytesPer <= st.size /\ (~st.in => st.bytesPer > 0)
      BY <1>2, <1>3, <2>7, StageCounts
    <3>4. CASE st.in
      <4>1. BytesMoved = st.bytesPer - chan.bytes
        BY <2>4, <3>2, <3>3, <3>4
      <4>2. t.total = chan.addr /\ chan.addr <= st.size
        BY <2>3, <2>5, <3>2, <3>3, <3>4, <4>1
      <4> QED BY <2>3, <2>5, <3>2, <3>4, <4>2 DEF ResultLen, Smaller
    <3>5. CASE ~st.in
      <4>1. BytesMoved = MaxPacket /\ t.total = st.total + MaxPacket /\ chan.addr = st.total + st.bytesPer
        BY <2>3, <2>4, <2>5, <3>2, <3>3, <3>5
      <4>2. st.packets = Ceil(st.size - st.total) /\ st.total < st.size
        BY <1>2, <2>7, <3>5 DEF StageRight
      <4>3. CASE st.size - st.total <= MaxPacket
        <5>1. st.bytesPer = st.size - st.total
          BY <1>3, <2>5, <4>3 DEF Smaller
        <5>2. st.packets = 1
          BY <2>5, <4>2, <4>3, CeilFacts
        <5>3. chan.addr = st.size
          BY <2>5, <4>1, <5>1
        <5>4. ResultLen(t) = st.size
          BY <2>3, <2>5, <4>1, <4>3 DEF ResultLen, Smaller
        <5> QED BY <2>5, <3>5, <5>2, <5>3, <5>4
      <4>4. CASE st.size - st.total > MaxPacket
        <5>1. st.bytesPer = MaxPacket
          BY <1>3, <2>5, <4>4 DEF Smaller
        <5>2. st.packets > 1 /\ st.packets = Ceil(st.size - st.total - MaxPacket) + 1
          BY <2>5, <4>2, <4>4, CeilFacts
        <5>3. chan.addr = st.total + MaxPacket /\ t.total = chan.addr /\ chan.addr < st.size
          BY <2>5, <4>1, <4>4, <5>1
        <5>4. ResultLen(t) = chan.addr
          BY <2>3, <2>5, <3>2, <5>3 DEF ResultLen, Smaller
        <5>5. st.size - chan.addr = st.size - st.total - MaxPacket /\ st.size - chan.addr \in Nat
          BY <2>5, <3>2, <5>3
        <5>6. t.packets = Ceil(st.size - chan.addr)
          <6>1. Ceil(st.size - chan.addr) \in Nat /\ st.packets = Ceil(st.size - chan.addr) + 1
            BY <5>2, <5>5, CeilFacts
          <6> QED BY <2>3, <6>1
        <5>7. st.packets # 1 /\ chan.addr # st.size /\ chan.addr <= st.size
          BY <2>5, <3>2, <5>2, <5>3, TypeFields
        <5> QED BY <3>2, <3>5, <5>3, <5>4, <5>6, <5>7
      <4> QED BY <2>5, <4>3, <4>4
    <3> QED BY <3>4, <3>5
  <2>8. CASE st.packets = 1 /\ StageDone(t)
    <3>1. ~Setting /\ ~st.status => ResultLen(t) = chan.addr /\ (~st.in => chan.addr = st.size)
      BY <2>7, <2>8
    <3>2. pid' = SkipPID(pid, PacketsMoved, st.status)
      BY <2>2
    <3> QED BY <1>1, <1>2, <1>9, <2>3, <2>6, <2>8, <3>1, <3>2, StageDoneSync
  <2>9. CASE /\ st.packets # 1 /\ pc' = (IF IsPeriodic THEN "delay" ELSE "start")
             /\ st' = [t EXCEPT !.state = pc']
             /\ sched' = (IF IsPeriodic THEN s ELSE StartSplit(s)) /\ req' = req
    <3>1. \A x : LET u == [t EXCEPT !.state = x] IN
                 /\ u.in = t.in /\ u.status = t.status /\ u.size = t.size /\ u.total = t.total
                 /\ u.packets = t.packets /\ u.bytesPer = t.bytesPer /\ u.packetsPer = t.packetsPer
                 /\ u.state = x
      BY <2>3 DEF StageType
    <3>2. st' = [t EXCEPT !.state = pc']
      BY <2>9
    <3>3. /\ st'.in = t.in /\ st'.status = t.status /\ st'.size = t.size /\ st'.total = t.total
          /\ st'.packets = t.packets /\ st'.bytesPer = t.bytesPer /\ st'.packetsPer = t.packetsPer
          /\ st'.state = pc'
      BY <3>1, <3>2
    <3>4. SchedRight' /\ pc' \in {"start", "delay"}
      BY <1>6, <2>9, <3>3
    <3>5. ~Setting /\ ~st.status
      BY <1>2, <2>9, SettingSingle DEF StageRight
    <3>6. pid \in DataPids /\ st.in = req.in
      BY <1>2, <3>5 DEF PktShape
    <3>7. DataRight /\ AtRest(chan.pid, chan.addr)
      BY <1>9, <2>1, <3>5 DEF RunSync
    <3>8. pid' = chan.pid /\ pid' \in DataPids
      BY <2>2, <3>5, <3>6, <3>7, Flips DEF SkipPID, DataRight, Parity, DataPids
    <3>9. /\ chan.addr \in Nat /\ chan.addr <= st.size /\ st'.total = chan.addr
          /\ (~st.in => chan.addr < st.size /\ t.packets = Ceil(st.size - chan.addr))
      BY <2>7, <2>9, <3>3, <3>5
    <3>10. StageRight'
      <4>1. st'.packetsPer = 1 /\ st'.size = st.size /\ ~st'.status /\ st'.in = st.in /\ ~Setting'
        BY <1>3, <2>3, <3>3, <3>5, <3>8 DEF Setting, DataPids
      <4>2. st'.packets >= 1
        BY <1>3, <2>3, <2>9, <3>3, TypeFields
      <4>3. st'.bytesPer = Smaller(MaxPacket, st.size - chan.addr)
        <5>1. t.bytesPer = Smaller(st.bytesPer, st.size - chan.addr)
          BY <2>3, <2>5, <3>3, <3>9
        <5>2. chan.addr >= st.total
          <6>1. SplitRight /\ st.bytesPer \in Nat /\ chan.bytes \in Nat
            BY <1>2, <1>3, <3>5, <3>7, StageCounts DEF DataRight
          <6> QED BY <1>9, <2>5, <6>1 DEF SplitRight
        <5> QED BY <1>3, <2>5, <3>3, <3>9, <5>1, <5>2 DEF Smaller
      <4>4. st'.total \in 0 .. st'.size
        BY <2>5, <3>9, <4>1
      <4>5. ~st'.in => st'.total < st'.size /\ st'.packets = Ceil(st.size - st.total)'
        <5>1. Ceil(st.size - st.total)' = Ceil(st.size - chan.addr)
          BY <3>9, <4>1 DEF Ceil
        <5> QED BY <3>3, <3>9, <4>1, <5>1
      <4>6. Smaller(MaxPacket, st.size - st.total)' = Smaller(MaxPacket, st.size - chan.addr)
        BY <3>9, <4>1 DEF Smaller
      <4>7. IF pc' = "delay" THEN st'.state = "delay" ELSE st'.state \in {"start", "complete"}
        BY <3>3, <3>4
      <4>8. split' /\ (st'.status => st'.packets = 1) /\ (Setting' => st'.total = 0)
        BY <1>1, <1>3, <4>1
      <4> QED BY <4>1, <4>2, <4>3, <4>4, <4>5, <4>6, <4>7, <4>8 DEF StageRight
    <3>11. StartSync'
      <4>1. ~Setting' /\ ~st'.status
        BY <2>3, <3>3, <3>5, <3>8 DEF Setting, DataPids
      <4>2. AtRest(pid, st.total)'
        BY <1>1, <2>9, <3>7, <3>8, <3>9 DEF AtRest, InSync, OutSync, Filled, Flip
      <4> QED BY <4>1, <4>2 DEF StartSync, DataSync
    <3>12. Sync'
      BY <1>1, <2>1, <3>4, <3>10, <3>11 DEF Sync
    <3> QED BY <3>4, <3>12
  <2> QED BY <1>7, <1>9, <2>8, <2>9
<1> QED BY <1>7, <1>8, <1>9

-----------------------------------------------------------------------------
LEMMA PacketInit ==
    ASSUME PktInit
    PROVE  PacketInv
<1>1. /\ type \in {"control", "bulk", "interrupt"} /\ split \in BOOLEAN
      /\ (type = "control" => MaxPacket >= SetupSize)
      /\ pid = FirstPID(type) /\ stages = <<>> /\ pc = "idle" /\ st = NoStage /\ sched = NoSched
      /\ buf = <<>> /\ mark = 1 /\ lost = FALSE /\ odd = FALSE
  BY DEF PktInit
<1>2. /\ req.in \in BOOLEAN /\ (type = "interrupt" => req.in)
      /\ req.len = 0 /\ req.first = 0 /\ req.status = 0 /\ req.result = 0 /\ req.n = 0 /\ req \in ReqType
  <2>1. req \in [in : BOOLEAN, len : {0}, first : {0}, status : {0}, result : {0}, n : {0}]
    BY DEF PktInit
  <2>2. type = "interrupt" => req.in
    BY DEF PktInit
  <2> QED BY <2>1, <2>2 DEF ReqType
<1>3. NoStage \in StageType /\ NoSched \in SchedType
  BY DEF NoStage, StageType, NoSched, SchedType, Unset
<1>4. chan \in ChanType
  BY DEF PktInit, ChanType, Pids, Unset
<1>5. peer \in PeerType /\ ~peer.bad /\ peer.tog = "data0" /\ peer.next = 1 /\ peer.pkt = -1
  <2> DEFINE o == IF type = "control" THEN "no" ELSE "data"
             k == -1
             Opens == {"no", "data", "status"}
  <2>1. o \in Opens /\ k \in Int /\ Unset \in Int /\ 1 \in Int /\ "data0" \in DataPids
    BY DEF Unset, DataPids
  <2>2. peer = [tog |-> "data0", next |-> 1, pkt |-> k, open |-> o, bad |-> FALSE, hub |-> Unset,
                setup |-> FALSE]
    BY DEF PktInit
  <2>3. PeerType = [tog : DataPids, next : Int, pkt : Int, open : Opens, bad : BOOLEAN, hub : Int,
                    setup : BOOLEAN]
    BY DEF PeerType
  <2> HIDE DEF o, Opens, k
  <2>4. peer \in PeerType /\ peer.bad = FALSE /\ peer.tog = "data0" /\ peer.next = 1 /\ peer.pkt = k
    BY <2>1, <2>2, <2>3
  <2> QED BY <2>4 DEF k
<1>6. PktTypes
  <2>1. pid \in Pids
    BY <1>1 DEF FirstPID, Pids
  <2>2. pc \in {"idle", "stage", "start", "run", "delay"} /\ mark \in Int /\ lost \in BOOLEAN
    <3>1. pc = "idle" /\ mark = 1 /\ lost = FALSE
      BY <1>1
    <3>2. mark \in Int
      BY <3>1
    <3>3. lost \in BOOLEAN
      BY <3>1
    <3> QED BY <3>1, <3>2, <3>3
  <2>3. st \in StageType /\ sched \in SchedType
    BY <1>1, <1>3
  <2> HIDE DEF NoStage, NoSched
  <2> QED BY <1>1, <1>2, <1>4, <1>5, <2>1, <2>2, <2>3, Zenon DEF PktTypes
<1>7. PktShape
  BY <1>1, <1>2 DEF PktShape, FirstPID, DataPids, Busy, Setting
<1>8. IdleSync
  BY <1>1, <1>2, <1>5 DEF IdleSync, InSync, OutSync, FirstPID
<1>9. Sync /\ SchedRight
  BY <1>1, <1>5, <1>8 DEF Sync, SchedRight, Busy
<1> QED BY <1>6, <1>7, <1>9 DEF PacketInv

LEMMA PacketStep ==
    ASSUME PacketInv, PktNext
    PROVE  PacketInv'
<1> SUFFICES ASSUME ~odd'
             PROVE  PacketInv'
  BY DEF PacketInv
<1>1. ~odd
  <2>1. CASE DataIn \/ HubAcks
    BY <2>1 DEF DataIn, HubAcks
  <2>2. CASE ~DataIn /\ ~HubAcks
    <3>1. odd' = odd
      BY <2>2 DEF PktNext, Submit, TransferStage, StartChannel, RestartHalted, Failed, NoSplitDone, SplitStarted,
         SplitCompleted, TimerHandler, ResetPID, HubAccepts, NotReady, Halts, BusFails, SetupArrives,
         StatusPacket, DataOut, DataRepeated, Stalls
    <3> QED BY <3>1
  <2> QED BY <2>1, <2>2
<1>7. type' = type /\ split' = split
  BY DEF PktNext, Submit, TransferStage, StartChannel, RestartHalted, Failed, NoSplitDone, SplitStarted,
         SplitCompleted, TimerHandler, ResetPID, HubAccepts, NotReady, HubAcks, Halts, BusFails, SetupArrives,
         StatusPacket, DataOut, DataIn, DataRepeated, Stalls, fixed
<1>2. PktTypes /\ PktShape /\ (~lost => Sync /\ SchedRight)
  BY <1>1 DEF PacketInv
<1>3. PktTypes'
  BY <1>2, TypesKept
<1>4. type = "control" /\ lost => FALSE
  BY <1>2 DEF PktNext, Submit, TransferStage, StartChannel, RestartHalted, Failed, NoSplitDone, SplitStarted,
         SplitCompleted, TimerHandler, ResetPID, HubAccepts, NotReady, HubAcks, Halts, BusFails, SetupArrives,
         StatusPacket, DataOut, DataIn, DataRepeated, Stalls, PktShape, Handling, ChannelRuns, DataStage
<1>5. PktShape'
  BY <1>7, <1>2, <1>4, PlainShape, ControlShape
<1>6. ASSUME ~lost'
      PROVE  Sync' /\ SchedRight'
  <2>1. CASE ResetPID
    BY <1>2, <2>1, ResetSync
  <2>2. CASE ~ResetPID
    <3>1. ~lost /\ ~Failed
      BY <1>6, <2>2 DEF PktNext, Submit, TransferStage, StartChannel, RestartHalted, Failed, NoSplitDone,
         SplitStarted, SplitCompleted, TimerHandler, HubAccepts, NotReady, HubAcks, Halts, BusFails, SetupArrives,
         StatusPacket, DataOut, DataIn, DataRepeated, Stalls
    <3>2. Sync /\ SchedRight
      BY <1>2, <3>1
    <3>3. CASE \E in \in BOOLEAN, len \in Sizes : Submit(in, len)
      BY <1>2, <3>1, <3>2, <3>3, SubmitSync
    <3>4. CASE TransferStage \/ StartChannel \/ RestartHalted \/ TimerHandler
      BY <1>2, <1>3, <1>5, <3>1, <3>2, <3>4, TransferSync, StartSyncKept, RestartSync, TimerSync
    <3>5. CASE NoSplitDone \/ SplitStarted \/ SplitCompleted
      BY <1>2, <3>2, <3>5, NoSplitSync, SplitStartedSync, SplitCompletedSync
    <3>6. CASE HubAccepts \/ NotReady \/ HubAcks \/ Halts \/ BusFails \/ Stalls \/ SetupArrives \/ StatusPacket
      BY <1>2, <3>2, <3>6, EndingSync, SingleSync
    <3>7. CASE DataOut \/ DataIn \/ DataRepeated
      BY <1>2, <3>2, <3>7, DataOutSync, DataInSync, DataRepeatedSync
    <3> QED BY <2>2, <3>1, <3>3, <3>4, <3>5, <3>6, <3>7 DEF PktNext
  <2> QED BY <2>1, <2>2
<1> QED BY <1>3, <1>5, <1>6 DEF PacketInv

LEMMA PacketStutter ==
    ASSUME PacketInv, UNCHANGED pktVars
    PROVE  PacketInv'
<1>1. UNCHANGED <<type, split, pid, req, stages, pc, st, sched, chan, peer, buf, mark, lost, odd>>
  BY DEF pktVars, fixed, request
<1>2. PktTypes' = PktTypes /\ PktShape' = PktShape /\ SchedRight' = SchedRight
  BY <1>1 DEF PktTypes, PktShape, SchedRight, IsPeriodic, Setting, Busy, AllStages, AfterSetup, StatusStage,
              StageOf, ReqType, StageType, ChanType, PeerType, SchedType
<1>3. /\ IdleSync' = IdleSync /\ StageSync' = StageSync /\ StageRight' = StageRight /\ StartSync' = StartSync
      /\ RunSync' = RunSync
  <2>1. /\ Begun' = Begun /\ Transferred' = Transferred /\ Setting' = Setting /\ Fresh' = Fresh
        /\ \A p, d : AtRest(p, d)' = AtRest(p, d)
        /\ \A p, d, n : DataSync(p, d, n)' = DataSync(p, d, n)
    BY <1>1, SyncFrame
  <2>2. IdleSync' = IdleSync /\ StageSync' = StageSync
    BY <1>1, <2>1 DEF IdleSync, StageSync, InSync, OutSync, AfterSetup, StatusStage, StageOf, Flip
  <2>3. StageRight' = StageRight /\ StartSync' = StartSync
    BY <1>1, <2>1 DEF StageRight, StartSync, Ceil, Smaller
  <2>4. SingleRight' = SingleRight /\ DataRight' = DataRight /\ Reasons' = Reasons
    BY <1>1 DEF SingleRight, DataRight, SplitRight, WholeRight, Untouched, GetNextPID, PacketsMoved, Parity, Flip,
                Ceil, Reasons
  <2>5. RunSync' = RunSync
    BY <1>1, <2>1, <2>4 DEF RunSync, Smaller
  <2> QED BY <2>2, <2>3, <2>5
<1> QED BY <1>1, <1>2, <1>3 DEF PacketInv, Sync, Busy

(* The bytes of a request that succeeds are those of the stream, each once *)
(* and in order, and the result is their number, with the three exceptions *)
(* that BytesKept names: for every packet size, every length of buffers    *)
(* and packets and any number of requests and lost handshakes, over split  *)
(* transactions or not.                                                    *)
THEOREM BytesTheorem == PktSpec => []BytesKept
<1>1. PktInit => PacketInv
  BY PacketInit
<1>2. PacketInv /\ [PktNext]_pktVars => PacketInv'
  BY PacketStep, PacketStutter
<1>3. PacketInv => BytesKept
  <2> SUFFICES ASSUME PacketInv, pc = "idle", req.status = 1, ~lost, ~odd
               PROVE  IF req.in THEN buf = [i \in 1 .. req.result |-> req.first + i - 1]
                      ELSE req.result = (IF req.len = 0 THEN SetupSize ELSE req.len)
                           /\ peer.next = req.first + req.len /\ ~peer.bad
    BY DEF BytesKept
  <2> QED BY DEF PacketInv, Sync, IdleSync, Transferred, Filled
<1> QED BY <1>1, <1>2, <1>3, PTL DEF PktSpec
===============================================================================
