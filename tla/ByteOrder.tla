----------------------------- MODULE ByteOrder -----------------------------
(***************************************************************************)
(* include/compat/endian.h: byte order on Windows and AIX.                 *)
(*                                                                         *)
(* One host converts a number, stores it in memory and sends the bytes;    *)
(* another loads and converts them back.  A number is a function from the  *)
(* position of a byte, 0 being the least significant, to the byte; shifts  *)
(* are counted in bytes.  Windows is little endian and AIX big endian.     *)
(* htole64() on AIX has two bodies, for compilers with __BYTE_ORDER__ and  *)
(* for those without.                                                      *)
(***************************************************************************)
EXTENDS Integers, FiniteSetsExt

CONSTANTS Bytes  \* values of a byte, 0 among them

\* What is assumed of the constants.
BytesAssumption == 0 \in Bytes /\ Bytes \subseteq Nat

VARIABLES host,   \* of the sender and of the receiver
          order, width,  \* the conversion: "be" or "le", of 2, 4 or 8 bytes
          value,  \* the number sent
          wire,   \* the bytes in the order of their addresses
          got     \* the number received

vars == <<host, order, width, value, wire, got>>

Hosts == {"windows", "aix", "aix-plain"}
Places(w) == 0 .. w - 1

\* The conversions that the headers define: there is none for 16 bits to little endian.
Conversions == ({"be"} \X {2, 4, 8}) \cup ({"le"} \X {4, 8})

\* x << (8 * n), or x >> (8 * -n)
Shift(x, n, w) == [i \in Places(w) |-> IF i - n \in Places(w) THEN x[i - n] ELSE 0]

\* x & (0xff << (8 * k))
Mask(x, k) == [i \in DOMAIN x |-> IF i = k THEN x[i] ELSE 0]

\* The terms of a sum of masked bytes occupy different places.
Or(terms, w) == [i \in Places(w) |-> Max({x[i] : x \in terms})]

-----------------------------------------------------------------------------
\* The shifts, in bits, of the bytes from the least significant on; right is negative.
Shifts(w) == IF w = 4 THEN <<24, 8, -8, -24>> ELSE <<56, 40, 24, 8, -8, -24, -40, -56>>
Moved(x, k, w) == Shift(Mask(x, k), Shifts(w)[k + 1] \div 8, w)

\* AIX: le32toh, le64toh, and htole32, which is le32toh
letoh(x, w) == Or({Moved(x, k, w) : k \in Places(w)}, w)

\* AIX with __BYTE_ORDER__: the outer terms are not masked.
htole64(x) == Or({Shift(x, 7, 8), Shift(x, -7, 8)} \cup {Moved(x, k, 8) : k \in 1 .. 6}, 8)

\* A mutation: without __BYTE_ORDER__ the number is taken as it is.
HtolePlainNone(x) == x

\* AIX without: val.bytes[i] = x >> (8 * i), and val.u64 of a big endian host.
htole64_plain(x) ==
  LET val == [i \in Places(8) |-> x[i]]
  IN  [i \in Places(8) |-> val[7 - i]]

\* Windows (external): htonl, ntohl, htons, ntohs
Swap(x, w) == [i \in Places(w) |-> x[w - 1 - i]]

\* Windows: the two halves are exchanged, each swapped.
ntohll(x) ==
  LET low == [i \in Places(4) |-> x[i]]
      high == [i \in Places(4) |-> x[i + 4]]
      wide(h) == [i \in Places(8) |-> IF i < 4 THEN h[i] ELSE 0]
  IN  Or({Shift(wide(Swap(low, 4)), 4, 8), wide(Swap(high, 4))}, 8)

\* htobe and htole: on Windows htobe64 is ntohll and htole is nothing, on AIX htobe is nothing.
ToWire(h, o, w, x) ==
  CASE h = "windows" -> IF o = "le" THEN x ELSE IF w = 8 THEN ntohll(x) ELSE Swap(x, w)
    [] h # "windows" /\ o = "be" -> x
    [] h = "aix" /\ o = "le" -> IF w = 8 THEN htole64(x) ELSE letoh(x, w)
    [] h = "aix-plain" /\ o = "le" -> IF w = 8 THEN htole64_plain(x) ELSE letoh(x, w)

\* be16toh, be32toh, be64toh, le32toh, le64toh
ToHost(h, o, w, x) ==
  CASE h = "windows" -> IF o = "le" THEN x ELSE IF w = 8 THEN ntohll(x) ELSE Swap(x, w)
    [] h # "windows" -> IF o = "be" THEN x ELSE letoh(x, w)

\* What a host has at its addresses for a number, and the other way round.
Memory(h, x, w) == IF h = "windows" THEN x ELSE Swap(x, w)

-----------------------------------------------------------------------------
Nothing == [i \in Places(8) |-> 0]

Init ==
  /\ host \in Hosts \X Hosts
  /\ \E c \in Conversions : order = c[1] /\ width = c[2] /\ value \in [Places(c[2]) -> Bytes]
  /\ wire = Nothing /\ got = Nothing

Send ==
  /\ wire = Nothing
  /\ wire' = Memory(host[1], ToWire(host[1], order, width, value), width)
  /\ UNCHANGED <<host, order, width, value, got>>

Receive ==
  /\ wire # Nothing
  /\ got' = ToHost(host[2], order, width, Memory(host[2], wire, width))
  /\ UNCHANGED <<host, order, width, value, wire>>

Next == Send \/ Receive

Spec == Init /\ [][Next]_vars

-----------------------------------------------------------------------------
(***************************************************************************)
(* Hosts agree: the bytes sent are the number in the order that was asked  *)
(* for, whichever of the definitions the sender's compiler selects, and    *)
(* the receiver gets the number.                                           *)
(***************************************************************************)
WireAgrees ==
  /\ wire # Nothing => wire = IF order = "le" THEN value ELSE Swap(value, width)
  /\ got # Nothing => got = value

=============================================================================
