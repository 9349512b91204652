----------------------------- MODULE HexEncoding -----------------------------
(***************************************************************************)
(* The conversions of byte arrays to hexadecimal text that keys and        *)
(* signatures are printed and answered with: DHKeyAgreement2.toHexString   *)
(* (pairs of digits between colons), DHKeyAgreement2.toHex (through a      *)
(* BigInteger) and HMAC.toHexString (through a Formatter).                 *)
(*                                                                         *)
(* A byte is an integer from -128 to 127, a hexadecimal digit its value;   *)
(* upper and lower case are not told apart.                                *)
(***************************************************************************)
EXTENDS FunctionCalls, Integers, Sequences

LOCAL INSTANCE SequencesExt

CONSTANTS
  Bytes,      \* the bytes arrays are made of
  MaxBytes    \* bound: the length of arrays

ASSUME BytesAssumption == Bytes \subseteq -128 .. 127 /\ MaxBytes \in Nat

(* The separator, which is no digit. *)
Colon == 16

ByteArrays == UNION {[1 .. n -> Bytes] : n \in 0 .. MaxBytes}

(* Variant: the high digit without its mask. *)
Byte2hexUnmasked(b) == <<b \div 16, b % 16>>

(* byte2hex: the digits of (b & 0xf0) >> 4 and b & 0x0f *)
Byte2hex(b) == <<(b % 256) \div 16, b % 16>>

(* DHKeyAgreement2.toHexString *)
ToHexString(block) ==
  FoldLeft(LAMBDA buf, i : buf \o Byte2hex(block[i]) \o (IF i < Len(block) THEN <<Colon>> ELSE <<>>),
           <<>>, [i \in DOMAIN block |-> i])

(* new BigInteger(1, array): the bytes as an unsigned big-endian number *)
BigInteger(array) == FoldLeft(LAMBDA n, b : 256 * n + (b % 256), 0, array)

(* BigInteger.toString(16): no leading zeros, and "0" for zero *)
Base16[n \in Nat] == IF n < 16 THEN <<n>> ELSE Append(Base16[n \div 16], n % 16)

(* toHex: pad with zeros to two digits for each byte.  (Text that is too   *)
(* long, the "0" of an empty array, is left as it is.)                     *)
ToHex(array) ==
  LET hex == Base16[BigInteger(array)]
      paddingLength == 2 * Len(array) - Len(hex)
  IN IF paddingLength > 0 THEN [k \in 1 .. paddingLength |-> 0] \o hex ELSE hex

(* Formatter's "%02x": a negative byte is formatted as b + 256. *)
Format02x(b) ==
  LET hex == Base16[IF b < 0 THEN b + 256 ELSE b]
  IN IF Len(hex) < 2 THEN <<0>> \o hex ELSE hex

(* HMAC.toHexString *)
Formatted(array) == FoldLeft(LAMBDA s, b : s \o Format02x(b), <<>>, array)

HexCalls == call = Idle /\ \E block \in ByteArrays : Call([fn |-> "hex", block |-> block])

(***************************************************************************)
(* Properties                                                              *)
(***************************************************************************)

(* The text of toHexString can be read back: every byte is recovered, sign *)
(* bit included, from its two digits, there is a colon after each byte but *)
(* the last, and nothing else.                                             *)
HexDecodes ==
  call.fn = "hex" =>
    LET block == call.block
        buf == ToHexString(block)
    IN /\ Len(buf) = IF block = <<>> THEN 0 ELSE 3 * Len(block) - 1
       /\ \A k \in DOMAIN block :
            /\ (16 * buf[3 * k - 2] + buf[3 * k - 1] - block[k]) % 256 = 0
            /\ buf[3 * k - 2] \in 0 .. 15 /\ buf[3 * k - 1] \in 0 .. 15
            /\ k < Len(block) => buf[3 * k] = Colon

(* The conversions agree: toHex's BigInteger and padding give the digits   *)
(* toHexString prints, leading zeros and negative bytes included, and so   *)
(* does HMAC's formatter.  An empty array is the exception: toHex makes    *)
(* it "0".                                                                 *)
EncodersAgree ==
  call.fn = "hex" /\ call.block # <<>> =>
    LET digits == SelectSeq(ToHexString(call.block), LAMBDA c : c # Colon)
    IN ToHex(call.block) = digits /\ Formatted(call.block) = digits

(* toHexString, toHex and HMAC's toHexString say the same bytes: their     *)
(* text can be read back, and they agree on every array that is not empty. *)
HexExact ==
  /\ HexDecodes
  /\ EncodersAgree
=============================================================================
