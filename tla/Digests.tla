------------------------------ MODULE Digests -------------------------------
(***************************************************************************)
(* jet-core digests: their names on disk and in logs, and the framing of    *)
(* composite keys.                                                          *)
(*                                                                          *)
(* A digest is a string of bytes, a byte a number below 256. Text is a      *)
(* sequence of characters: a hex digit is its value and its case, and "b",  *)
(* "3" and ":" of the prefix are the digits 11 and 3 and a character that   *)
(* is no digit.                                                             *)
(***************************************************************************)
EXTENDS Naturals, Sequences, SequencesExt

CONSTANT Bytes   \* DIGEST_LEN

ASSUME BytesAssumption == Bytes \in Nat \ {0}

Digit(n) == <<n, "lower">>
Colon == <<0, "no digit">>
Prefix == <<Digit(11), Digit(3), Colon>>

Digest == [1 .. Bytes -> 0 .. 255]
Char == (0 .. 15) \X {"lower", "upper", "no digit"}

IsHex(c) == c[2] \in {"lower", "upper"}

\* Digest::to_hex, the name of the object's file
ToHex(d) == FlattenSeq([i \in DOMAIN d |-> <<Digit(d[i] \div 16), Digit(d[i] % 16)>>])

\* Digest::to_prefixed
ToPrefixed(d) == Prefix \o ToHex(d)

\* Digest::fanout, the name of the object's directory
Fanout(d) == <<Digit(d[1] \div 16), Digit(d[1] % 16)>>

\* Mutant: the length is not looked at.
ParseAnyLength(text) ==
    LET hex == IF IsPrefix(Prefix, text) THEN SubSeq(text, 4, Len(text)) ELSE text
    IN  IF \E i \in DOMAIN hex : ~IsHex(hex[i]) THEN [error |-> "NotHex"]
        ELSE [digest |-> [i \in 1 .. Len(hex) \div 2 |-> 16 * hex[2 * i - 1][1] + hex[2 * i][1]]]

\* Digest::parse; hex::decode_to_slice takes digits of either case
Parse(text) ==
    LET hex == IF IsPrefix(Prefix, text) THEN SubSeq(text, 4, Len(text)) ELSE text
    IN  IF Len(hex) # 2 * Bytes THEN [error |-> "BadLength"]
        ELSE IF \E i \in DOMAIN hex : ~IsHex(hex[i]) THEN [error |-> "NotHex"]
        ELSE [digest |-> [i \in 1 .. Bytes |-> 16 * hex[2 * i - 1][1] + hex[2 * i][1]]]

\* Mutant: fields are concatenated without their lengths.
FramedBare(fields) == FlattenSeq(fields)

\* Hasher::update_framed for each field: what the hash is taken of
Framed(fields) == FlattenSeq([i \in DOMAIN fields |-> <<Len(fields[i])>> \o fields[i]])

(***************************************************************************)
(* What is checked of them                                                  *)
(***************************************************************************)

\* A digest is found again under the names it is stored and logged by: hex with
\* and without prefix, and the directory is the hex's first byte.
ParsesBack(d) ==
    /\ Parse(ToHex(d)) = [digest |-> d]
    /\ Parse(ToPrefixed(d)) = [digest |-> d]
    /\ Fanout(d) = SubSeq(ToHex(d), 1, 2)

\* Only the text of a digest is parsed as one, in either case and with at most
\* one prefix.
ParsesOnlyDigests(text) ==
    LET got == Parse(text)
        lower == [i \in DOMAIN text |-> IF IsHex(text[i]) THEN Digit(text[i][1]) ELSE text[i]]
    IN  "digest" \in DOMAIN got =>
          /\ Len(got.digest) = Bytes
          /\ lower \in {ToHex(got.digest), ToPrefixed(got.digest)}

\* Two lists of fields that are hashed field by field never hash the same bytes.
FramesDiffer(one, two) == Framed(one) = Framed(two) => one = two
=============================================================================
