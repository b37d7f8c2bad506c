------------------------------ MODULE KeyFile ------------------------------
(***************************************************************************)
(* Hexadecimal text: toHex, fromHex and fromHexFixed of crypto/hash, and   *)
(* the key files that savePrivateKey and loadPrivateKey of                 *)
(* crypto/key_io.cpp keep in it, as operators.  The same conversions read  *)
(* addresses, hashes and signatures from genesis files, messages and RPC   *)
(* parameters.                                                             *)
(*                                                                         *)
(* A text is a sequence of characters.  std::stoul is external: it skips   *)
(* leading space, takes a sign, and converts as many digits as it finds,   *)
(* at least one.                                                           *)
(***************************************************************************)
EXTENDS Integers, FiniteSets, Sequences, SequencesExt

CONSTANTS
    KeyLength,  \* bytes of a private key
    None        \* no file; an exception

ASSUME KeyFileAssumption == KeyLength \in Nat \ {0}

PrivateKey == [1..KeyLength -> 0..255]

-----------------------------------------------------------------------------
(***************************************************************************)
(* crypto/hash                                                             *)
(***************************************************************************)

hexChars == <<"0", "1", "2", "3", "4", "5", "6", "7",
              "8", "9", "a", "b", "c", "d", "e", "f">>

UpperCase == <<"A", "B", "C", "D", "E", "F">>

\* The digits with their values.
Digit ==
    [c \in ToSet(hexChars) \cup ToSet(UpperCase) |->
        CHOOSE v \in 0..15 :
            hexChars[v + 1] = c \/ (v >= 10 /\ UpperCase[v - 9] = c)]

IsDigit(c) == c \in DOMAIN Digit

Space == {" ", "\t", "\r", "\n"}

\* None is neither a byte nor a text.
ASSUME NoneAssumption == None \notin Int \cup Seq(ToSet(hexChars) \cup Space)

\* Mutant: a leading zero is left out, as by printing with %x.
toHex_Unpadded(data) ==
    FoldLeft(LAMBDA text, b :
                 text \o (IF b < 16 THEN << >> ELSE <<hexChars[(b \div 16) + 1]>>)
                      \o <<hexChars[(b % 16) + 1]>>,
             << >>, data)

\* Two digits for each byte.
toHex(data) ==
    [i \in 1..2 * Len(data) |->
        LET b == data[(i + 1) \div 2]
        IN  hexChars[(IF i % 2 = 1 THEN b \div 16 ELSE b % 16) + 1]]

\* std::stoul with base 16 of two characters, None when it throws.
stoul(c, d) ==
    IF IsDigit(c)
    THEN IF IsDigit(d) THEN 16 * Digit[c] + Digit[d] ELSE Digit[c]
    ELSE IF IsDigit(d) /\ c \in Space \cup {"+", "-"}
         THEN IF c = "-" THEN - Digit[d] ELSE Digit[d]
         ELSE None

\* A byte for each pair of characters; empty if there is an odd one or if
\* stoul throws.
fromHex(hex) ==
    LET pair(i) == stoul(hex[2*i - 1], hex[2*i])
        pairs == 1..(Len(hex) \div 2)
    IN  IF Len(hex) % 2 # 0 \/ \E i \in pairs : pair(i) = None
        THEN << >> ELSE [i \in pairs |-> pair(i) % 256]

\* An exception unless there are n bytes.
fromHexFixed(n, hex) == IF Len(fromHex(hex)) = n THEN fromHex(hex) ELSE None

-----------------------------------------------------------------------------
(***************************************************************************)
(* crypto/key_io                                                           *)
(***************************************************************************)

\* The first line of a text, the whitespace in it removed: the characters that
\* are kept, in their order.
Line(text) ==
    LET ends == {i \in DOMAIN text : text[i] = "\n"} \cup {Len(text) + 1}
        end == CHOOSE i \in ends : \A j \in ends : i <= j
        kept == {i \in 1..end-1 : text[i] \notin Space}
    IN  [n \in 1..Cardinality(kept) |->
            text[CHOOSE i \in kept : Cardinality({j \in kept : j <= i}) = n]]

loadPrivateKey(text) ==
    IF text = None \/ Line(text) = << >> THEN None
    ELSE fromHexFixed(KeyLength, Line(text))

\* The text that is written.
savePrivateKey(k) == Append(toHex(k), "\n")

=============================================================================
