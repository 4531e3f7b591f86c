-------------------------------- MODULE Text --------------------------------
(***************************************************************************)
(* Go strings of the launcher, abstracted to sequences of tokens.  A token *)
(* is one character ("a", "-", "!", "/", "i", "(", a digit) or one whole   *)
(* placeholder of the tag templater ("{$num}", "{$tag}", ...).  Only the   *)
(* strings package operations the code calls are defined here.            *)
(***************************************************************************)
EXTENDS Naturals, Sequences, SequencesExt

Digits == <<"0", "1", "2", "3", "4", "5", "6", "7", "8", "9">>

\* strings.HasPrefix / strings.HasSuffix.
HasPrefix(s, p) == IsPrefix(p, s)
HasSuffix(s, p) == IsSuffix(p, s)

\* strings.TrimPrefix / strings.TrimSuffix: remove p once if present.
TrimPrefix(s, p) == IF HasPrefix(s, p) THEN SubSeq(s, Len(p) + 1, Len(s)) ELSE s
TrimSuffix(s, p) == IF HasSuffix(s, p) THEN SubSeq(s, 1, Len(s) - Len(p)) ELSE s

\* strings.Contains: p occurs contiguously in s.
HasInfix(s, p) == \E k \in 0..(Len(s) - Len(p)) : SubSeq(s, k + 1, k + Len(p)) = p

\* strings.ReplaceAll(s, tok, val) for a one-token pattern.
ReplaceToken(s, tok, val) ==
    FlattenSeq([k \in 1..Len(s) |-> IF s[k] = tok THEN val ELSE <<s[k]>>])

\* strconv.Itoa for a natural number: its decimal digits.
RECURSIVE Itoa(_)
Itoa(n) == IF n < 10 THEN <<Digits[n + 1]>>
           ELSE Itoa(n \div 10) \o <<Digits[(n % 10) + 1]>>
=============================================================================
