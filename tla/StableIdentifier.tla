------------------------- MODULE StableIdentifier -------------------------
(***************************************************************************)
(* make_stable_identifier of tools/spy_table_config_sync.py: the name under *)
(* which an imported source or table is registered.  A text is a sequence  *)
(* of characters.                                                          *)
(***************************************************************************)
EXTENDS Integers, Sequences, FiniteSetsExt

CONSTANTS
  Underscore,    \* the character "_"
  Alnum,         \* the characters isalnum() accepts
  Lower,         \* lower() of each of them
  Unknown,       \* the text "unknown"
  DigestLength,  \* how much of the digest is kept
  Digest(_)      \* the beginning of the SHA-1 of a text

(* Characters are numbers, and "unknown" begins with a letter. *)
ASSUME TextAssumption ==
  /\ Underscore \in Int /\ Lower \in [Alnum -> Int] /\ DigestLength \in Nat
  /\ Unknown \in Seq(Int) /\ Unknown # <<>> /\ Unknown[1] # Underscore

Prefix(s, n) == SubSeq(s, 1, IF n < Len(s) THEN n ELSE Len(s))

(* rstrip("_") and strip("_"). *)
StripRight(s) == Prefix(s, Max({0} \union {i \in DOMAIN s : s[i] # Underscore}))
StripBoth(s) ==
  LET kept == {i \in DOMAIN s : s[i] # Underscore}
  IN IF kept = {} THEN <<>> ELSE SubSeq(s, Min(kept), Max(kept))

Base(raw) ==
  LET base == StripBoth([i \in DOMAIN raw |->
                 IF raw[i] \in Alnum THEN Lower[raw[i]] ELSE Underscore])
  IN IF base = <<>> THEN Unknown ELSE base

\* mutant: long names are cut and nothing tells them apart
MakeCutIdentifier(raw, prefix, maxLength) ==
  LET candidate == prefix \o Base(raw)
  IN IF Len(candidate) <= maxLength THEN candidate
     ELSE StripRight(Prefix(candidate, maxLength))
\* mutant: the underscore before the digest is not counted
MakeLongIdentifier(raw, prefix, maxLength) ==
  LET base      == Base(raw)
      candidate == prefix \o base
      available == maxLength - Len(prefix) - DigestLength
      truncated == StripRight(Prefix(base, Max({1, available})))
  IN IF Len(candidate) <= maxLength THEN candidate
     ELSE prefix \o truncated \o <<Underscore>> \o Digest(raw)
MakeStableIdentifier(raw, prefix, maxLength) ==
  LET base      == Base(raw)
      candidate == prefix \o base
      available == maxLength - Len(prefix) - DigestLength - 1
      truncated == StripRight(Prefix(base, Max({1, available})))
  IN IF Len(candidate) <= maxLength THEN candidate
     ELSE prefix \o truncated \o <<Underscore>> \o Digest(raw)
=============================================================================
