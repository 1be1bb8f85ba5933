---------------------------- MODULE SerialProofs ----------------------------
(***************************************************************************)
(* What the comparisons of serial numbers guarantee their callers, for     *)
(* every size of the space, the 32 bits of the code among them.            *)
(***************************************************************************)
EXTENDS Serial, TLAPS

\* The unsigned difference of two serial numbers.
LEMMA MinusIs ==
    ASSUME NEW a \in Serials, NEW b \in Serials
    PROVE  Minus(a, b) = IF a >= b THEN a - b ELSE a - b + Space
<1>1. Space \in Nat \ {0} /\ a \in Int /\ b \in Int /\ a - b >= -Space /\ a - b < Space
  BY HalfAssumption DEF Space, Serials
<1>2. CASE a >= b
  BY <1>1, <1>2 DEF Minus
<1>3. CASE a < b
  BY <1>1, <1>3 DEF Minus
<1> QED BY <1>1, <1>2, <1>3

\* Of two serial numbers at most one is greater, and never one of itself
\* (isc_serial_gt(), isc_serial_ge()): a loop that takes the greater of two
\* cannot go round.
THEOREM Asymmetric ==
    \A a, b \in Serials : SERIAL_GT(a, b) => a # b /\ ~SERIAL_GE(b, a)
<1> SUFFICES ASSUME NEW a \in Serials, NEW b \in Serials, SERIAL_GT(a, b)
             PROVE  a # b /\ ~SERIAL_GE(b, a)
  OBVIOUS
<1>1. /\ Minus(a, b) = IF a >= b THEN a - b ELSE a - b + Space
      /\ Minus(b, a) = IF b >= a THEN b - a ELSE b - a + Space
  BY MinusIs
<1> QED BY <1>1, HalfAssumption DEF SERIAL_GT, SERIAL_GE, Serials, Space

\* Two serial numbers can be compared unless they are half the space apart;
\* then neither is greater ("Undefined => ISC_FALSE").
THEOREM Comparable ==
    \A a, b \in Serials :
        SERIAL_GT(a, b) \/ SERIAL_GT(b, a) <=> a # b /\ Minus(a, b) # Half
<1> SUFFICES ASSUME NEW a \in Serials, NEW b \in Serials
             PROVE  SERIAL_GT(a, b) \/ SERIAL_GT(b, a) <=> a # b /\ Minus(a, b) # Half
  OBVIOUS
<1>1. /\ Minus(a, b) = IF a >= b THEN a - b ELSE a - b + Space
      /\ Minus(b, a) = IF b >= a THEN b - a ELSE b - a + Space
  BY MinusIs
<1> QED BY <1>1, HalfAssumption DEF SERIAL_GT, Serials, Space

\* A serial number raised by less than half the space is greater, over the
\* end of the space as well.
THEOREM Raised ==
    \A a \in Serials, d \in 1 .. Half - 1 :
        (a + d) % Space \in Serials /\ SERIAL_GT((a + d) % Space, a)
<1> SUFFICES ASSUME NEW a \in Serials, NEW d \in 1 .. Half - 1
             PROVE  (a + d) % Space \in Serials /\ SERIAL_GT((a + d) % Space, a)
  OBVIOUS
<1> DEFINE b == (a + d) % Space
<1>1. Space \in Nat \ {0} /\ a \in Int /\ a + d - Space >= -Space /\ a + d - Space < Space
  BY HalfAssumption DEF Space, Serials
<1>2. b = IF a + d < Space THEN a + d ELSE a + d - Space
  BY <1>1, HalfAssumption, SMT DEF Space, Serials
<1>3. b \in Serials
  BY <1>1, <1>2, HalfAssumption DEF Serials, Space
<1> HIDE DEF b
<1>4. Minus(b, a) = IF b >= a THEN b - a ELSE b - a + Space
  BY <1>3, MinusIs
<1>5. SERIAL_GT(b, a)
  BY <1>2, <1>4, HalfAssumption DEF SERIAL_GT, Serials, Space
<1> QED BY <1>3, <1>5 DEF b

\* The order is not transitive.  After a comes b, and after b comes c: then c is
\* after a as long as the two steps span less than half the space, and only so
\* long.  dns_journal_commit() purges its oldest transactions by this test
\* alone; what it keeps is therefore what the new serial number can address,
\* nothing less.
THEOREM PurgeExact ==
    \A a, b, c \in Serials :
        SERIAL_GE(b, a) /\ SERIAL_GT(c, b)
        => (SERIAL_GT(c, a) <=> Minus(b, a) + Minus(c, b) < Half)
<1> SUFFICES ASSUME NEW a \in Serials, NEW b \in Serials, NEW c \in Serials,
                    SERIAL_GE(b, a), SERIAL_GT(c, b)
             PROVE  SERIAL_GT(c, a) <=> Minus(b, a) + Minus(c, b) < Half
  OBVIOUS
<1>1. /\ Minus(b, a) = IF b >= a THEN b - a ELSE b - a + Space
      /\ Minus(c, b) = IF c >= b THEN c - b ELSE c - b + Space
      /\ Minus(c, a) = IF c >= a THEN c - a ELSE c - a + Space
  BY MinusIs
<1>2. Minus(c, a) = Minus(b, a) + Minus(c, b)
  BY <1>1, HalfAssumption DEF SERIAL_GT, SERIAL_GE, Serials, Space
<1>3. Minus(b, a) \in Nat /\ Minus(c, b) \in Nat \ {0}
  BY DEF SERIAL_GT, SERIAL_GE
<1> QED BY <1>2, <1>3, HalfAssumption DEF SERIAL_GT
=============================================================================
