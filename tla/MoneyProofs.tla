----------------------------- MODULE MoneyProofs -----------------------------
(***************************************************************************)
(* Whole cents survive the doubles, and fractions of a cent do so but for a *)
(* cent in the rows: for every rounding that is off by less than an eighth *)
(* of a cent, any number of users, products and operations.                *)
(***************************************************************************)
EXTENDS Money, TLAPS

Within(x, y, d) == -d <= x - y /\ x - y <= d

-----------------------------------------------------------------------------
(* Conversions.                                                            *)

\* More cents are at least a cent more.
LEMMA MoreCents ==
    ASSUME NEW c \in Int, NEW d \in Int, c >= d + 1
    PROVE  c * Cent >= d * Cent + Cent
BY MoneyAssumption

\* Near a whole number of cents, rounding gives that number.
LEMMA NearestIsBack ==
    ASSUME NEW c \in Int, NEW x \in Int, Within(x, c * Cent, 4 * Slack)
    PROVE  Nearest(x) = c
<1>1. -Cent < 2 * (x - c * Cent) /\ 2 * (x - c * Cent) < Cent
  BY MoneyAssumption DEF Within
<1> QED
  BY <1>1, MoneyAssumption DEF Nearest

LEMMA CentsInRange ==
    ASSUME NEW c \in 0 .. Limit
    PROVE  c * Cent \in 0 .. Limit * Cent
<1>1. c * Cent \in Nat
  BY MoneyAssumption
<1>2. c = Limit \/ Limit >= c + 1
  BY MoneyAssumption
<1>3. Limit * Cent >= c * Cent
  BY <1>2, MoreCents, MoneyAssumption
<1> QED
  BY <1>1, <1>3, MoneyAssumption

LEMMA Rounds ==
    ASSUME NEW x \in Span
    PROVE  /\ Double[x] \in Nat /\ Within(Double[x], x, Slack)
           /\ Sent[x] \in Nat /\ Within(Sent[x], x, Slack)
           /\ Scaled[x] \in Nat /\ Within(Scaled[x], x, Slack)
           /\ x \in Int
BY MoneyAssumption DEF Rounding, Within, Span

LEMMA NumberIsNear ==
    ASSUME NEW c \in 0 .. Limit
    PROVE  /\ Number(c) \in 0 .. Limit * Cent + Slack
           /\ Within(Number(c), c * Cent, Slack)
<1>1. c * Cent \in 0 .. Limit * Cent
  BY CentsInRange
<1>2. c * Cent \in Span
  BY <1>1, MoneyAssumption DEF Span
<1> QED
  BY <1>1, <1>2, Rounds, MoneyAssumption DEF Number, Within

\* Three roundings away from c cents, c cents are stored.
LEMMA StoredIsBack ==
    ASSUME NEW c \in Int, NEW x \in Span, Within(x, c * Cent, 3 * Slack)
    PROVE  Stored(x) = c
<1>1. Sent[x] \in Int /\ Within(Sent[x], x, Slack) /\ x \in Int
  BY Rounds
<1>2. Within(Sent[x], c * Cent, 4 * Slack)
  BY <1>1, MoneyAssumption DEF Within
<1> QED
  BY <1>1, <1>2, NearestIsBack DEF Stored

LEMMA StoredNumber ==
    ASSUME NEW c \in 0 .. Limit
    PROVE  Stored(Number(c)) = c
<1>1. Number(c) \in Span /\ Within(Number(c), c * Cent, 3 * Slack)
  BY NumberIsNear, MoneyAssumption DEF Span, Within
<1> QED
  BY <1>1, StoredIsBack

LEMMA StoredSum ==
    ASSUME NEW c \in 0 .. Limit, NEW d \in 0 .. Limit
    PROVE  Stored(Plus(c, Number(d))) = c + d
<1> DEFINE sum == Number(c) + Number(d)
<1>1. /\ Number(c) \in 0 .. Limit * Cent + Slack
      /\ Number(d) \in 0 .. Limit * Cent + Slack
      /\ Within(Number(c), c * Cent, Slack)
      /\ Within(Number(d), d * Cent, Slack)
  BY NumberIsNear
<1>2. (c + d) * Cent = c * Cent + d * Cent /\ c * Cent \in Int /\ d * Cent \in Int
  BY MoneyAssumption
<1>3. sum \in 0 .. 2 * Limit * Cent + 2 * Slack
  BY <1>1, MoneyAssumption
<1>4. Within(sum, (c + d) * Cent, 2 * Slack)
  BY <1>1, <1>2, MoneyAssumption DEF Within
<1>5. sum \in Span
  BY <1>3, MoneyAssumption DEF Span
<1> HIDE DEF sum
<1>6. Double[sum] \in Nat /\ Within(Double[sum], sum, Slack)
  BY <1>5, Rounds
<1>7. Double[sum] \in Span /\ Within(Double[sum], (c + d) * Cent, 3 * Slack)
  BY <1>2, <1>3, <1>4, <1>6, MoneyAssumption DEF Span, Within
<1>8. Stored(Double[sum]) = c + d
  BY <1>7, StoredIsBack
<1> QED
  BY <1>8 DEF Plus, sum

\* Doubles of whole cents compare as the cents do.
LEMMA CoversIsExact ==
    ASSUME NEW c \in 0 .. Limit, NEW d \in 0 .. Limit
    PROVE  Covers(c, Number(d)) <=> c >= d
<1>1. /\ Number(c) \in Nat /\ Number(d) \in Nat
      /\ Within(Number(c), c * Cent, Slack)
      /\ Within(Number(d), d * Cent, Slack)
      /\ c * Cent \in Int /\ d * Cent \in Int
  BY NumberIsNear, MoneyAssumption
<1>2. CASE c = d
  BY <1>1, <1>2 DEF Covers
<1>3. CASE c >= d + 1
  BY <1>1, <1>3, MoreCents, MoneyAssumption DEF Covers, Within
<1>4. CASE d >= c + 1
  BY <1>1, <1>4, MoreCents, MoneyAssumption DEF Covers, Within
<1> QED
  BY <1>2, <1>3, <1>4

LEMMA StoredDifference ==
    ASSUME NEW c \in 0 .. Limit, NEW d \in 0 .. Limit, Covers(c, Number(d))
    PROVE  Stored(Minus(c, Number(d))) = c - d
<1> DEFINE left == Number(c) - Number(d)
<1>1. /\ Number(c) \in 0 .. Limit * Cent + Slack
      /\ Number(d) \in 0 .. Limit * Cent + Slack
      /\ Within(Number(c), c * Cent, Slack)
      /\ Within(Number(d), d * Cent, Slack)
  BY NumberIsNear
<1>2. (c - d) * Cent = c * Cent - d * Cent /\ c * Cent \in Int /\ d * Cent \in Int
  BY MoneyAssumption
<1>3. left \in 0 .. Limit * Cent + Slack
  BY <1>1, MoneyAssumption DEF Covers
<1>4. Within(left, (c - d) * Cent, 2 * Slack)
  BY <1>1, <1>2, MoneyAssumption DEF Within
<1>5. left \in Span
  BY <1>3, MoneyAssumption DEF Span
<1> HIDE DEF left
<1>6. Double[left] \in Nat /\ Within(Double[left], left, Slack)
  BY <1>5, Rounds
<1>7. Double[left] \in Span /\ Within(Double[left], (c - d) * Cent, 3 * Slack)
  BY <1>2, <1>3, <1>4, <1>6, MoneyAssumption DEF Span, Within
<1>8. Stored(Double[left]) = c - d
  BY <1>7, StoredIsBack
<1> QED
  BY <1>8 DEF Minus, left

-----------------------------------------------------------------------------
(* Amounts that are not whole cents.                                       *)

LEMMA Division ==
    ASSUME NEW a \in Int, NEW b \in Nat, b > 0
    PROVE  /\ a \div b \in Int /\ a % b \in 0 .. b - 1
           /\ a = b * (a \div b) + (a % b)
OBVIOUS

\* Rounding to cents is off by half a cent.
LEMMA NearestIsNear ==
    ASSUME NEW x \in Nat
    PROVE  /\ Nearest(x) \in Nat
           /\ -Cent <= 2 * x - 2 * (Nearest(x) * Cent)
           /\ 2 * x - 2 * (Nearest(x) * Cent) <= Cent
<1> DEFINE q == Nearest(x)
           rest == (2 * x + Cent) % (2 * Cent)
<1>1. 2 * x + Cent \in Nat /\ 2 * Cent \in Nat /\ 2 * Cent > 0
  BY MoneyAssumption
<1>2. q \in Int /\ rest \in 0 .. 2 * Cent - 1 /\ 2 * x + Cent = (2 * Cent) * q + rest
  <2> DEFINE n == 2 * x + Cent
             d == 2 * Cent
  <2>1. n \in Int /\ d \in Nat /\ d > 0
    BY <1>1
  <2> HIDE DEF n, d
  <2>2. n \div d \in Int /\ n % d \in 0 .. d - 1 /\ n = d * (n \div d) + (n % d)
    BY <2>1, Division
  <2> QED
    BY <2>2 DEF Nearest, n, d
<1>3. (2 * Cent) * q = 2 * (q * Cent)
  BY <1>2, MoneyAssumption
<1>4. q >= 0
  <2>1. CASE q <= -1
    <3>1. (-1) * Cent >= q * Cent
      BY <1>2, <2>1, MoneyAssumption
    <3> QED
      BY <1>1, <1>2, <1>3, <3>1, MoneyAssumption
  <2> QED
    BY <1>2, <2>1
<1> HIDE DEF q, rest
<1>5. q * Cent \in Int
  BY <1>2, MoneyAssumption
<1>6. -Cent <= 2 * x - 2 * (q * Cent) /\ 2 * x - 2 * (q * Cent) <= Cent
  BY <1>2, <1>3, <1>5, MoneyAssumption
<1> QED
  BY <1>2, <1>4, <1>6 DEF q

\* What is stored is off by half a cent and one rounding.
LEMMA StoredIsNear ==
    ASSUME NEW x \in Span
    PROVE  /\ Stored(x) \in Nat
           /\ Stored(x) * Cent \in Nat
           /\ -(Cent + 2 * Slack) <= 2 * x - 2 * (Stored(x) * Cent)
           /\ 2 * x - 2 * (Stored(x) * Cent) <= Cent + 2 * Slack
<1>1. Sent[x] \in Nat /\ Within(Sent[x], x, Slack) /\ x \in Int
  BY Rounds
<1> DEFINE q == Stored(x)
<1>2. /\ q \in Nat /\ -Cent <= 2 * Sent[x] - 2 * (q * Cent)
      /\ 2 * Sent[x] - 2 * (q * Cent) <= Cent
  BY <1>1, NearestIsNear DEF Stored
<1> HIDE DEF q
<1>3. q * Cent \in Nat
  BY <1>2, MoneyAssumption
<1> QED
  BY <1>1, <1>2, <1>3, MoneyAssumption DEF Within, q

\* What is at most c cents, but for the roundings, is stored as at most c.
LEMMA StoredBelow ==
    ASSUME NEW x \in Span, NEW c \in 0 .. Limit, x <= c * Cent + 3 * Slack
    PROVE  Stored(x) \in 0 .. Limit
<1> DEFINE q == Stored(x)
<1>1. /\ q \in Nat /\ q * Cent \in Nat /\ c * Cent \in Int /\ x \in Int
      /\ -(Cent + 2 * Slack) <= 2 * x - 2 * (q * Cent)
  BY StoredIsNear, Rounds, MoneyAssumption
<1> HIDE DEF q
<1>2. CASE q >= c + 1
  <2>1. q * Cent >= c * Cent + Cent
    BY <1>1, <1>2, MoreCents
  <2> QED
    BY <1>1, <2>1, MoneyAssumption
<1> QED
  BY <1>1, <1>2, MoneyAssumption DEF q

\* A number of cents that is less than two cents away from nothing.
LEMMA LessThanTwo ==
    ASSUME NEW d \in Int, -4 * Cent < 2 * (d * Cent), 2 * (d * Cent) < 4 * Cent
    PROVE  d \in -1 .. 1
<1>1. d * Cent \in Int
  BY MoneyAssumption
<1>2. CASE d >= 1 + 1
  <2>1. d * Cent >= 1 * Cent + Cent
    BY <1>2, MoreCents
  <2> QED
    BY <1>1, <2>1, MoneyAssumption
<1>3. CASE -2 >= d
  <2>1. (-1) * Cent >= d * Cent + Cent
    BY <1>3, MoreCents
  <2> QED
    BY <1>1, <2>1, MoneyAssumption
<1> QED
  BY <1>2, <1>3

\* What is asked, and as a number of cents if it is one.
LEMMA AskedRange ==
    ASSUME NEW a \in Asked
    PROVE  /\ a \in 0 .. Limit * Cent
           /\ Double[a] \in 0 .. Limit * Cent + Slack
           /\ Within(Double[a], a, Slack)
<1>1. a \in 0 .. Limit * Cent /\ Limit * Cent \in Nat
  BY MoneyAssumption
<1>2. a \in Span
  BY <1>1, MoneyAssumption DEF Span
<1> QED
  BY <1>1, <1>2, Rounds, MoneyAssumption DEF Within

LEMMA AskedCents ==
    ASSUME NEW a \in Asked, a % Cent = 0
    PROVE  \E n \in 0 .. Limit : a = n * Cent /\ Double[a] = Number(n)
<1> DEFINE n == a \div Cent
<1>1. a \in 0 .. Limit * Cent /\ Limit * Cent \in Nat
  BY MoneyAssumption
<1>2. n \in Int /\ a = Cent * n + (a % Cent)
  BY <1>1, Division, MoneyAssumption
<1> HIDE DEF n
<1>3. a = n * Cent
  BY <1>1, <1>2, MoneyAssumption
<1>4. n >= 0
  <2>1. CASE 0 >= n + 1
    <3>1. 0 * Cent >= n * Cent + Cent
      BY <1>2, <2>1, MoreCents
    <3> QED
      BY <1>1, <1>3, <3>1, MoneyAssumption
  <2> QED
    BY <1>2, <2>1
<1>5. n <= Limit
  <2>1. CASE n >= Limit + 1
    <3>1. n * Cent >= Limit * Cent + Cent
      BY <1>2, <2>1, MoreCents, MoneyAssumption
    <3> QED
      BY <1>1, <1>3, <3>1, MoneyAssumption
  <2> QED
    BY <1>2, <2>1, MoneyAssumption
<1> QED
  BY <1>2, <1>3, <1>4, <1>5 DEF Number

\* The amount of a row.
LEMMA AskedAmount ==
    ASSUME NEW a \in Asked
    PROVE  /\ Double[a] \in Span /\ Stored(Double[a]) \in 0 .. Limit
<1>1. /\ Double[a] \in 0 .. Limit * Cent + Slack /\ Limit \in 0 .. Limit
      /\ Limit * Cent \in Nat
  BY AskedRange, MoneyAssumption
<1>2. Double[a] \in Span
  BY <1>1, MoneyAssumption DEF Span
<1> QED
  BY <1>1, <1>2, StoredBelow, MoneyAssumption

-----------------------------------------------------------------------------
(* The rows of the statement.                                              *)

RowOK(e) ==
    /\ e \in EntryRow
    /\ Gap(e) \in -1 .. 1
    /\ e.asked % Cent = 0 => Gap(e) = 0

\* The sum and the amount are rounded one by one.
LEMMA DepositRow ==
    ASSUME NEW c \in 0 .. Limit, NEW a \in Asked, Fits(Plus(c, Double[a]))
    PROVE  /\ Stored(Plus(c, Double[a])) \in 0 .. Limit
           /\ RowOK(Entry("DEPOSIT", a, Double[a], c, Plus(c, Double[a])))
<1> DEFINE sum == Number(c) + Double[a]
           A == Stored(Double[sum])
           N == Stored(Double[a])
           e == Entry("DEPOSIT", a, Double[a], c, Plus(c, Double[a]))
<1>1. /\ Number(c) \in 0 .. Limit * Cent + Slack /\ Within(Number(c), c * Cent, Slack)
      /\ c * Cent \in Int
  BY NumberIsNear, MoneyAssumption
<1>2. /\ a \in Nat /\ Double[a] \in 0 .. Limit * Cent + Slack
      /\ Within(Double[a], a, Slack)
  BY AskedRange
<1>3. sum \in 0 .. 2 * Limit * Cent + 2 * Slack
  BY <1>1, <1>2, MoneyAssumption
<1>4. sum \in Span
  BY <1>3, MoneyAssumption DEF Span
<1>5. Within(sum, c * Cent + a, 2 * Slack)
  BY <1>1, <1>2, MoneyAssumption DEF Within
<1>6. Double[sum] \in Nat /\ Within(Double[sum], sum, Slack)
  BY <1>4, Rounds
<1> HIDE DEF sum
<1>7. Double[sum] \in Span
  BY <1>3, <1>6, MoneyAssumption DEF Span, Within
<1>8. /\ A \in Nat /\ A * Cent \in Nat
      /\ -(Cent + 2 * Slack) <= 2 * Double[sum] - 2 * (A * Cent)
      /\ 2 * Double[sum] - 2 * (A * Cent) <= Cent + 2 * Slack
  BY <1>7, StoredIsNear
<1>9. /\ N \in 0 .. Limit /\ N * Cent \in Nat
      /\ -(Cent + 2 * Slack) <= 2 * Double[a] - 2 * (N * Cent)
      /\ 2 * Double[a] - 2 * (N * Cent) <= Cent + 2 * Slack
  BY AskedAmount, StoredIsNear
<1>10. Stored(Number(c)) = c /\ A <= Limit
  BY StoredNumber DEF Fits, Plus, sum
<1> HIDE DEF A, N
<1>11. (A - c - N) * Cent = A * Cent - c * Cent - N * Cent
  BY <1>8, <1>9, MoneyAssumption
<1>12. A - c - N \in -1 .. 1
  <2>1. /\ -4 * Cent < 2 * (A * Cent - c * Cent - N * Cent)
        /\ 2 * (A * Cent - c * Cent - N * Cent) < 4 * Cent
    BY <1>1, <1>2, <1>3, <1>5, <1>6, <1>8, <1>9, MoneyAssumption DEF Within
  <2>2. A - c - N \in Int
    BY <1>8, <1>9
  <2> QED
    BY <1>11, <2>1, <2>2, LessThanTwo
<1>13. ASSUME a % Cent = 0 PROVE A - c - N = 0
  <2>1. PICK n \in 0 .. Limit : Double[a] = Number(n)
    BY <1>13, AskedCents
  <2>2. A = c + n /\ N = n
    BY <2>1, StoredSum, StoredNumber DEF A, N, sum, Plus
  <2> QED
    BY <2>2
<1>14. e = [type |-> "DEPOSIT", asked |-> a, amount |-> N, before |-> c, after |-> A]
  BY <1>10 DEF Entry, A, N, sum, Plus
<1>15. Gap(e) = A - c - N
  BY <1>14 DEF Gap
<1>16. A \in 0 .. Limit
  BY <1>8, <1>10, MoneyAssumption
<1>17. RowOK(e)
  BY <1>2, <1>9, <1>12, <1>13, <1>14, <1>15, <1>16 DEF RowOK, EntryRow
<1> QED
  BY <1>16, <1>17 DEF A, sum, Plus

LEMMA WithdrawalRow ==
    ASSUME NEW c \in 0 .. Limit, NEW a \in Asked, Covers(c, Double[a])
    PROVE  /\ Stored(Minus(c, Double[a])) \in 0 .. Limit
           /\ RowOK(Entry("WITHDRAWAL", a, Double[a], c, Minus(c, Double[a])))
<1> DEFINE left == Number(c) - Double[a]
           A == Stored(Double[left])
           N == Stored(Double[a])
           e == Entry("WITHDRAWAL", a, Double[a], c, Minus(c, Double[a]))
<1>1. /\ Number(c) \in 0 .. Limit * Cent + Slack /\ Within(Number(c), c * Cent, Slack)
      /\ c * Cent \in Int
  BY NumberIsNear, MoneyAssumption
<1>2. /\ a \in Nat /\ Double[a] \in 0 .. Limit * Cent + Slack
      /\ Within(Double[a], a, Slack)
  BY AskedRange
<1>3. left \in 0 .. Limit * Cent + Slack /\ left <= c * Cent + Slack
  BY <1>1, <1>2, MoneyAssumption DEF Covers, Within
<1>4. left \in Span
  BY <1>3, MoneyAssumption DEF Span
<1>5. Within(left, c * Cent - a, 2 * Slack)
  BY <1>1, <1>2, MoneyAssumption DEF Within
<1>6. Double[left] \in Nat /\ Within(Double[left], left, Slack)
  BY <1>4, Rounds
<1> HIDE DEF left
<1>7. Double[left] \in Span /\ Double[left] <= c * Cent + 3 * Slack
  BY <1>1, <1>3, <1>6, MoneyAssumption DEF Span, Within
<1>8. /\ A \in 0 .. Limit /\ A * Cent \in Nat
      /\ -(Cent + 2 * Slack) <= 2 * Double[left] - 2 * (A * Cent)
      /\ 2 * Double[left] - 2 * (A * Cent) <= Cent + 2 * Slack
  BY <1>7, StoredIsNear, StoredBelow
<1>9. /\ N \in 0 .. Limit /\ N * Cent \in Nat
      /\ -(Cent + 2 * Slack) <= 2 * Double[a] - 2 * (N * Cent)
      /\ 2 * Double[a] - 2 * (N * Cent) <= Cent + 2 * Slack
  BY AskedAmount, StoredIsNear
<1>10. Stored(Number(c)) = c
  BY StoredNumber
<1> HIDE DEF A, N
<1>11. (A - c + N) * Cent = A * Cent - c * Cent + N * Cent
  BY <1>8, <1>9, MoneyAssumption
<1>12. A - c + N \in -1 .. 1
  <2>1. /\ -4 * Cent < 2 * (A * Cent - c * Cent + N * Cent)
        /\ 2 * (A * Cent - c * Cent + N * Cent) < 4 * Cent
    BY <1>1, <1>2, <1>3, <1>5, <1>6, <1>8, <1>9, MoneyAssumption DEF Within
  <2>2. A - c + N \in Int
    BY <1>8, <1>9
  <2> QED
    BY <1>11, <2>1, <2>2, LessThanTwo
<1>13. ASSUME a % Cent = 0 PROVE A - c + N = 0
  <2>1. PICK n \in 0 .. Limit : Double[a] = Number(n)
    BY <1>13, AskedCents
  <2>2. A = c - n /\ N = n
    BY <2>1, StoredDifference, StoredNumber DEF A, N, left, Minus
  <2> QED
    BY <2>2
<1>14. e = [type |-> "WITHDRAWAL", asked |-> a, amount |-> N, before |-> c, after |-> A]
  BY <1>10 DEF Entry, A, N, left, Minus
<1>15. Gap(e) = A - c + N
  BY <1>8, <1>9, <1>14 DEF Gap
<1>16. RowOK(e)
  BY <1>2, <1>8, <1>9, <1>12, <1>13, <1>14, <1>15 DEF RowOK, EntryRow
<1> QED
  BY <1>8, <1>16 DEF A, left, Minus

\* The rows of an order are about a price, which is in whole cents.
LEMMA OrderRows ==
    ASSUME NEW c \in 0 .. Limit, NEW n \in 0 .. Limit
    PROVE  /\ Covers(c, Number(n)) /\ c - n \in 0 .. Limit =>
                RowOK(Entry("PAYMENT", n * Cent, Number(n), c, Minus(c, Number(n))))
           /\ c + n \in 0 .. Limit =>
                RowOK(Entry("EARNING", n * Cent, Number(n), c, Plus(c, Number(n))))
<1>1. n * Cent \in Nat /\ Stored(Number(n)) = n /\ Stored(Number(c)) = c
  BY StoredNumber, MoneyAssumption
<1>2. ASSUME Covers(c, Number(n)), c - n \in 0 .. Limit
      PROVE  RowOK(Entry("PAYMENT", n * Cent, Number(n), c, Minus(c, Number(n))))
  BY <1>1, <1>2, StoredDifference DEF RowOK, Entry, EntryRow, Gap
<1>3. ASSUME c + n \in 0 .. Limit
      PROVE  RowOK(Entry("EARNING", n * Cent, Number(n), c, Plus(c, Number(n))))
  BY <1>1, <1>3, StoredSum DEF RowOK, Entry, EntryRow, Gap
<1> QED
  BY <1>2, <1>3

-----------------------------------------------------------------------------
(* The invariant that holds for fractions too.                             *)

RowsInv == MoneyTypeOK /\ EntryOffByACent /\ StripeAsksThePrice

Verdict == [had : 0 .. Limit, wanted : Nat, answer : {"done", "rejected"}]

\* What an operation on balances has to keep.
LEMMA RowsKept ==
    ASSUME RowsInv,
           column' \in [User \cup Product -> 0 .. Limit],
           exact' \in [User \cup Product -> Int],
           entry' \in [User -> EntryRow],
           \A u \in User : entry'[u] = entry[u] \/ RowOK(entry'[u]),
           verdict' \in Verdict, UNCHANGED charge
    PROVE  RowsInv'
<1>1. \A u \in User : RowOK(entry[u])
  BY DEF RowsInv, MoneyTypeOK, EntryOffByACent, RowOK
<1>2. \A u \in User : RowOK(entry'[u])
  BY <1>1
<1>3. MoneyTypeOK'
  BY DEF RowsInv, MoneyTypeOK, Verdict
<1>4. EntryOffByACent'
  BY <1>2 DEF EntryOffByACent, RowOK, Gap
<1> QED
  BY <1>3, <1>4 DEF RowsInv, StripeAsksThePrice

LEMMA RowsInit == MoneyInit => RowsInv
<1> SUFFICES ASSUME MoneyInit PROVE RowsInv
  OBVIOUS
<1>1. MoneyTypeOK
  BY MoneyAssumption
     DEF MoneyInit, MoneyTypeOK, EntryRow, NoEntry, NoVerdict, NoCharge
<1>2. EntryOffByACent
  <2>1. RowOK(NoEntry)
    <3>1. Gap(NoEntry) = 0 - 0 - 0
      BY DEF Gap, NoEntry
    <3>2. Gap(NoEntry) = 0
      BY <3>1
    <3> QED
      BY <3>2, MoneyAssumption DEF RowOK, NoEntry, EntryRow
  <2>2. \A u \in User : entry[u] = NoEntry
    BY DEF MoneyInit
  <2> QED
    BY <2>1, <2>2 DEF EntryOffByACent, RowOK
<1> QED
  BY <1>1, <1>2 DEF MoneyInit, RowsInv, StripeAsksThePrice, NoCharge

LEMMA DepositRows ==
    ASSUME RowsInv, NEW u \in User, NEW a \in Asked, Deposit(u, a)
    PROVE  RowsInv'
<1> DEFINE c == column[u]
           after == Plus(c, Double[a])
<1>1. /\ c \in 0 .. Limit /\ a \in Int
      /\ column \in [User \cup Product -> 0 .. Limit]
      /\ exact \in [User \cup Product -> Int] /\ entry \in [User -> EntryRow] /\ verdict \in Verdict
  BY AskedRange DEF RowsInv, MoneyTypeOK, Verdict
<1>2. CASE ~Fits(after)
  BY <1>2 DEF Deposit, Overflow, moneyVars, RowsInv, MoneyTypeOK, EntryOffByACent,
     StripeAsksThePrice
<1>3. CASE Fits(after)
  <2>1. /\ Stored(after) \in 0 .. Limit
        /\ RowOK(Entry("DEPOSIT", a, Double[a], c, after))
    BY <1>1, <1>3, DepositRow
  <2>2. /\ column' = [column EXCEPT ![u] = Stored(after)]
        /\ exact' = [exact EXCEPT ![u] = Exactly(a, @ + a, Stored(after))]
        /\ entry' = [entry EXCEPT ![u] = Entry("DEPOSIT", a, Double[a], c, after)]
        /\ UNCHANGED <<verdict, charge>>
    BY <1>3 DEF Deposit
  <2>4. Exactly(a, exact[u] + a, Stored(after)) \in Int
    BY <1>1, <2>1, MoneyAssumption DEF Exactly
  <2> HIDE DEF after
  <2>3. /\ column' \in [User \cup Product -> 0 .. Limit]
        /\ exact' \in [User \cup Product -> Int]
        /\ entry' \in [User -> EntryRow]
        /\ \A v \in User : entry'[v] = entry[v] \/ RowOK(entry'[v])
    BY <1>1, <2>1, <2>2, <2>4 DEF RowOK
  <2> QED
    BY <1>1, <2>2, <2>3, RowsKept
<1> QED
  BY <1>2, <1>3

LEMMA RefuseRows ==
    ASSUME RowsInv, NEW u \in User, NEW a \in Nat, Refuse(u, a)
    PROVE  RowsInv'
BY DEF Refuse, Judge, RowsInv, MoneyTypeOK, EntryOffByACent, StripeAsksThePrice

LEMMA WithdrawRows ==
    ASSUME RowsInv, NEW u \in User, NEW a \in Asked, Withdraw(u, a)
    PROVE  RowsInv'
<1> DEFINE c == column[u]
           after == Minus(c, Double[a])
<1>1. /\ c \in 0 .. Limit /\ a \in Nat
      /\ column \in [User \cup Product -> 0 .. Limit]
      /\ exact \in [User \cup Product -> Int] /\ entry \in [User -> EntryRow]
  BY AskedRange DEF RowsInv, MoneyTypeOK
<1>2. CASE Refuse(u, a)
  BY <1>1, <1>2, RefuseRows
<1>3. CASE ~Refuse(u, a)
  <2>1. /\ Covers(c, Double[a])
        /\ column' = [column EXCEPT ![u] = Stored(after)]
        /\ exact' = [exact EXCEPT ![u] = Exactly(a, @ - a, Stored(after))]
        /\ entry' = [entry EXCEPT ![u] = Entry("WITHDRAWAL", a, Double[a], c, after)]
        /\ Judge(u, a, "done")
        /\ UNCHANGED charge
    BY <1>3 DEF Withdraw
  <2>2. /\ Stored(after) \in 0 .. Limit
        /\ RowOK(Entry("WITHDRAWAL", a, Double[a], c, after))
    BY <1>1, <2>1, WithdrawalRow
  <2>3. verdict' \in Verdict
    BY <1>1, <2>1 DEF Judge, Verdict
  <2>5. Exactly(a, exact[u] - a, Stored(after)) \in Int
    BY <1>1, <2>2, MoneyAssumption DEF Exactly
  <2> HIDE DEF after
  <2>4. /\ column' \in [User \cup Product -> 0 .. Limit]
        /\ exact' \in [User \cup Product -> Int]
        /\ entry' \in [User -> EntryRow]
        /\ \A v \in User : entry'[v] = entry[v] \/ RowOK(entry'[v])
    BY <1>1, <2>1, <2>2, <2>5 DEF RowOK
  <2> QED
    BY <2>1, <2>3, <2>4, RowsKept
<1> QED
  BY <1>2, <1>3

LEMMA PriceRows ==
    ASSUME RowsInv, NEW x \in Product, NEW a \in Asked, SetPrice(x, a)
    PROVE  RowsInv'
<1>1. /\ Stored(Double[a]) \in 0 .. Limit
      /\ Exactly(a, a, Stored(Double[a])) \in Int
  BY AskedAmount, AskedRange, MoneyAssumption DEF Exactly
<1>2. /\ column' = [column EXCEPT ![x] = Stored(Double[a])]
      /\ exact' = [exact EXCEPT ![x] = Exactly(a, a, Stored(Double[a]))]
      /\ UNCHANGED <<entry, verdict, charge>>
  BY <1>1, MoneyAssumption DEF SetPrice, Fits
<1>3. /\ column' \in [User \cup Product -> 0 .. Limit]
      /\ exact' \in [User \cup Product -> Int]
  BY <1>1, <1>2 DEF RowsInv, MoneyTypeOK
<1>4. verdict' \in Verdict /\ entry' \in [User -> EntryRow]
  BY <1>2 DEF RowsInv, MoneyTypeOK, Verdict
<1> QED
  BY <1>2, <1>3, <1>4, RowsKept

\* A wallet order that goes through, in cents: it writes the debit before it
\* reads the wallet of the merchant, so that one who buys from herself ends
\* where she began.
LEMMA BuyInCents ==
    ASSUME MoneyTypeOK, NEW u \in User, NEW x \in Product, Buy(u, x),
           ~Refuse(u, column[x] * Cent), ~UNCHANGED moneyVars
    PROVE  LET v == Owner[x]
               c == column[u]
               n == column[x]
               d == IF u = v THEN c - n ELSE column[v]
           IN  /\ v \in User /\ u # x /\ v # x
               /\ c \in 0 .. Limit /\ n \in 0 .. Limit /\ d \in 0 .. Limit
               /\ Covers(c, Number(n)) /\ c - n \in 0 .. Limit /\ d + n \in 0 .. Limit
               /\ column' = [[column EXCEPT ![u] = c - n] EXCEPT ![v] = d + n]
               /\ exact' = [[exact EXCEPT ![u] = @ - exact[x]] EXCEPT ![v] = @ + exact[x]]
               /\ entry' = [entry EXCEPT
                     ![u] = Entry("PAYMENT", n * Cent, Number(n), c, Minus(c, Number(n))),
                     ![v] = Entry("EARNING", n * Cent, Number(n), d, Plus(d, Number(n)))]
               /\ Judge(u, n * Cent, "done")
               /\ UNCHANGED charge
<1> DEFINE v       == Owner[x]
           c       == column[u]
           n       == column[x]
           d       == IF u = v THEN c - n ELSE column[v]
           left    == Minus(c, Number(n))
           debited == [column EXCEPT ![u] = Stored(left)]
           after   == Plus(debited[v], Number(n))
<1>1. /\ v \in User /\ u # x /\ v # x
      /\ c \in 0 .. Limit /\ n \in 0 .. Limit /\ column[v] \in 0 .. Limit
  BY MoneyAssumption DEF MoneyTypeOK
<1>2. /\ Covers(c, Number(n)) /\ Fits(after)
      /\ column' = [debited EXCEPT ![v] = Stored(after)]
      /\ exact' = [[exact EXCEPT ![u] = @ - exact[x]] EXCEPT ![v] = @ + exact[x]]
      /\ entry' = [entry EXCEPT
            ![u] = Entry("PAYMENT", n * Cent, Number(n), c, left),
            ![v] = Entry("EARNING", n * Cent, Number(n), debited[v], after)]
      /\ Judge(u, n * Cent, "done")
      /\ UNCHANGED charge
  BY DEF Buy, Overflow
<1>3. c >= n
  BY <1>1, <1>2, CoversIsExact
<1>4. c - n \in 0 .. Limit /\ Stored(left) = c - n
  BY <1>1, <1>2, <1>3, StoredDifference, MoneyAssumption
<1>5. debited[v] = d /\ d \in 0 .. Limit
  BY <1>1, <1>4 DEF MoneyTypeOK
<1>6. Stored(after) = d + n
  BY <1>1, <1>5, StoredSum
<1>7. d + n \in 0 .. Limit
  BY <1>1, <1>2, <1>5, <1>6, MoneyAssumption DEF Fits
<1> QED
  BY <1>1, <1>2, <1>4, <1>5, <1>6, <1>7

LEMMA BuyRows ==
    ASSUME RowsInv, NEW u \in User, NEW x \in Product, Buy(u, x)
    PROVE  RowsInv'
<1> DEFINE v == Owner[x]
           c == column[u]
           n == column[x]
           d == IF u = v THEN c - n ELSE column[v]
           pays == Entry("PAYMENT", n * Cent, Number(n), c, Minus(c, Number(n)))
           earns == Entry("EARNING", n * Cent, Number(n), d, Plus(d, Number(n)))
<1>1. n * Cent \in Nat
  BY MoneyAssumption DEF RowsInv, MoneyTypeOK
<1>2. CASE Refuse(u, n * Cent)
  BY <1>1, <1>2, RefuseRows
<1>3. CASE UNCHANGED moneyVars
  BY <1>3 DEF moneyVars, RowsInv, MoneyTypeOK, EntryOffByACent, StripeAsksThePrice
<1>4. CASE ~Refuse(u, n * Cent) /\ ~UNCHANGED moneyVars
  <2>1. /\ v \in User /\ u # x /\ v # x
        /\ c \in 0 .. Limit /\ n \in 0 .. Limit /\ d \in 0 .. Limit
        /\ Covers(c, Number(n)) /\ c - n \in 0 .. Limit /\ d + n \in 0 .. Limit
        /\ column' = [[column EXCEPT ![u] = c - n] EXCEPT ![v] = d + n]
        /\ exact' = [[exact EXCEPT ![u] = @ - exact[x]] EXCEPT ![v] = @ + exact[x]]
        /\ entry' = [entry EXCEPT ![u] = pays, ![v] = earns]
        /\ Judge(u, n * Cent, "done")
        /\ UNCHANGED charge
    BY <1>4, BuyInCents DEF RowsInv
  <2>2. RowOK(pays) /\ RowOK(earns)
    BY <2>1, OrderRows
  <2>3. verdict' \in Verdict
    BY <1>1, <2>1 DEF Judge, Verdict
  <2> HIDE DEF pays, earns, d
  <2>4. entry' \in [User -> EntryRow] /\ \A w \in User : entry'[w] = entry[w] \/ RowOK(entry'[w])
    BY <2>1, <2>2 DEF RowsInv, MoneyTypeOK, RowOK
  <2>5. exact' \in [User \cup Product -> Int]
    BY <2>1 DEF RowsInv, MoneyTypeOK
  <2>6. column' \in [User \cup Product -> 0 .. Limit]
    BY <2>1 DEF RowsInv, MoneyTypeOK
  <2> QED
    BY <2>1, <2>3, <2>4, <2>5, <2>6, RowsKept
<1> QED
  BY <1>2, <1>3, <1>4

\* The price reaches Stripe through a second multiplication, and the order
\* through a column of its own.
LEMMA CardRows ==
    ASSUME RowsInv, NEW x \in Product, BuyByCard(x)
    PROVE  RowsInv'
<1> DEFINE n == column[x]
<1>1. n \in 0 .. Limit
  BY DEF RowsInv, MoneyTypeOK
<1>2. Number(n) \in Span /\ Within(Number(n), n * Cent, Slack) /\ n * Cent \in Int
  BY <1>1, NumberIsNear, MoneyAssumption DEF Span
<1>3. Scaled[Number(n)] \in Int /\ Within(Scaled[Number(n)], n * Cent, 4 * Slack)
  BY <1>2, Rounds, MoneyAssumption DEF Within
<1>4. UnitAmount(n) = n /\ Stored(Number(n)) = n
  BY <1>1, <1>3, NearestIsBack, StoredNumber DEF UnitAmount
<1>5. charge' = [price |-> n, order |-> n, unitAmount |-> n]
  BY <1>4 DEF BuyByCard
<1> QED
  BY <1>1, <1>5, MoneyAssumption
     DEF BuyByCard, RowsInv, MoneyTypeOK, EntryOffByACent, StripeAsksThePrice

LEMMA RowsStep ==
    ASSUME RowsInv, [MoneyNext]_moneyVars
    PROVE  RowsInv'
<1>1. CASE UNCHANGED moneyVars
  BY <1>1 DEF moneyVars, RowsInv, MoneyTypeOK, EntryOffByACent, StripeAsksThePrice
<1>2. CASE MoneyNext
  BY <1>2, DepositRows, WithdrawRows, PriceRows, BuyRows, CardRows DEF MoneyNext
<1> QED
  BY <1>1, <1>2

LEMMA RowsHold == MoneySpec => []RowsInv
BY RowsInit, RowsStep, PTL DEF MoneySpec

-----------------------------------------------------------------------------
(* The invariant of the history.                                           *)

CentsInv == MoneyIsExact /\ RefusedOnlyIfPoor

LEMMA CentsInit == MoneyInit => CentsInv
BY MoneyAssumption
   DEF MoneyInit, CentsInv, MoneyIsExact, RefusedOnlyIfPoor, NoVerdict

\* An amount in fractions of a cent begins the history of its column anew.
LEMMA FractionCents ==
    ASSUME RowsInv, CentsInv, NEW r \in User \cup Product, NEW a \in Asked, NEW sum,
           NEW cents \in Nat, a % Cent # 0,
           column' = [column EXCEPT ![r] = cents],
           exact' = [exact EXCEPT ![r] = Exactly(a, sum, cents)]
    PROVE  MoneyIsExact'
BY DEF RowsInv, CentsInv, MoneyTypeOK, MoneyIsExact, Exactly

LEMMA DepositCents ==
    ASSUME RowsInv, CentsInv, NEW u \in User, NEW a \in Asked, Deposit(u, a)
    PROVE  CentsInv'
<1> DEFINE c == column[u]
           after == Plus(c, Double[a])
<1>1. c \in 0 .. Limit
  BY DEF RowsInv, MoneyTypeOK
<1>2. CASE ~Fits(after)
  BY <1>2 DEF Deposit, Overflow, moneyVars, CentsInv, MoneyIsExact, RefusedOnlyIfPoor
<1>3. CASE Fits(after)
  <2>1. /\ column' = [column EXCEPT ![u] = Stored(after)]
        /\ exact' = [exact EXCEPT ![u] = Exactly(a, @ + a, Stored(after))]
        /\ UNCHANGED verdict
    BY <1>3 DEF Deposit
  <2>2. ASSUME a % Cent # 0 PROVE MoneyIsExact'
    <3>1. Stored(after) \in Nat
      BY <1>1, <1>3, DepositRow
    <3> HIDE DEF after
    <3>2. exact' = [exact EXCEPT ![u] = Exactly(a, exact[u] + a, Stored(after))]
      BY <2>1 DEF RowsInv, MoneyTypeOK
    <3> QED
      BY <2>1, <2>2, <3>1, <3>2, FractionCents
  <2>3. ASSUME a % Cent = 0 PROVE MoneyIsExact'
    <3>1. PICK n \in 0 .. Limit : a = n * Cent /\ Double[a] = Number(n)
      BY <2>3, AskedCents
    <3>2. /\ Stored(after) = c + n
          /\ (c + n) * Cent = c * Cent + a
          /\ c * Cent \in Int /\ a \in Int
      BY <1>1, <3>1, StoredSum, MoneyAssumption
    <3>3. exact' = [exact EXCEPT ![u] = exact[u] + a]
      BY <2>1, <2>3 DEF Exactly, RowsInv, MoneyTypeOK
    <3> QED
      BY <1>1, <2>1, <3>2, <3>3 DEF CentsInv, RowsInv, MoneyTypeOK, MoneyIsExact
  <2>4. MoneyIsExact'
    BY <2>2, <2>3
  <2> QED
    BY <2>1, <2>4 DEF CentsInv, RefusedOnlyIfPoor
<1> QED
  BY <1>2, <1>3

\* A refusal that compares doubles refuses what is too much by a cent or more.
LEMMA RefuseCents ==
    ASSUME RowsInv, CentsInv, NEW u \in User, NEW n \in 0 .. Limit, Refuse(u, n * Cent)
    PROVE  CentsInv'
<1>1. column[u] \in 0 .. Limit
  BY DEF RowsInv, MoneyTypeOK
<1>2. ~(column[u] >= n)
  BY <1>1, CoversIsExact DEF Refuse, Number
<1>3. n >= column[u] + 1
  BY <1>1, <1>2, MoneyAssumption
<1>4. /\ n * Cent >= column[u] * Cent + Cent
      /\ n * Cent \in Nat /\ column[u] * Cent \in Nat
  BY <1>1, <1>3, MoreCents, MoneyAssumption
<1>5. verdict' = [had |-> column[u], wanted |-> n * Cent, answer |-> "rejected"]
  BY DEF Refuse, Judge
<1>6. RefusedOnlyIfPoor'
  BY <1>4, <1>5, MoneyAssumption DEF RefusedOnlyIfPoor
<1> QED
  BY <1>6 DEF Refuse, CentsInv, MoneyIsExact

\* What a balance covers it covers to the cent.
LEMMA Covered ==
    ASSUME RowsInv, NEW u \in User, NEW n \in 0 .. Limit,
           Covers(column[u], Number(n)), Judge(u, n * Cent, "done")
    PROVE  RefusedOnlyIfPoor'
<1>1. column[u] \in 0 .. Limit
  BY DEF RowsInv, MoneyTypeOK
<1>2. column[u] >= n
  BY <1>1, CoversIsExact
<1>3. column[u] = n \/ column[u] >= n + 1
  BY <1>1, <1>2, MoneyAssumption
<1>4. column[u] * Cent >= n * Cent /\ column[u] * Cent \in Nat /\ n * Cent \in Nat
  BY <1>1, <1>3, MoreCents, MoneyAssumption
<1>5. verdict' = [had |-> column[u], wanted |-> n * Cent, answer |-> "done"]
  BY DEF Judge
<1> QED
  BY <1>4, <1>5, MoneyAssumption DEF RefusedOnlyIfPoor

LEMMA WithdrawCents ==
    ASSUME RowsInv, CentsInv, NEW u \in User, NEW a \in Asked, Withdraw(u, a)
    PROVE  CentsInv'
<1> DEFINE c == column[u]
           after == Minus(c, Double[a])
<1>1. c \in 0 .. Limit
  BY DEF RowsInv, MoneyTypeOK
<1>2. CASE Refuse(u, a) /\ a % Cent # 0
  BY <1>2 DEF Refuse, Judge, CentsInv, MoneyIsExact, RefusedOnlyIfPoor
<1>3. CASE Refuse(u, a) /\ a % Cent = 0
  BY <1>3, AskedCents, RefuseCents
<1>4. CASE ~Refuse(u, a)
  <2>1. /\ Covers(c, Double[a])
        /\ column' = [column EXCEPT ![u] = Stored(after)]
        /\ exact' = [exact EXCEPT ![u] = Exactly(a, @ - a, Stored(after))]
        /\ Judge(u, a, "done")
    BY <1>4 DEF Withdraw
  <2>2. CASE a % Cent # 0
    <3>1. Stored(after) \in Nat
      BY <1>1, <2>1, WithdrawalRow
    <3> HIDE DEF after
    <3>2. exact' = [exact EXCEPT ![u] = Exactly(a, exact[u] - a, Stored(after))]
      BY <2>1 DEF RowsInv, MoneyTypeOK
    <3>3. MoneyIsExact'
      BY <2>1, <2>2, <3>1, <3>2, FractionCents
    <3>4. RefusedOnlyIfPoor'
      BY <2>1, <2>2 DEF Judge, RefusedOnlyIfPoor
    <3> QED
      BY <3>3, <3>4 DEF CentsInv
  <2>3. CASE a % Cent = 0
    <3>1. PICK n \in 0 .. Limit : a = n * Cent /\ Double[a] = Number(n)
      BY <2>3, AskedCents
    <3>2. /\ Stored(after) = c - n
          /\ (c - n) * Cent = c * Cent - a
          /\ c * Cent \in Int /\ a \in Int
      BY <1>1, <2>1, <3>1, StoredDifference, MoneyAssumption
    <3>3. exact' = [exact EXCEPT ![u] = exact[u] - a]
      BY <2>1, <2>3 DEF Exactly, RowsInv, MoneyTypeOK
    <3>4. MoneyIsExact'
      BY <1>1, <2>1, <3>2, <3>3 DEF CentsInv, RowsInv, MoneyTypeOK, MoneyIsExact
    <3>5. RefusedOnlyIfPoor'
      BY <2>1, <3>1, Covered
    <3> QED
      BY <3>4, <3>5 DEF CentsInv
  <2> QED
    BY <2>2, <2>3
<1> QED
  BY <1>2, <1>3, <1>4

LEMMA PriceCents ==
    ASSUME RowsInv, CentsInv, NEW x \in Product, NEW a \in Asked, SetPrice(x, a)
    PROVE  CentsInv'
<1> DEFINE cents == Stored(Double[a])
<1>1. cents \in 0 .. Limit
  BY AskedAmount
<1>2. /\ column' = [column EXCEPT ![x] = cents]
      /\ exact' = [exact EXCEPT ![x] = Exactly(a, a, cents)]
      /\ UNCHANGED verdict
  BY <1>1, MoneyAssumption DEF SetPrice, Fits
<1>3. CASE a % Cent # 0
  <2> HIDE DEF cents
  <2>1. x \in User \cup Product /\ cents \in Nat
    BY <1>1, MoneyAssumption
  <2>2. MoneyIsExact'
    BY <1>2, <1>3, <2>1, FractionCents
  <2> QED
    BY <1>2, <2>2 DEF CentsInv, RefusedOnlyIfPoor
<1>4. CASE a % Cent = 0
  <2>1. PICK n \in 0 .. Limit : a = n * Cent /\ Double[a] = Number(n)
    BY <1>4, AskedCents
  <2>2. cents = n /\ a \in Int
    BY <2>1, StoredNumber, MoneyAssumption
  <2> HIDE DEF cents
  <2>3. exact' = [exact EXCEPT ![x] = a]
    BY <1>2, <1>4 DEF Exactly
  <2> QED
    BY <1>2, <2>1, <2>2, <2>3
       DEF CentsInv, RowsInv, MoneyTypeOK, MoneyIsExact, RefusedOnlyIfPoor
<1> QED
  BY <1>3, <1>4

LEMMA BuyCents ==
    ASSUME RowsInv, CentsInv, NEW u \in User, NEW x \in Product, Buy(u, x)
    PROVE  CentsInv'
<1> DEFINE v == Owner[x]
           c == column[u]
           n == column[x]
           d == IF u = v THEN c - n ELSE column[v]
<1>1. /\ c \in 0 .. Limit /\ n \in 0 .. Limit /\ column[v] \in 0 .. Limit
  BY MoneyAssumption DEF RowsInv, MoneyTypeOK
<1>2. CASE Refuse(u, n * Cent)
  BY <1>1, <1>2, RefuseCents
<1>3. CASE UNCHANGED moneyVars
  BY <1>3 DEF moneyVars, CentsInv, MoneyIsExact, RefusedOnlyIfPoor
<1>4. CASE ~Refuse(u, n * Cent) /\ ~UNCHANGED moneyVars
  <2>1. /\ v \in User /\ u # x /\ v # x /\ d \in 0 .. Limit
        /\ Covers(c, Number(n)) /\ c - n \in 0 .. Limit
        /\ column' = [[column EXCEPT ![u] = c - n] EXCEPT ![v] = d + n]
        /\ exact' = [[exact EXCEPT ![u] = @ - exact[x]] EXCEPT ![v] = @ + exact[x]]
        /\ Judge(u, n * Cent, "done")
    BY <1>4, BuyInCents DEF RowsInv
  <2>2. exact[x] = n * Cent /\ exact[u] = c * Cent /\ exact[v] = column[v] * Cent
    BY <2>1 DEF CentsInv, MoneyIsExact
  <2>3. /\ n * Cent \in Int /\ c * Cent \in Int /\ column[v] * Cent \in Int
        /\ exact \in [User \cup Product -> Int]
    BY <1>1, MoneyAssumption DEF RowsInv, MoneyTypeOK
  <2>4. /\ \A r \in (User \cup Product) \ {u, v} : exact'[r] = exact[r]
        /\ u = v => exact'[u] = exact[u]
        /\ u # v => /\ exact'[u] = exact[u] - n * Cent
                    /\ exact'[v] = exact[v] + n * Cent
    BY <2>1, <2>2, <2>3
  <2>5. /\ \A r \in (User \cup Product) \ {u, v} : column'[r] = column[r]
        /\ u = v => column'[u] = c
        /\ u # v => column'[u] = c - n /\ column'[v] = column[v] + n
    BY <1>1, <2>1, MoneyAssumption DEF RowsInv, MoneyTypeOK
  <2>6. /\ (c - n) * Cent = c * Cent - n * Cent
        /\ (column[v] + n) * Cent = column[v] * Cent + n * Cent
    BY <1>1, MoneyAssumption
  <2>7. \A r \in (User \cup Product) \ {u, v} : column'[r] * Cent = exact'[r]
    BY <2>4, <2>5 DEF CentsInv, MoneyIsExact
  <2>8. column'[u] * Cent = exact'[u] /\ column'[v] * Cent = exact'[v]
    <3>1. CASE u = v
      BY <2>2, <2>4, <2>5, <3>1
    <3>2. CASE u # v
      BY <2>2, <2>4, <2>5, <2>6, <3>2
    <3> QED
      BY <3>1, <3>2
  <2>9. MoneyIsExact'
    BY <2>7, <2>8 DEF MoneyIsExact
  <2>10. RefusedOnlyIfPoor'
    BY <1>1, <2>1, Covered
  <2> QED
    BY <2>9, <2>10 DEF CentsInv
<1> QED
  BY <1>2, <1>3, <1>4

LEMMA CentsStep ==
    ASSUME RowsInv, CentsInv, [MoneyNext]_moneyVars
    PROVE  CentsInv'
<1>1. CASE UNCHANGED moneyVars
  BY <1>1 DEF moneyVars, CentsInv, MoneyIsExact, RefusedOnlyIfPoor
<1>2. ASSUME NEW x \in Product, BuyByCard(x) PROVE CentsInv'
  BY <1>2 DEF BuyByCard, CentsInv, MoneyIsExact, RefusedOnlyIfPoor
<1>3. CASE MoneyNext
  BY <1>2, <1>3, DepositCents, WithdrawCents, PriceCents, BuyCents DEF MoneyNext
<1> QED
  BY <1>1, <1>3

LEMMA CentsHold == MoneySpec => []CentsInv
<1>1. RowsInv /\ CentsInv /\ [MoneyNext]_moneyVars => CentsInv'
  BY CentsStep
<1> QED
  BY <1>1, CentsInit, RowsHold, PTL DEF MoneySpec

-----------------------------------------------------------------------------

\* No column leaves its range, whatever is deposited, earned, withdrawn and
\* spent, fractions of a cent among it (schema.prisma:44, :83-85).
THEOREM ColumnsHold == MoneySpec => []MoneyTypeOK
<1>1. RowsInv => MoneyTypeOK
  BY DEF RowsInv
<1> QED
  BY <1>1, RowsHold, PTL

\* Whatever fractions of a cent are deposited and withdrawn, a row of a
\* statement is off by at most a cent, and one of a whole number of cents, as
\* every order's is, by nothing (wallets.service.ts:87-108, :161-180).
THEOREM EntriesNearlyAddUp == MoneySpec => []EntryOffByACent
<1>1. RowsInv => EntryOffByACent
  BY DEF RowsInv
<1> QED
  BY <1>1, RowsHold, PTL

\* What Stripe asks and what the order says is the price, to the cent, whatever
\* amount was entered as the price (stripe.service.ts:62).
THEOREM StripeIsAskedThePrice == MoneySpec => []StripeAsksThePrice
<1>1. RowsInv => StripeAsksThePrice
  BY DEF RowsInv
<1> QED
  BY <1>1, RowsHold, PTL

\* Each balance is the exact sum of the whole cents that were deposited,
\* withdrawn, spent and earned since an amount in fractions of a cent, if there
\* was one (wallets.service.ts:87-94).
THEOREM BalancesAreExact == MoneySpec => []MoneyIsExact
<1>1. CentsInv => MoneyIsExact
  BY DEF CentsInv
<1> QED
  BY <1>1, CentsHold, PTL

\* Of a request for whole cents, comparing doubles refuses what comparing cents
\* would refuse (wallets.service.ts:156, :260).
THEOREM RefusalsAreExact == MoneySpec => []RefusedOnlyIfPoor
<1>1. CentsInv => RefusedOnlyIfPoor
  BY DEF CentsInv
<1> QED
  BY <1>1, CentsHold, PTL
=============================================================================
