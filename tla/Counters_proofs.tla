-------------------------- MODULE Counters_proofs ---------------------------
(***************************************************************************)
(* The halves of mcycle and minstret are one wide counter each, for every  *)
(* width of the registers.  All it needs of a reachable state is that the  *)
(* halves are registers; the rest is arithmetic of quotients and           *)
(* remainders by W.  And a program that reads them through a shadow gets   *)
(* the value of the counter at its second read: the counter is never       *)
(* further ahead of the high half it read first than it has taken steps.   *)
(***************************************************************************)
EXTENDS Counters, TLAPS

Halves == [lo : Half, hi : Half]

HalfOK == half \in [Names -> Halves]

\* Joining and splitting are inverse to each other.
LEMMA Joined ==
  ASSUME NEW l \in Half, NEW h \in Half
  PROVE  /\ W * h + l \in 0 .. W * W - 1
         /\ (W * h + l) \div W = h
         /\ (W * h + l) % W = l
<1>1. W \in Nat /\ W > 1 /\ l \in Int /\ 0 <= l /\ l <= W - 1 /\ h \in Int /\ 0 <= h /\ h <= W - 1
  BY CountersAssumption DEF Half
<1>2. W * h \in Int /\ 0 <= W * h /\ W * h <= W * (W - 1)
  BY <1>1
<1>3. W * (W - 1) = W * W - W /\ W * W \in Int
  BY <1>1
<1>4. W * h + l \in 0 .. W * W - 1
  BY <1>1, <1>2, <1>3
<1>5. (W * h + l) \div W = h /\ (W * h + l) % W = l
  BY <1>1, <1>2
<1> QED
  BY <1>4, <1>5

\* A value splits into two registers, and is what they join to.
LEMMA Splits ==
  ASSUME NEW n \in 0 .. W * W - 1
  PROVE  /\ n % W \in Half /\ n \div W \in Half
         /\ W * (n \div W) + (n % W) = n
<1>1. W \in Nat /\ W > 1 /\ W * W \in Int /\ n \in Int /\ 0 <= n /\ n < W * W
  BY CountersAssumption
<1>2. n % W \in Half
  BY <1>1 DEF Half
<1>3. W * (n \div W) + (n % W) = n /\ n \div W \in Int
  BY <1>1
<1>4. 0 <= n \div W /\ n \div W < W
  BY <1>1
<1> QED
  BY <1>1, <1>2, <1>3, <1>4 DEF Half

\* Counting the halves counts their value.
LEMMA BumpCounts ==
  ASSUME NEW h \in Halves
  PROVE  /\ Bump(h) \in Halves
         /\ Value(h) \in 0 .. W * W - 1
         /\ Value(Bump(h)) = Wide!Following(Value(h))
<1> DEFINE n == (Value(h) + 1) % (W * W)
<1>1. Value(h) \in 0 .. W * W - 1
  BY Joined DEF Value, Halves
<1>2. W * W \in Nat \ {0}
  BY CountersAssumption
<1>3. n \in 0 .. W * W - 1
  <2>1. \A x \in Nat, m \in Nat \ {0} : x % m \in 0 .. m - 1
    OBVIOUS
  <2> QED
    BY <1>1, <1>2, <2>1
<1>4. Bump(h) = [lo |-> n % W, hi |-> n \div W]
  BY DEF Bump, Split
<1> HIDE DEF n
<1>5. Bump(h) \in Halves
  BY <1>3, <1>4, Splits DEF Halves
<1>6. Value(Bump(h)) = n
  BY <1>3, <1>4, Splits DEF Value
<1> QED
  BY <1>1, <1>5, <1>6 DEF n, Wide!Following

\* Assigning a half assigns that half of the value.
LEMMA HalfAssigned ==
  ASSUME NEW h \in Halves, NEW v \in Half
  PROVE  /\ [h EXCEPT !.lo = v] \in Halves
         /\ [h EXCEPT !.hi = v] \in Halves
         /\ Value([h EXCEPT !.lo = v]) = Wide!WithHalf(Value(h), "lo", v)
         /\ Value([h EXCEPT !.hi = v]) = Wide!WithHalf(Value(h), "hi", v)
<1>1. h.lo \in Half /\ h.hi \in Half
  BY DEF Halves
<1>2. Value(h) \div W = h.hi /\ Value(h) % W = h.lo
  BY <1>1, Joined DEF Value
<1>3. /\ [h EXCEPT !.lo = v] = [lo |-> v, hi |-> h.hi]
      /\ [h EXCEPT !.hi = v] = [lo |-> h.lo, hi |-> v]
  BY DEF Halves
<1>4. /\ Value([h EXCEPT !.lo = v]) = W * h.hi + v
      /\ Value([h EXCEPT !.hi = v]) = W * v + h.lo
  BY <1>3 DEF Value
<1> QED
  BY <1>1, <1>2, <1>3, <1>4 DEF Halves, Wide!WithHalf

\* What the step does to the halves is what the abstract step does to them.
LEMMA BumpedCounts ==
  ASSUME NEW f \in [Names -> Halves], NEW names \in SUBSET Names
  PROVE  /\ Bumped(f, names) \in [Names -> Halves]
         /\ \A c \in Names : Value(Bumped(f, names)[c]) =
              IF c \in names THEN Wide!Following(Value(f[c])) ELSE Value(f[c])
BY BumpCounts DEF Bumped

\* Each action of the counters is an action of the wide counters.
LEMMA StepCounts ==
  ASSUME HalfOK, Next
  PROVE  HalfOK' /\ [Wide!Next]_(Wide!wvars)
<1>1. CASE Finish(half)
  <2>1. HalfOK' /\ \A c \in Names : Value(half'[c]) = Wide!Following(Value(half[c]))
    BY <1>1, BumpedCounts DEF HalfOK, Finish
  <2>2. Wide!Retire
    BY <1>1, <2>1 DEF Finish, Wide!Retire, Wide!Counters, Names
  <2> QED
    BY <2>1, <2>2 DEF Wide!Next
<1>2. CASE half' = Bumped(half, BumpedByTrap) /\ retired' = FALSE
  <2>1. /\ HalfOK'
        /\ \A c \in Names : Value(half'[c]) =
             IF c = "cycle" THEN Wide!Following(Value(half[c])) ELSE Value(half[c])
    BY <1>2, BumpedCounts DEF HalfOK, BumpedByTrap, Names
  <2>2. Wide!Abort
    BY <1>2, <2>1 DEF Wide!Abort, Names
  <2> QED
    BY <2>1, <2>2 DEF Wide!Next
<1>3. ASSUME NEW c \in Names, NEW part \in Parts, NEW v \in Half, Assign(c, part, v)
      PROVE  HalfOK' /\ Wide!Next
  <2> DEFINE h == IF part = "lo" THEN [half[c] EXCEPT !.lo = v]
                                 ELSE [half[c] EXCEPT !.hi = v]
             f == [half EXCEPT ![c] = h]
  <2>1. half' = Bumped(f, Names)
    BY <1>3 DEF Assign, Finish
  <2>2. half[c] \in Halves
    BY DEF HalfOK
  <2>3. h \in Halves /\ Value(h) = Wide!WithHalf(Value(half[c]), part, v)
    BY <2>2, HalfAssigned DEF Parts
  <2> HIDE DEF h
  <2>4. /\ f \in [Names -> Halves]
        /\ \A d \in Names : Value(f[d]) =
             IF d = c THEN Wide!WithHalf(Value(half[c]), part, v) ELSE Value(half[d])
    BY <2>3 DEF HalfOK
  <2> HIDE DEF f
  <2>5. /\ HalfOK'
        /\ \A d \in Names : Value(half'[d]) = Wide!Following(Value(f[d]))
    BY <2>1, <2>4, BumpedCounts DEF HalfOK
  <2>6. Wide!Assign(c, part, v)
    BY <1>3, <2>4, <2>5 DEF Assign, Finish, Wide!Assign, Wide!Counters, Names
  <2> QED
    BY <2>5, <2>6 DEF Wide!Next, Wide!Counters, Names, Parts, Half
<1>4. CASE Reset
  <2>1. HalfOK' /\ \A c \in Names : Value(half'[c]) = 0
    BY <1>4, CountersAssumption DEF Reset, Zero, HalfOK, Halves, Half, Value, Names
  <2> QED
    BY <1>4, <2>1 DEF Reset, Wide!Next, Wide!Init, Wide!Counters, Names
<1> QED
  BY <1>1, <1>2, <1>3, <1>4 DEF Next, Plain, Trap, ReadHigh, ReadLow, ReadAgain

\* Reset leaves both counters at zero.
LEMMA InitCounts == Init => HalfOK /\ Wide!Init
BY CountersAssumption DEF Init, Zero, HalfOK, Halves, Half, Value, Names, Wide!Init, Wide!Counters

\* The two halves of a counter never lose or repeat a carry.
THEOREM CountersAreWide == Spec => ImplementsWideCounters
<1>1. Init => HalfOK /\ Wide!Init
  BY InitCounts
<1>2. HalfOK /\ [Next]_cvars => HalfOK' /\ [Wide!Next]_(Wide!wvars)
  BY StepCounts DEF cvars, HalfOK, Wide!wvars
<1> QED
  BY <1>1, <1>2, PTL DEF Spec, Wide!Spec, ImplementsWideCounters

\* How far the counter v is ahead of b, round the wrap of both halves.
Ahead(v, b) == IF v >= b THEN v - b ELSE v - b + W * W

Base == W * reader.hi
Counter == Value(half[Meant(reader.shadow)])

\* The counter has come no further from the high half than the age of the
\* reading allows.
NotFar == Reading => Ahead(Counter, Base) <= W - 1 + reader.age

\* The value meant lies between the first read and now.
LowRead ==
  reader.phase = "again" => /\ reader.lo = reader.at % W
                            /\ Ahead(reader.at, Base) <= Ahead(Counter, Base)

ReadingInv == TypeOK /\ NotFar /\ LowRead /\ ReadingExact

\* What is used of the products.
LEMMA Sizes ==
  /\ W \in Nat /\ W >= 2 /\ W * W \in Nat /\ W * W >= W + W
  /\ LongestReading = W * W - W /\ LongestReading >= 1
  /\ \A h \in Half : W * h \in 0 .. W * W - W
<1>1. W \in Nat /\ W >= 2
  BY CountersAssumption
<1>2. W * W \in Nat /\ W * W >= W + W
  BY <1>1
<1>3. ASSUME NEW h \in Half PROVE W * h \in 0 .. W * W - W
  <2>1. h \in Int /\ 0 <= h /\ h <= W - 1
    BY <1>1 DEF Half
  <2>2. W * h \in Int /\ 0 <= W * h /\ W * h <= W * (W - 1)
    BY <1>1, <2>1
  <2>3. W * (W - 1) = W * W - W
    BY <1>1
  <2> QED
    BY <1>1, <1>2, <2>2, <2>3
<1> QED
  BY <1>1, <1>2, <1>3 DEF LongestReading

\* A step takes a counter one further ahead, unless it comes round to b.
LEMMA OneAhead ==
  ASSUME NEW v \in 0 .. W * W - 1, NEW b \in 0 .. W * W - 1,
         Ahead(v, b) < W * W - 1
  PROVE  Ahead(Wide!Following(v), b) = Ahead(v, b) + 1
<1> DEFINE N == W * W
<1>1. N \in Nat /\ N >= 4
  BY Sizes
<1>2. \A n \in Nat : \A x \in 0 .. n - 1 : n > 1 =>
        (x + 1) % n = IF x + 1 = n THEN 0 ELSE x + 1
  OBVIOUS
<1>3. Wide!Following(v) = IF v + 1 = N THEN 0 ELSE v + 1
  BY <1>1, <1>2 DEF Wide!Following
<1>4. /\ Ahead(v, b) = IF v >= b THEN v - b ELSE v - b + N
      /\ Ahead(Wide!Following(v), b) =
           IF Wide!Following(v) >= b THEN Wide!Following(v) - b
                                     ELSE Wide!Following(v) - b + N
  BY DEF Ahead
<1>5. v \in 0 .. N - 1 /\ b \in 0 .. N - 1 /\ Ahead(v, b) < N - 1
  OBVIOUS
<1> HIDE DEF N
<1> QED
  BY <1>1, <1>3, <1>4, <1>5

\* A value less than a register ahead of a high half has that high half.
LEMMA NearBase ==
  ASSUME NEW v \in 0 .. W * W - 1, NEW h \in Half, Ahead(v, W * h) <= W - 1
  PROVE  W * h + (v % W) = v
<1> DEFINE N == W * W
           b == W * h
           l == v - b
<1>1. W \in Nat /\ N \in Nat /\ b \in 0 .. N - W
  BY Sizes
<1>2. /\ v \in 0 .. N - 1 /\ Ahead(v, b) <= W - 1
      /\ Ahead(v, b) = IF v >= b THEN v - b ELSE v - b + N
  BY DEF Ahead
<1>3. l \in 0 .. W - 1 /\ v = b + l
  <2> HIDE DEF N, b
  <2> QED
    BY <1>1, <1>2 DEF l
<1>4. l \in Half /\ v = W * h + l
  BY <1>3 DEF Half
<1> HIDE DEF l, b, N
<1>5. (W * h + l) % W = l
  BY <1>4, Joined
<1> QED
  BY <1>4, <1>5

\* The halves of a counter that TypeOK speaks of are those of HalfOK.
LEMMA TypedHalves == TypeOK => HalfOK
BY DEF TypeOK, HalfOK, Halves

\* A step other than an assignment or a reset counts or leaves alone the
\* counter the program reads.
LEMMA StepMoves ==
  ASSUME TypeOK, NEW s \in Shadows,
         \/ Finish(half)
         \/ half' = Bumped(half, BumpedByTrap)
  PROVE  /\ Value(half[Meant(s)]) \in 0 .. W * W - 1
         /\ \/ Value(half'[Meant(s)]) = Value(half[Meant(s)])
            \/ Value(half'[Meant(s)]) = Wide!Following(Value(half[Meant(s)]))
<1>1. half \in [Names -> Halves] /\ Meant(s) \in Names
  BY TypedHalves DEF HalfOK, Meant, Names
<1>2. Value(half[Meant(s)]) \in 0 .. W * W - 1
  BY <1>1, BumpCounts
<1>3. BumpedByTrap \in SUBSET Names /\ Names \in SUBSET Names
  BY DEF BumpedByTrap, Names
<1> QED
  BY <1>1, <1>2, <1>3, BumpedCounts DEF Finish
\* While the program reads s, its counter stays within the reach of its age.
LEMMA StepNear ==
  ASSUME ReadingInv, Reading, InTime, HalfOK',
         NEW s, s = reader.shadow,
         \/ Finish(half)
         \/ half' = Bumped(half, BumpedByTrap)
  PROVE  LET now == Value(half[Meant(s)])
             next == Value(half'[Meant(s)])
         IN  /\ now \in 0 .. W * W - 1 /\ next \in 0 .. W * W - 1
             /\ Base \in 0 .. W * W - W
             /\ Ahead(now, Base) <= Ahead(next, Base)
             /\ Ahead(next, Base) <= W - 1 + (reader.age + 1)
<1> DEFINE now == Value(half[Meant(s)])
           next == Value(half'[Meant(s)])
<1>1. TypeOK /\ s \in Shadows /\ reader.age \in Int /\ reader.hi \in Half
  BY DEF ReadingInv, TypeOK, LongestReading
<1>2. now \in 0 .. W * W - 1 /\ (next = now \/ next = Wide!Following(now))
  BY <1>1, StepMoves
<1>3. next \in 0 .. W * W - 1
  <2>1. half' \in [Names -> Halves] /\ Meant(s) \in Names
    BY <1>1 DEF HalfOK, Meant, Names
  <2> QED
    BY <2>1, BumpCounts
<1>4. Base \in 0 .. W * W - W
  BY <1>1, Sizes DEF Base
<1>5. Ahead(now, Base) <= W - 1 + reader.age /\ reader.age < W * W - W
  BY DEF ReadingInv, NotFar, Counter, InTime, LongestReading
<1>6. W \in Nat /\ W * W \in Nat /\ W >= 2
  BY Sizes
<1>7. Ahead(now, Base) \in Int
  <2> DEFINE N == W * W
  <2>1. N \in Int /\ now \in Int /\ Base \in Int
    BY <1>2, <1>4, <1>6
  <2> HIDE DEF N, now
  <2> QED
    BY <2>1 DEF Ahead, N
<1>8. CASE next = now
  BY <1>1, <1>2, <1>3, <1>4, <1>5, <1>6, <1>7, <1>8
<1>9. CASE next = Wide!Following(now)
  <2>1. Ahead(now, Base) < W * W - 1
    BY <1>1, <1>5, <1>6, <1>7
  <2>2. Base \in 0 .. W * W - 1
    BY <1>4, <1>6
  <2>3. Ahead(next, Base) = Ahead(now, Base) + 1
    BY <1>2, <1>9, <2>1, <2>2, OneAhead
  <2> QED
    BY <1>1, <1>2, <1>3, <1>4, <1>5, <1>6, <1>7, <2>3
<1> QED
  BY <1>2, <1>8, <1>9

\* A step that neither reads nor assigns keeps the invariant.
LEMMA QuietKeeps ==
  ASSUME ReadingInv, InTime, reader' = Aged, HalfOK', retired' \in BOOLEAN,
         \/ Finish(half)
         \/ half' = Bumped(half, BumpedByTrap)
  PROVE  ReadingInv'
<1>1. TypeOK /\ reader.age \in Int
  BY DEF ReadingInv, TypeOK, LongestReading
<1>2. /\ reader'.phase = reader.phase /\ reader'.shadow = reader.shadow
      /\ reader'.hi = reader.hi /\ reader'.lo = reader.lo
      /\ reader'.same = reader.same /\ reader'.at = reader.at
      /\ reader'.age = IF Reading THEN reader.age + 1 ELSE 0
  BY <1>1 DEF Aged, TypeOK
<1>3. TypeOK'
  <2>1. reader'.age \in 0 .. LongestReading
    BY <1>1, <1>2, Sizes DEF TypeOK, InTime
  <2>2. reader' \in [phase : {"idle", "lo", "again", "done"}, shadow : Shadows,
                     hi : Half, lo : Half, same : BOOLEAN,
                     at : 0 .. W * W - 1, age : 0 .. LongestReading]
    BY <1>1, <2>1 DEF Aged, TypeOK
  <2> QED
    BY <2>2 DEF TypeOK, HalfOK, Halves
<1>4. ReadingExact'
  BY <1>2 DEF ReadingInv, ReadingExact
<1>5. CASE Reading
  <2>1. Ahead(Counter, Base) <= Ahead(Counter', Base) /\ Base' = Base
        /\ Ahead(Counter', Base) <= W - 1 + reader'.age
    BY <1>2, <1>5, StepNear DEF Counter, Base
  <2>2. NotFar'
    BY <1>2, <2>1 DEF NotFar, Ahead
  <2>3. LowRead'
    <3>1. SUFFICES ASSUME reader'.phase = "again" PROVE LowRead'
      BY DEF LowRead
    <3>2. Ahead(reader.at, Base) <= Ahead(Counter, Base) /\ reader.lo = reader.at % W
      BY <1>2, <3>1 DEF ReadingInv, LowRead
    <3>3. Counter \in 0 .. W * W - 1 /\ Counter' \in 0 .. W * W - 1
          /\ Base \in 0 .. W * W - W /\ reader.at \in 0 .. W * W - 1
      BY <1>1, <1>2, <1>5, StepNear DEF Counter, Base, TypeOK
    <3>4. \A v \in 0 .. W * W - 1 : Ahead(v, Base) \in Int
      BY <3>3, Sizes DEF Ahead
    <3>5. Ahead(reader.at, Base) <= Ahead(Counter', Base)
      BY <2>1, <3>2, <3>3, <3>4
    <3> QED
      BY <1>2, <2>1, <3>2, <3>5 DEF LowRead, Ahead
  <2> QED
    BY <1>3, <1>4, <2>2, <2>3 DEF ReadingInv
<1>6. CASE ~Reading
  BY <1>2, <1>3, <1>4, <1>6 DEF ReadingInv, Reading, NotFar, LowRead
<1> QED
  BY <1>5, <1>6
\* The first read of the high half begins a reading at most one step from it.
LEMMA HighKeeps ==
  ASSUME ReadingInv, HalfOK', NEW s \in Shadows, ReadHigh(s)
  PROVE  ReadingInv'
<1> DEFINE now == Value(half[Meant(s)])
           next == Value(half'[Meant(s)])
<1>1. TypeOK /\ Meant(s) \in Names /\ Backing(s, "hi") = Meant(s)
  BY DEF ReadingInv, Meant, Names, Backing
<1>2. half[Meant(s)] \in Halves /\ half'[Meant(s)] \in Halves
  BY <1>1, TypedHalves DEF HalfOK
<1>3. /\ half[Meant(s)].hi \in Half /\ half[Meant(s)].lo \in Half
      /\ now = W * half[Meant(s)].hi + half[Meant(s)].lo
  BY <1>2 DEF Halves, Value
<1>4. /\ reader'.phase = "lo" /\ reader'.shadow = s /\ reader'.age = 1
      /\ reader'.hi = half[Meant(s)].hi
      /\ retired' = TRUE
  BY <1>1 DEF ReadHigh, Finish
<1>5. TypeOK'
  <2>1. 1 \in 0 .. LongestReading /\ 0 \in Half /\ 0 \in 0 .. W * W - 1
    BY Sizes DEF Half
  <2> QED
    BY <1>1, <1>3, <1>4, <2>1 DEF ReadHigh, TypeOK, HalfOK, Halves
<1>6. Ahead(next, Base') <= W
  <2>1. now \in 0 .. W * W - 1 /\ next = Wide!Following(now)
    BY <1>1, <1>2, TypedHalves, BumpCounts, BumpedCounts DEF ReadHigh, Finish, HalfOK
  <2>2. Base' = W * half[Meant(s)].hi /\ Base' \in 0 .. W * W - W
    BY <1>3, <1>4, Sizes DEF Base
  <2>3. half[Meant(s)].lo \in 0 .. W - 1 /\ now = Base' + half[Meant(s)].lo
    BY <1>3, <2>2 DEF Half
  <2>4. Ahead(now, Base') <= W - 1 /\ Ahead(now, Base') \in Int
    <3> DEFINE N == W * W
               b == Base'
    <3>1. N \in Int /\ W \in Nat /\ b \in Int
      BY <2>2, Sizes
    <3> HIDE DEF N, b, now
    <3> QED
      BY <2>3, <3>1 DEF Ahead, N, b
  <2>5. Base' \in 0 .. W * W - 1 /\ Ahead(now, Base') < W * W - 1
    BY <2>2, <2>4, Sizes
  <2>6. Ahead(next, Base') = Ahead(now, Base') + 1
    BY <2>1, <2>5, OneAhead
  <2> QED
    BY <2>4, <2>6, Sizes
<1>7. NotFar'
  BY <1>4, <1>6, Sizes DEF NotFar, Counter, Ahead
<1> QED
  BY <1>4, <1>5, <1>7 DEF ReadingInv, LowRead, ReadingExact

\* The second read is of the value meant.
LEMMA LowKeeps ==
  ASSUME ReadingInv, HalfOK', ReadLow
  PROVE  ReadingInv'
<1> DEFINE s == reader.shadow
           now == Value(half[Meant(s)])
           next == Value(half'[Meant(s)])
<1>1. /\ TypeOK /\ s \in Shadows /\ Meant(s) \in Names /\ Backing(s, "lo") = Meant(s)
      /\ Reading /\ InTime /\ reader.age \in Int
  BY DEF ReadingInv, TypeOK, Meant, Names, Backing, ReadLow, Reading, LongestReading
<1>2. half[Meant(s)].hi \in Half /\ half[Meant(s)].lo \in Half
  BY <1>1, TypedHalves DEF HalfOK, Halves
<1>3. /\ now \in 0 .. W * W - 1 /\ next \in 0 .. W * W - 1
      /\ Ahead(now, Base) <= Ahead(next, Base)
      /\ Ahead(next, Base) <= W - 1 + (reader.age + 1)
  BY <1>1, StepNear DEF ReadLow
<1>4. /\ reader'.phase = "again" /\ reader'.shadow = s /\ reader'.hi = reader.hi
      /\ reader'.age = reader.age + 1 /\ reader'.at = now
      /\ reader'.lo = half[Meant(s)].lo
      /\ retired' = TRUE
  BY <1>1 DEF ReadLow, Aged, TypeOK, Finish
<1>5. TypeOK'
  <2>1. reader.age + 1 \in 0 .. LongestReading
    BY <1>1, Sizes DEF TypeOK, InTime
  <2> QED
    BY <1>1, <1>2, <1>3, <1>4, <2>1 DEF ReadLow, Aged, TypeOK, HalfOK, Halves
<1>6. NotFar' /\ LowRead'
  <2>1. half[Meant(s)].lo = now % W
    BY <1>2, Joined DEF Value
  <2> QED
    BY <1>3, <1>4, <2>1 DEF NotFar, LowRead, Counter, Base, Ahead
<1> QED
  BY <1>4, <1>5, <1>6 DEF ReadingInv, ReadingExact

\* If the high half is what it was, the value meant has it too.
LEMMA AgainKeeps ==
  ASSUME ReadingInv, HalfOK', ReadAgain
  PROVE  ReadingInv'
<1> DEFINE s == reader.shadow
           now == half[Meant(s)]
<1>1. /\ TypeOK /\ Meant(s) \in Names /\ Backing(s, "hi") = Meant(s)
      /\ reader.hi \in Half /\ reader.at \in 0 .. W * W - 1
  BY DEF ReadingInv, TypeOK, Meant, Names, Backing
<1>2. now.hi \in Half /\ now.lo \in Half
  BY <1>1, TypedHalves DEF HalfOK, Halves
<1>3. /\ reader'.phase = "done" /\ reader'.shadow = s /\ reader'.hi = reader.hi
      /\ reader'.lo = reader.lo /\ reader'.at = reader.at /\ reader'.age = 0
      /\ reader'.same = (now.hi = reader.hi)
      /\ retired' = TRUE
  BY <1>1 DEF ReadAgain, Aged, TypeOK, Finish
<1>4. TypeOK'
  <2>1. 0 \in 0 .. LongestReading
    BY Sizes
  <2> QED
    BY <1>1, <1>3, <2>1 DEF ReadAgain, Aged, TypeOK, HalfOK, Halves
<1>5. ASSUME now.hi = reader.hi PROVE W * reader.hi + reader.lo = reader.at
  <2>1. /\ reader.lo = reader.at % W
        /\ Ahead(reader.at, W * reader.hi) <= Ahead(Value(now), W * reader.hi)
    BY DEF ReadingInv, LowRead, ReadAgain, Counter, Base
  <2>2. Ahead(Value(now), W * reader.hi) = now.lo
    <3> DEFINE b == W * reader.hi
    <3>1. b \in Int /\ now.lo \in Int /\ now.lo >= 0 /\ now.lo <= W - 1
      BY <1>1, <1>2, Sizes DEF Half
    <3>2. Value(now) = b + now.lo
      BY <1>5 DEF Value
    <3> HIDE DEF b, now
    <3>3. Ahead(Value(now), b) = now.lo
      BY <3>1, <3>2 DEF Ahead
    <3> QED
      BY <3>3 DEF b
  <2>3. Ahead(reader.at, W * reader.hi) \in Int
    BY <1>1, Sizes DEF Ahead
  <2>4. Ahead(reader.at, W * reader.hi) <= W - 1
    <3>1. now.lo \in Int /\ now.lo <= W - 1 /\ W \in Int
      BY <1>2, Sizes DEF Half
    <3> HIDE DEF now
    <3> QED
      BY <2>1, <2>2, <2>3, <3>1
  <2> QED
    BY <1>1, <2>1, <2>4, NearBase
<1>6. ReadingExact'
  BY <1>3, <1>5 DEF ReadingExact
<1> QED
  BY <1>3, <1>4, <1>6 DEF ReadingInv, NotFar, Reading, LowRead

\* Every step keeps the invariant.
LEMMA ReadingStep ==
  ASSUME ReadingInv, [Next]_cvars
  PROVE  ReadingInv'
<1>1. TypeOK /\ HalfOK
  BY TypedHalves DEF ReadingInv
<1>2. CASE UNCHANGED cvars
  BY <1>2 DEF cvars, ReadingInv, TypeOK, NotFar, Reading, Counter, Base, LowRead, Ahead,
              ReadingExact
<1>3. CASE Next
  <2>1. HalfOK'
    BY <1>1, <1>3, StepCounts
  <2>2. CASE Plain \/ Trap
    BY <2>1, <2>2, QuietKeeps DEF Plain, Trap, Finish
  <2>3. CASE ReadLow
    BY <2>1, <2>3, LowKeeps
  <2>4. CASE ReadAgain
    BY <2>1, <2>4, AgainKeeps
  <2>5. CASE Reset
    <3>1. 0 \in Half /\ 0 \in 0 .. LongestReading /\ 0 \in 0 .. W * W - 1
      BY Sizes DEF Half
    <3>2. TypeOK'
      BY <2>5, <3>1 DEF Reset, Zero, Idle, TypeOK, Names, Shadows
    <3> QED
      BY <2>5, <3>2 DEF Reset, Idle, ReadingInv, NotFar, Reading, LowRead, ReadingExact
  <2>6. CASE \E s \in Shadows : ReadHigh(s)
    BY <2>1, <2>6, HighKeeps
  <2>7. ASSUME NEW c \in Names, NEW part \in Parts, NEW v \in Half, Assign(c, part, v)
        PROVE  ReadingInv'
    <3>1. /\ ~Reading /\ retired' = TRUE /\ reader' = [reader EXCEPT !.age = 0]
      BY <2>7 DEF Assign, Finish, Aged, Reading
    <3>2. TypeOK'
      <4>1. 0 \in 0 .. LongestReading
        BY Sizes
      <4> QED
        BY <1>1, <2>1, <3>1, <4>1 DEF TypeOK, HalfOK, Halves
    <3>3. /\ reader'.phase = reader.phase /\ reader'.same = reader.same
          /\ reader'.hi = reader.hi /\ reader'.lo = reader.lo /\ reader'.at = reader.at
      BY <1>1, <3>1 DEF TypeOK
    <3> QED
      BY <3>1, <3>2, <3>3 DEF ReadingInv, NotFar, Reading, LowRead, ReadingExact
  <2> QED
    BY <1>3, <2>2, <2>3, <2>4, <2>5, <2>6, <2>7 DEF Next
<1> QED
  BY <1>2, <1>3

\* The readings of a program are exact.
LEMMA ReadingInvariant == Spec => []ReadingInv
<1>1. Init => ReadingInv
  <2>1. 0 \in Half /\ 0 \in 0 .. LongestReading /\ 0 \in 0 .. W * W - 1
    BY Sizes DEF Half
  <2>2. SUFFICES ASSUME Init PROVE ReadingInv
    OBVIOUS
  <2>3. TypeOK
    BY <2>1, <2>2 DEF Init, Zero, Idle, TypeOK, Names, Shadows
  <2> QED
    BY <2>2, <2>3 DEF Init, Idle, ReadingInv, NotFar, Reading, LowRead, ReadingExact
<1> QED
  BY <1>1, ReadingStep, PTL DEF Spec

\* The variables of the counters have their types.
THEOREM CountersTyped == Spec => []TypeOK
BY ReadingInvariant, PTL DEF ReadingInv

\* A program that finds the high half of a shadow unchanged has read the value
\* of its counter at the second read.
THEOREM ReadingsAreExact == Spec => []ReadingExact
BY ReadingInvariant, PTL DEF ReadingInv
=============================================================================
