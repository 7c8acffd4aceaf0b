----------------------------- MODULE SignIn_proofs -----------------------------
(****************************************************************************)
(* Proofs about SignIn for any number of names, sources and logins under way,    *)
(* and any limit, window and length of a lock-out: the state is well typed,       *)
(* guesses are bounded, and a lock-out holds.                                    *)
(*                                                                          *)
(* A failure that arrives late would lift a lock-out if the lock-out were older   *)
(* than a window: Failed then begins a new record. That cannot happen because a   *)
(* login is let in only where nobody is locked out, so that what locks a key of   *)
(* a login that is under way came after it, at most one tick ago: LateInv.        *)
(*                                                                          *)
(* What a record says of the guesses at its key is Fits, one formula for each of   *)
(* the three things a record can be: locked, open, or over. A step does one of      *)
(* five things to a key (StepIs), and there is a lemma for each.                    *)
(****************************************************************************)
EXTENDS SignIn, FiniteSetTheorems, SequenceTheorems, TLAPS

\* The keys a login was found not to be locked out by.
Cleared(r) ==
  IF login[r].at = "idle" THEN {}
  ELSE IF login[r].at = "asked" THEN login[r].keys \cap Users ELSE login[r].keys

\* Whoever locked a key of a login that is under way did so after it was let in.
Late(r, k) == byKey[k].until > 0 => byKey[k].first <= IF login[r].slow THEN 1 ELSE 0
LateInv == \A r \in Requests : \A k \in Cleared(r) : Late(r, k)

\* The guesses observed at a key stand in the order they were made, newest first.
Sorted(ages) == \A i, j \in DOMAIN ages : i < j => ages[i] <= ages[j]
NewestFirst == \A k \in Keys : Sorted(recent[k])

\* The logins that may still count a failure of a key.
Through(k) == {r \in Requests : k \in Cleared(r)}

\* What a record says of the guesses at its key. While it is locked, these and those
\* still to come are no more than there may be, none was made later than a tick after
\* the lock-out began, and its window, unless over, began with the lock-out. While a
\* window is open, all but the failures counted since it began are at least as old as
\* it is, and at most two less than the limit. When it is over, no more than that are left.
LockedFits(x, ages, late) ==
  /\ Len(ages) + late <= MostGuesses
  /\ \A i \in DOMAIN ages : ages[i] >= Lock - x.until - 1
  /\ x.first > Window \/ x.first = Lock - x.until
OpenFits(x, ages) ==
  /\ x.failures >= 1 /\ Len(ages) <= x.failures + Limit - 2
  /\ \A i \in DOMAIN ages : i >= x.failures => ages[i] >= x.first
Fits(x, ages, late) ==
  /\ x.until > 0 => LockedFits(x, ages, late)
  /\ x.until = 0 /\ x.first <= Window => OpenFits(x, ages)
  /\ x.until = 0 /\ x.first > Window => Len(ages) <= Limit - 2
GuessesFit == \A k \in Keys : Fits(byKey[k], recent[k], Cardinality(Through(k)))

IInv == TypeOK /\ NewestFirst /\ LateInv /\ GuessesFit

----------------------------------------------------------------------------
(* What the helpers return.                                                   *)

LEMMA Numbers ==
  /\ Limit \in Nat /\ Limit > 1 /\ Window \in Nat /\ Window > 0 /\ Lock \in Nat /\ Lock > 0
  /\ Lock > Window + 1
BY SignInAssumption

LEMMA MostIs ==
  /\ Cardinality(Requests) \in Nat
  /\ MostGuesses = Limit + Limit + Cardinality(Requests) - 3 /\ MostGuesses \in Nat
<1>1. Cardinality(Requests) \in Nat
  BY SignInAssumption, FS_CardinalityType
<1>2. MostGuesses = Limit + Limit + Cardinality(Requests) - 3
  BY <1>1, Numbers DEF MostGuesses
<1> QED BY <1>1, <1>2, Numbers

LEMMA NoRecordType == NoRecord \in Records
BY Numbers DEF NoRecord, Records

\* One more failure leaves a record, and lifts no lock-out younger than a window.
LEMMA CountedKeeps ==
  ASSUME NEW x \in Records
  PROVE  /\ Counted(x) \in Records
         /\ x.first <= Window => Counted(x).until >= x.until
         /\ Counted(x).until > 0 => \/ Counted(x).first = 0
                                    \/ x.until > 0 /\ Counted(x).first = x.first
BY Numbers DEF Counted, Locked, Records

LEMMA ForgottenKeeps ==
  ASSUME NEW x \in Records
  PROVE  /\ Forgotten(x) \in Records
         /\ Forgotten(x).until = x.until
         /\ x.until > 0 => Forgotten(x) = x
BY Numbers DEF Forgotten, NoRecord, Records

LEMMA OlderKeeps ==
  ASSUME NEW x \in Records
  PROVE  /\ Older(x) \in Records
         /\ Older(x).until > 0 => x.until > 0 /\ Older(x).first <= x.first + 1
BY Numbers DEF Older, Records

----------------------------------------------------------------------------
(* What is left of the observed guesses a tick later.                           *)

LEMMA AgesAre ==
  ASSUME NEW ages \in Seq(0..Window)
  PROVE  /\ Len(ages) \in Nat /\ DOMAIN ages = 1..Len(ages)
         /\ \A i \in 1..Len(ages) : ages[i] \in 0..Window
BY LenProperties, ElementOfSeq

\* Where all from the mth on are as old as a window, fewer than m are fresh.
LEMMA FewFresh ==
  ASSUME NEW ages \in Seq(0..Window), NEW m \in Nat, m >= 1,
         \A i \in DOMAIN ages : i >= m => ages[i] >= Window
  PROVE  /\ Cardinality(Fresh(ages)) \in Nat
         /\ Cardinality(Fresh(ages)) <= m - 1
<1>1. IsFiniteSet(1..(m - 1)) /\ Cardinality(1..(m - 1)) = m - 1
  BY FS_Interval
<1>2. Fresh(ages) \in SUBSET (1..(m - 1))
  <2> SUFFICES ASSUME NEW i \in Fresh(ages) PROVE i \in 1..(m - 1)
    OBVIOUS
  <2>1. i \in DOMAIN ages /\ i \in 1..Len(ages) /\ ages[i] < Window /\ ages[i] \in 0..Window
    BY AgesAre DEF Fresh
  <2> QED BY <2>1, Numbers
<1> QED BY <1>1, <1>2, FS_Subset, FS_CardinalityType

\* What is left are the first ones, each a tick older, in the order they were.
LEMMA AgedKeeps ==
  ASSUME NEW ages \in Seq(0..Window), Sorted(ages)
  PROVE  /\ Aged(ages) \in Seq(0..Window) /\ Sorted(Aged(ages))
         /\ Len(Aged(ages)) = Cardinality(Fresh(ages))
         /\ DOMAIN Aged(ages) \subseteq DOMAIN ages
         /\ Len(Aged(ages)) <= Len(ages)
         /\ \A i \in DOMAIN Aged(ages) : Aged(ages)[i] = ages[i] + 1 /\ ages[i] < Window
<1> DEFINE c == Cardinality(Fresh(ages))
<1>1. Len(ages) \in Nat /\ DOMAIN ages = 1..Len(ages) /\ \A i \in 1..Len(ages) : ages[i] \in 0..Window
  BY AgesAre
<1>2. c \in Nat /\ c <= Len(ages)
  <2>1. \A i \in DOMAIN ages : i >= Len(ages) + 1 => ages[i] >= Window
    BY <1>1
  <2> QED BY <1>1, <2>1, FewFresh
<1> HIDE DEF c
<1>3. \A i \in 1..c : i \in 1..Len(ages) /\ ages[i] < Window /\ ages[i] \in 0..Window
  <2> SUFFICES ASSUME NEW i \in 1..c, ~(ages[i] < Window) PROVE FALSE
    BY <1>1, <1>2
  <2>1. i \in 1..Len(ages) /\ i \in Nat /\ i >= 1 /\ ages[i] >= Window
    BY <1>1, <1>2, Numbers
  <2>2. \A j \in DOMAIN ages : j >= i => ages[j] >= Window
    BY <1>1, <2>1, Numbers DEF Sorted
  <2>3. c <= i - 1
    BY <2>1, <2>2, FewFresh DEF c
  <2> QED BY <1>2, <2>1, <2>3
<1>4. Aged(ages) = [i \in 1..c |-> ages[i] + 1]
  BY DEF Aged, c
<1>5. DOMAIN Aged(ages) = 1..c /\ \A i \in 1..c : Aged(ages)[i] = ages[i] + 1 /\ Aged(ages)[i] \in 0..Window
  BY <1>3, <1>4, Numbers
<1>6. Aged(ages) \in [1..c -> 0..Window]
  BY <1>4, <1>5
<1>7. Aged(ages) \in Seq(0..Window) /\ Len(Aged(ages)) = c
  <2>1. Aged(ages) \in Seq(0..Window)
    BY <1>2, <1>6, SeqDef
  <2>2. DOMAIN Aged(ages) = 1..Len(Aged(ages)) /\ Len(Aged(ages)) \in Nat
    BY <2>1, LenProperties
  <2> QED BY <1>2, <1>5, <2>1, <2>2
<1>8. Sorted(Aged(ages))
  BY <1>1, <1>3, <1>5 DEF Sorted
<1> QED BY <1>1, <1>2, <1>3, <1>5, <1>7, <1>8 DEF c

\* One more guess, made now.
LEMMA OneMore ==
  ASSUME NEW ages \in Seq(0..Window)
  PROVE  /\ <<0>> \o ages \in Seq(0..Window)
         /\ Len(<<0>> \o ages) = Len(ages) + 1 /\ Len(ages) \in Nat
         /\ DOMAIN (<<0>> \o ages) = 1..(Len(ages) + 1)
         /\ (<<0>> \o ages)[1] = 0
         /\ \A i \in 2..(Len(ages) + 1) : /\ i - 1 \in DOMAIN ages
                                         /\ (<<0>> \o ages)[i] = ages[i - 1]
                                         /\ ages[i - 1] \in 0..Window
         /\ Sorted(ages) => Sorted(<<0>> \o ages)
<1> DEFINE more == <<0>> \o ages
<1>1. <<0>> \in Seq(0..Window) /\ Len(<<0>>) = 1 /\ <<0>>[1] = 0
  BY Numbers
<1>2. more \in Seq(0..Window) /\ Len(more) = Len(ages) + 1 /\ Len(ages) \in Nat
      /\ DOMAIN more = 1..(Len(ages) + 1) /\ DOMAIN ages = 1..Len(ages)
  BY <1>1, ConcatProperties, LenProperties
<1>3. more[1] = 0
  BY <1>1, <1>2
<1>4. \A i \in 2..(Len(ages) + 1) : /\ i - 1 \in DOMAIN ages /\ more[i] = ages[i - 1]
                                   /\ ages[i - 1] \in 0..Window
  <2> SUFFICES ASSUME NEW i \in 2..(Len(ages) + 1)
               PROVE  i - 1 \in DOMAIN ages /\ more[i] = ages[i - 1] /\ ages[i - 1] \in 0..Window
    OBVIOUS
  <2>1. i - 1 \in DOMAIN ages /\ i - 1 \in 1..Len(ages) /\ i \in 1..(1 + Len(ages)) /\ ~(i <= 1)
    BY <1>2
  <2>2. more[i] = ages[i - 1]
    BY <1>1, <1>2, <2>1, ConcatProperties
  <2> QED BY <2>1, <2>2, AgesAre
<1> HIDE DEF more
<1>5. Sorted(ages) => Sorted(more)
  <2> SUFFICES ASSUME Sorted(ages), NEW i \in DOMAIN more, NEW j \in DOMAIN more, i < j
               PROVE  more[i] <= more[j]
    BY DEF Sorted
  <2>1. j \in 2..(Len(ages) + 1)
    BY <1>2
  <2>2. CASE i = 1
    BY <1>3, <1>4, <2>1, <2>2, Numbers
  <2>3. CASE i # 1
    <3>1. i \in 2..(Len(ages) + 1) /\ i - 1 < j - 1
      BY <1>2, <2>1, <2>3
    <3> QED BY <1>4, <2>1, <3>1 DEF Sorted
  <2> QED BY <2>2, <2>3
<1> QED BY <1>2, <1>3, <1>4, <1>5 DEF more

----------------------------------------------------------------------------
(* What a record says of the guesses at its key.                                *)

LEMMA FitsIsBounded ==
  ASSUME NEW x \in Records, NEW ages \in Seq(0..Window), NEW late \in Nat, Fits(x, ages, late)
  PROVE  Len(ages) <= MostGuesses
<1>1. Len(ages) \in Nat
  BY AgesAre
<1>2. x.failures \in 0..(Limit - 1) /\ x.first \in Int /\ x.until \in Nat
  BY Numbers DEF Records
<1>3. CASE x.until > 0
  BY <1>1, <1>3, MostIs DEF Fits, LockedFits
<1>4. CASE x.until = 0 /\ x.first <= Window
  <2>1. Len(ages) <= x.failures + Limit - 2
    BY <1>4 DEF Fits, OpenFits
  <2>2. x.failures \in Int /\ x.failures <= Limit - 1
    BY <1>2, Numbers
  <2> QED BY <1>1, <2>1, <2>2, Numbers, MostIs
<1>5. CASE x.until = 0 /\ x.first > Window
  BY <1>1, <1>5, Numbers, MostIs DEF Fits
<1> QED BY <1>2, <1>3, <1>4, <1>5, Numbers

\* Nothing is known of a key nobody guessed at.
LEMMA NothingFits == ASSUME NEW late PROVE Fits(NoRecord, <<>>, late)
BY Numbers DEF Fits, NoRecord

\* Fewer are still to come, or nobody has to wait yet.
LEMMA FewerFit ==
  ASSUME NEW x \in Records, NEW ages \in Seq(0..Window), NEW late \in Nat, NEW fewer \in Nat,
         Fits(x, ages, late), x.until > 0 => fewer <= late
  PROVE  Fits(x, ages, fewer)
<1>1. Len(ages) \in Nat /\ x.until \in Nat
  BY AgesAre, Numbers DEF Records
<1>2. x.until > 0 => Len(ages) + fewer <= MostGuesses
  BY <1>1, MostIs DEF Fits, LockedFits
<1> QED BY <1>1, <1>2 DEF Fits, LockedFits

LEMMA ForgottenFits ==
  ASSUME NEW x \in Records, NEW ages \in Seq(0..Window), NEW late \in Nat, Fits(x, ages, late)
  PROVE  Fits(Forgotten(x), ages, late)
BY Numbers DEF Fits, Forgotten, NoRecord, Records

\* One that was still to come is counted.
LEMMA CountedFits ==
  ASSUME NEW x \in Records, NEW ages \in Seq(0..Window), NEW late \in Nat,
         Fits(x, ages, late), x.until > 0 => x.first <= 1,
         late >= 1, late <= Cardinality(Requests)
  PROVE  Fits(Counted(x), <<0>> \o ages, late - 1)
<1> DEFINE more == <<0>> \o ages
           y == Counted(x)
<1>1. /\ more \in Seq(0..Window) /\ Len(more) = Len(ages) + 1 /\ Len(ages) \in Nat
      /\ DOMAIN more = 1..(Len(ages) + 1) /\ more[1] = 0
      /\ \A i \in 2..(Len(ages) + 1) : /\ i - 1 \in DOMAIN ages /\ more[i] = ages[i - 1]
                                      /\ more[i] \in 0..Window
  BY OneMore
<1>2. x.failures \in 0..(Limit - 1) /\ x.first \in 0..(Window + 1) /\ x.until \in 0..Lock
  BY DEF Records
<1>3. \A i \in DOMAIN more : i \in Int /\ more[i] \in Int /\ more[i] >= 0
  BY <1>1, Numbers
<1> HIDE DEF more
<1>4. CASE x.until = 0 /\ x.first > Window
  <2>1. y = [failures |-> 1, first |-> 0, until |-> 0]
    BY <1>4 DEF Counted
  <2>2. Len(ages) <= Limit - 2
    BY <1>4 DEF Fits
  <2>3. OpenFits(y, more)
    BY <1>1, <1>3, <2>1, <2>2, Numbers DEF OpenFits
  <2> QED BY <2>1, <2>3, Numbers DEF Fits, more
<1>5. CASE x.until = 0 /\ x.first <= Window /\ x.failures + 1 < Limit
  <2>1. y = [x EXCEPT !.failures = @ + 1]
    BY <1>2, <1>5, Numbers DEF Counted
  <2>2. y.failures = x.failures + 1 /\ y.first = x.first /\ y.until = 0
    BY <1>5, <2>1 DEF Records
  <2>3. OpenFits(x, ages)
    BY <1>5 DEF Fits
  <2>4. OpenFits(y, more)
    <3>1. y.failures >= 1 /\ Len(more) <= y.failures + Limit - 2
      BY <1>1, <1>2, <2>2, <2>3, Numbers DEF OpenFits
    <3>2. ASSUME NEW i \in DOMAIN more, i >= y.failures PROVE more[i] >= y.first
      <4>1. i \in 2..(Len(ages) + 1) /\ i - 1 >= x.failures
        BY <1>1, <1>2, <2>2, <2>3, <3>2 DEF OpenFits
      <4> QED BY <1>1, <2>2, <2>3, <4>1 DEF OpenFits
    <3> QED BY <3>1, <3>2 DEF OpenFits
  <2> QED BY <1>5, <2>2, <2>4, Numbers, <1>2 DEF Fits, more
<1>6. CASE x.until = 0 /\ x.first <= Window /\ x.failures + 1 >= Limit
  <2>1. y = Locked
    BY <1>2, <1>6, Numbers DEF Counted
  <2>2. Len(ages) <= Limit + Limit - 3
    <3>1. OpenFits(x, ages)
      BY <1>6 DEF Fits
    <3>2. Len(ages) <= x.failures + Limit - 2
      BY <3>1 DEF OpenFits
    <3>3. x.failures \in Int /\ x.failures <= Limit - 1 /\ Len(ages) \in Int
      BY <1>1, <1>2, Numbers
    <3> QED BY <3>2, <3>3, Numbers
  <2>3. Len(more) + (late - 1) <= MostGuesses
    BY <1>1, <2>2, Numbers, MostIs
  <2>4. \A i \in DOMAIN more : more[i] >= Lock - Lock - 1
    BY <1>3, Numbers
  <2>5. LockedFits(y, more, late - 1)
    BY <2>1, <2>3, <2>4, Numbers DEF LockedFits, Locked
  <2> QED BY <2>1, <2>5, Numbers DEF Fits, Locked, more
<1>7. CASE x.until > 0
  <2>1. x.first <= Window /\ x.first = Lock - x.until /\ Len(ages) + late <= MostGuesses
        /\ \A i \in DOMAIN ages : ages[i] >= Lock - x.until - 1
    BY <1>2, <1>7, Numbers DEF Fits, LockedFits
  <2>2. y.first = Lock - y.until /\ y.until > 0 /\ y.until >= x.until /\ y.until \in 0..Lock
    BY <1>2, <1>7, <2>1, Numbers DEF Counted, Locked, Records
  <2>3. Len(more) + (late - 1) <= MostGuesses
    BY <1>1, <2>1, MostIs
  <2>4. ASSUME NEW i \in DOMAIN more PROVE more[i] >= Lock - y.until - 1
    <3>1. Lock - y.until - 1 <= Lock - x.until - 1 /\ Lock - x.until - 1 <= 0
          /\ Lock - y.until - 1 \in Int /\ Lock - x.until - 1 \in Int
      <4>1. x.until \in Int /\ y.until \in Int /\ y.until >= x.until /\ Lock - x.until <= 1
        BY <1>2, <1>7, <2>1, <2>2, Numbers
      <4> QED BY <4>1, Numbers
    <3>2. CASE i = 1
      BY <1>1, <3>1, <3>2
    <3>3. CASE i # 1
      <4>1. i \in 2..(Len(ages) + 1)
        BY <1>1, <3>3
      <4>2. more[i] >= Lock - x.until - 1 /\ more[i] \in Int
        BY <1>1, <1>3, <2>1, <4>1
      <4> QED BY <3>1, <4>2
    <3> QED BY <3>2, <3>3
  <2>5. LockedFits(y, more, late - 1)
    BY <2>2, <2>3, <2>4 DEF LockedFits
  <2> QED BY <2>2, <2>5, Numbers DEF Fits, more
<1> QED BY <1>2, <1>4, <1>5, <1>6, <1>7, Numbers

\* A tick goes by.
LEMMA OlderFits ==
  ASSUME NEW x \in Records, NEW ages \in Seq(0..Window), NEW late \in Nat,
         Fits(x, ages, late), Sorted(ages)
  PROVE  Fits(Older(x), Aged(ages), late)
<1> DEFINE left == Aged(ages)
           y == Older(x)
<1>1. /\ left \in Seq(0..Window) /\ Len(left) = Cardinality(Fresh(ages))
      /\ Len(left) <= Len(ages) /\ Len(left) \in Nat /\ Len(ages) \in Nat
      /\ DOMAIN left \subseteq DOMAIN ages
      /\ \A i \in DOMAIN left : left[i] = ages[i] + 1 /\ ages[i] < Window
      /\ \A i \in DOMAIN ages : i \in Nat /\ i >= 1 /\ ages[i] \in 0..Window
  BY AgedKeeps, AgesAre
<1>2. x.failures \in 0..(Limit - 1) /\ x.first \in 0..(Window + 1) /\ x.until \in 0..Lock
  BY DEF Records
<1>3. y.failures = x.failures
      /\ y.first = (IF x.first > Window THEN x.first ELSE x.first + 1)
      /\ y.until = (IF x.until = 0 THEN 0 ELSE x.until - 1)
  BY DEF Older
<1> HIDE DEF left, y
<1>4. CASE x.until = 0 /\ x.first > Window
  <2>1. Len(left) <= Limit - 2
    BY <1>1, <1>4, Numbers DEF Fits
  <2> QED BY <1>2, <1>3, <1>4, <2>1, Numbers DEF Fits, left, y
<1>5. CASE x.until = 0 /\ x.first < Window
  <2>1. OpenFits(x, ages)
    BY <1>2, <1>5, Numbers DEF Fits
  <2>2. OpenFits(y, left)
    BY <1>1, <1>2, <1>3, <1>5, <2>1, Numbers DEF OpenFits
  <2> QED BY <1>2, <1>3, <1>5, <2>2, Numbers DEF Fits, left, y
<1>6. CASE x.until = 0 /\ x.first = Window
  <2>1. x.failures >= 1 /\ x.failures \in Nat /\ \A i \in DOMAIN ages : i >= x.failures => ages[i] >= Window
    BY <1>2, <1>6, Numbers DEF Fits, OpenFits
  <2>2. Len(left) <= x.failures - 1
    BY <1>1, <2>1, FewFresh
  <2>3. Len(left) <= Limit - 2
    BY <1>1, <1>2, <2>2, Numbers
  <2> QED BY <1>2, <1>3, <1>6, <2>3, Numbers DEF Fits, left, y
<1>7. CASE x.until > 1
  <2>1. LockedFits(x, ages, late)
    BY <1>2, <1>7 DEF Fits
  <2>2. LockedFits(y, left, late)
    <3>1. Len(left) + late <= MostGuesses
      BY <1>1, <2>1, MostIs DEF LockedFits
    <3>2. ASSUME NEW i \in DOMAIN left PROVE left[i] >= Lock - y.until - 1
      <4>1. ages[i] \in Int /\ left[i] = ages[i] + 1 /\ i \in DOMAIN ages
        BY <1>1, Numbers
      <4>2. ages[i] >= Lock - x.until - 1
        BY <2>1, <4>1 DEF LockedFits
      <4>3. y.until = x.until - 1 /\ x.until \in Int
        BY <1>2, <1>3, <1>7, Numbers
      <4>4. Lock - y.until - 1 = Lock - x.until /\ Lock - x.until \in Int
        BY <4>3, Numbers
      <4>5. left[i] >= Lock - x.until
        BY <4>1, <4>2, <4>4
      <4> QED BY <4>4, <4>5
    <3>3. y.first > Window \/ y.first = Lock - y.until
      BY <1>2, <1>3, <1>7, <2>1, Numbers DEF LockedFits
    <3> QED BY <3>1, <3>2, <3>3 DEF LockedFits
  <2> QED BY <1>2, <1>3, <1>7, <2>2, Numbers DEF Fits, left, y
<1>8. CASE x.until = 1
  <2>1. \A i \in DOMAIN ages : ages[i] >= Window
    BY <1>1, <1>2, <1>8, Numbers DEF Fits, LockedFits
  <2>2. Len(left) <= 1 - 1
    BY <1>1, <2>1, FewFresh
  <2>3. x.first > Window \/ x.first = Lock - 1
    BY <1>8 DEF Fits, LockedFits
  <2>4. y.first > Window /\ y.until = 0
    BY <1>2, <1>3, <1>8, <2>3, Numbers
  <2>5. Len(left) <= Limit - 2
    BY <1>1, <2>2, Numbers
  <2>6. Fits(y, left, late)
    <3>1. ~(y.until > 0) /\ ~(y.first <= Window)
      BY <1>2, <1>3, <1>8, <2>4, Numbers
    <3> QED BY <2>5, <3>1 DEF Fits
  <2> QED BY <2>6 DEF left, y
<1> QED BY <1>2, <1>4, <1>5, <1>6, <1>7, <1>8, Numbers

----------------------------------------------------------------------------
(* The state is well typed.                                                   *)

LEMMA InitTyped == Init => TypeOK /\ NewestFirst
BY NoRecordType DEF Init, TypeOK, NewestFirst, Sorted, Idle, Logins, Keys

LEMMA NextKeyIn == ASSUME NEW keys, keys # {} PROVE NextKey(keys) \in keys
<1>1. CASE keys \cap Users = {}
  BY <1>1 DEF NextKey
<1>2. CASE keys \cap Users # {}
  BY <1>2 DEF NextKey
<1> QED BY <1>1, <1>2

LEMMA StepTyped == TypeOK /\ NewestFirst /\ [Next]_vars => TypeOK'
<1> SUFFICES ASSUME TypeOK, NewestFirst, [Next]_vars PROVE TypeOK'
  OBVIOUS
<1>1. ASSUME NEW r \in Requests, NEW u \in Users, NEW s \in Sources, Login(r, u, s) PROVE TypeOK'
  BY <1>1 DEF Login, LetIn, TypeOK, Logins, Keys
<1>2. ASSUME NEW r \in Requests, LookAtSource(r) PROVE TypeOK'
  <2>1. login[r] \in Logins /\ Idle \in Logins /\ [login[r] EXCEPT !.at = "compare"] \in Logins
    BY DEF TypeOK, Logins, Idle
  <2> QED BY <1>2, <2>1 DEF LookAtSource, TypeOK
<1>3. ASSUME NEW r \in Requests, OpenSession(r) PROVE TypeOK'
  <2>1. PICK answer \in {"wrong", "right", "error"} :
          login' = [login EXCEPT ![r] = IF answer = "error" THEN Idle ELSE [@ EXCEPT !.at = answer]]
    BY <1>3 DEF OpenSession
  <2>2. (IF answer = "error" THEN Idle ELSE [login[r] EXCEPT !.at = answer]) \in Logins
    BY DEF TypeOK, Logins, Idle
  <2> QED BY <1>3, <2>1, <2>2 DEF OpenSession, TypeOK
<1>4. ASSUME NEW r \in Requests, CountNext(r) PROVE TypeOK'
  <2> DEFINE k == NextKey(login[r].keys)
  <2>1. k \in Keys /\ k \in login[r].keys /\ login[r] \in Logins
    BY <1>4, NextKeyIn DEF CountNext, TypeOK, Logins
  <2>2. login' \in [Requests -> Logins]
    <3>1. Idle \in Logins /\ [login[r] EXCEPT !.keys = @ \ {k}] \in Logins
      BY <2>1 DEF Logins, Idle
    <3> QED BY <1>4, <3>1 DEF CountNext, TypeOK
  <2>3. CASE login[r].at = "wrong"
    <3>1. Failed(k)
      BY <1>4, <2>3 DEF CountNext
    <3>2. byKey' \in [Keys -> Records]
      BY <3>1, <2>1, CountedKeeps DEF Failed, TypeOK
    <3>3. recent' \in [Keys -> Seq(0..Window)]
      <4>1. recent[k] \in Seq(0..Window) /\ <<0>> \o recent[k] \in Seq(0..Window)
        BY <2>1, OneMore DEF TypeOK
      <4> QED BY <4>1, <3>1, <2>1 DEF Failed, TypeOK
    <3> QED BY <2>2, <3>2, <3>3 DEF TypeOK
  <2>4. CASE login[r].at # "wrong"
    <3>1. Succeeded(k)
      BY <1>4, <2>4 DEF CountNext
    <3> QED BY <3>1, <2>1, <2>2, NoRecordType DEF Succeeded, TypeOK
  <2> QED BY <2>3, <2>4
<1>5. ASSUME NEW r \in Requests, Forget(r) PROVE TypeOK'
  <2>1. Idle \in Logins
    BY DEF Logins, Idle
  <2>2. byKey' \in [Keys -> Records]
    BY <1>5, ForgottenKeeps DEF Forget, TypeOK
  <2> QED BY <1>5, <2>1, <2>2 DEF Forget, TypeOK
<1>6. ASSUME Tick PROVE TypeOK'
  <2>1. byKey' \in [Keys -> Records]
    BY <1>6, OlderKeeps DEF Tick, TypeOK
  <2>2. login' \in [Requests -> Logins]
    <3>1. \A r \in Requests :
            (IF login[r] = Idle THEN Idle ELSE [login[r] EXCEPT !.slow = TRUE]) \in Logins
      BY DEF TypeOK, Logins, Idle
    <3> QED BY <1>6, <3>1 DEF Tick
  <2>3. recent' \in [Keys -> Seq(0..Window)]
    BY <1>6, AgedKeeps DEF Tick, TypeOK, NewestFirst
  <2> QED BY <2>1, <2>2, <2>3 DEF TypeOK
<1>7. ASSUME Restart PROVE TypeOK'
  BY <1>7, NoRecordType DEF Restart, TypeOK, Idle, Logins, Keys
<1>8. CASE UNCHANGED vars
  BY <1>8 DEF vars, TypeOK
<1> QED BY <1>1, <1>2, <1>3, <1>4, <1>5, <1>6, <1>7, <1>8 DEF Next, GoOn

----------------------------------------------------------------------------
(* What locks a key of a login that is under way came after the login.           *)

\* A login that does not move keeps what it was cleared for.
LEMMA OthersStay ==
  ASSUME TypeOK, LateInv, NEW r \in Requests, NEW k \in Cleared(r),
         byKey'[k].until > 0 =>
           \/ byKey'[k].first = 0
           \/ byKey[k].until > 0 /\ byKey'[k].first = byKey[k].first,
         login'[r].slow = login[r].slow
  PROVE  Late(r, k)'
BY DEF LateInv, Late

LEMMA StepLate == TypeOK /\ NewestFirst /\ LateInv /\ [Next]_vars => LateInv'
<1> SUFFICES ASSUME TypeOK, NewestFirst, LateInv, [Next]_vars, NEW r \in Requests, NEW k \in Cleared(r)'
             PROVE  Late(r, k)'
  BY DEF LateInv
<1>t. byKey \in [Keys -> Records] /\ login \in [Requests -> Logins] /\ TypeOK'
  BY StepTyped DEF TypeOK
<1>k. k \in Keys
  BY <1>t DEF TypeOK, Cleared, Logins
<1>1. ASSUME NEW q \in Requests, NEW u \in Users, NEW s \in Sources, Login(q, u, s)
      PROVE  Late(r, k)'
  <2>1. CASE q = r
    <3>1. login'[r].at = "asked" /\ login'[r].keys = {u, s} /\ byKey' = byKey /\ byKey[u].until = 0
      BY <1>1, <2>1, <1>t DEF Login, LetIn, Blocked, Keys, Records
    <3>2. k = u
      BY <3>1, SignInAssumption DEF Cleared
    <3> QED BY <3>1, <3>2 DEF Late
  <2>2. CASE q # r
    BY <1>1, <2>2, <1>t, OthersStay DEF Login, LetIn, Cleared
  <2> QED BY <2>1, <2>2
<1>2. ASSUME NEW q \in Requests, LookAtSource(q) PROVE Late(r, k)'
  <2>1. CASE q = r
    <3>1. login'[r].at = "compare" /\ login'[r].keys = login[r].keys /\ login'[r].slow = login[r].slow
          /\ login[r].at = "asked" /\ byKey' = byKey /\ k \in login[r].keys
          /\ \A s \in login[r].keys \cap Sources : ~Blocked(s)
      BY <1>2, <2>1, <1>t DEF LookAtSource, Cleared, Idle, Logins
    <3>2. CASE k \in Users
      BY <3>1, <3>2 DEF Cleared, LateInv, Late
    <3>3. CASE k \in Sources
      BY <3>1, <3>3, <1>t DEF Blocked, Late
    <3> QED BY <3>2, <3>3, <1>k DEF Keys
  <2>2. CASE q # r
    BY <1>2, <2>2, <1>t, OthersStay DEF LookAtSource, Cleared
  <2> QED BY <2>1, <2>2
<1>3. ASSUME NEW q \in Requests, OpenSession(q) PROVE Late(r, k)'
  <2>1. PICK answer \in {"wrong", "right", "error"} :
          login' = [login EXCEPT ![q] = IF answer = "error" THEN Idle ELSE [@ EXCEPT !.at = answer]]
    BY <1>3 DEF OpenSession
  <2>2. byKey' = byKey /\ login[q].at = "compare"
    BY <1>3 DEF OpenSession
  <2>3. k \in Cleared(r) /\ login'[r].slow = login[r].slow
    BY <2>1, <2>2, <1>t DEF Cleared, Idle, Logins
  <2> QED BY <2>2, <2>3, OthersStay
<1>4. ASSUME NEW q \in Requests, CountNext(q) PROVE Late(r, k)'
  <2> DEFINE c == NextKey(login[q].keys)
  <2>1. c \in Keys /\ c \in login[q].keys
    BY <1>4, <1>t, NextKeyIn DEF CountNext, Logins
  <2>2. k \in Cleared(r) /\ login'[r].slow = login[r].slow
    <3>1. CASE q = r
      BY <1>4, <3>1, <1>t DEF CountNext, Cleared, Idle, Logins
    <3>2. CASE q # r
      BY <1>4, <3>2, <1>t DEF CountNext, Cleared
    <3> QED BY <3>1, <3>2
  <2>3. byKey'[k] \in {byKey[k], Counted(byKey[k]), NoRecord}
    BY <1>4, <2>1, <1>t, <1>k DEF CountNext, Failed, Succeeded
  <2>4. byKey[k] \in Records
    BY <1>t, <1>k
  <2>5. byKey'[k].until > 0 => \/ byKey'[k].first = 0
                               \/ byKey[k].until > 0 /\ byKey'[k].first = byKey[k].first
    BY <2>3, <2>4, CountedKeeps DEF NoRecord
  <2> QED BY <2>2, <2>5, OthersStay
<1>5. ASSUME NEW q \in Requests, Forget(q) PROVE Late(r, k)'
  <2>1. k \in Cleared(r) /\ login'[r].slow = login[r].slow
    BY <1>5, <1>t DEF Forget, Cleared, Idle, Logins
  <2>2. byKey'[k] = Forgotten(byKey[k]) /\ byKey[k] \in Records
    BY <1>5, <1>t, <1>k DEF Forget
  <2>3. byKey'[k].until > 0 => byKey[k].until > 0 /\ byKey'[k].first = byKey[k].first
    BY <2>2, ForgottenKeeps
  <2> QED BY <2>1, <2>3, OthersStay
<1>6. ASSUME Tick PROVE Late(r, k)'
  <2>1. login[r].at # "idle" /\ k \in Cleared(r) /\ ~login[r].slow /\ login'[r].slow
    BY <1>6, <1>t DEF Tick, Cleared, Idle, Logins
  <2>2. byKey'[k] = Older(byKey[k]) /\ byKey[k] \in Records
    BY <1>6, <1>t, <1>k DEF Tick
  <2>3. byKey'[k].until > 0 => byKey[k].until > 0 /\ byKey'[k].first <= byKey[k].first + 1
    BY <2>2, OlderKeeps
  <2>4. byKey[k].until > 0 => byKey[k].first <= 0
    BY <2>1 DEF LateInv, Late
  <2> QED BY <2>1, <2>2, <2>3, <2>4, <1>t, <1>k DEF Late, Records, TypeOK
<1>7. ASSUME Restart PROVE Late(r, k)'
  BY <1>7, <1>k DEF Restart, Late, NoRecord
<1>8. CASE UNCHANGED vars
  BY <1>8, OthersStay DEF vars, Cleared
<1> QED BY <1>1, <1>2, <1>3, <1>4, <1>5, <1>6, <1>7, <1>8 DEF Next, GoOn

----------------------------------------------------------------------------
(* What is known of the guesses at a key.                                       *)

\* What a step makes of the record, the guesses and the logins of a key: the cases.
Untouched(k) ==
  /\ byKey'[k] = byKey[k] /\ recent'[k] = recent[k]
  /\ Blocked(k) => Through(k)' \subseteq Through(k)
Guessed(k) ==
  /\ byKey'[k] = Counted(byKey[k])
  /\ recent'[k] = IF Len(recent[k]) > MostGuesses THEN recent[k] ELSE <<0>> \o recent[k]
  /\ \E r \in Through(k) : Through(k)' \subseteq Through(k) \ {r}
Cleaned(k) == byKey'[k] = NoRecord /\ recent'[k] = <<>>
Swept(k) ==
  /\ byKey'[k] = Forgotten(byKey[k]) /\ recent'[k] = recent[k]
  /\ Through(k)' \subseteq Through(k)
Aging(k) ==
  /\ byKey'[k] = Older(byKey[k]) /\ recent'[k] = Aged(recent[k])
  /\ Through(k)' \subseteq Through(k)

LEMMA StepIs ==
  ASSUME TypeOK, [Next]_vars, NEW k \in Keys
  PROVE  Untouched(k) \/ Guessed(k) \/ Cleaned(k) \/ Swept(k) \/ Aging(k)
<1>t. /\ byKey \in [Keys -> Records] /\ login \in [Requests -> Logins]
      /\ recent \in [Keys -> Seq(0..Window)]
  BY DEF TypeOK
<1>1. ASSUME NEW q \in Requests, NEW u \in Users, NEW s \in Sources, Login(q, u, s)
      PROVE  Untouched(k)
  <2>1. byKey' = byKey /\ recent' = recent /\ ~Blocked(u)
        /\ login' = [login EXCEPT ![q] = [at |-> "asked", keys |-> {u, s}, slow |-> FALSE]]
    BY <1>1 DEF Login, LetIn
  <2>2. ASSUME NEW r \in Requests, k \in Cleared(r)', Blocked(k) PROVE k \in Cleared(r)
    <3>1. CASE q = r
      <4>1. login'[r].at = "asked" /\ login'[r].keys = {u, s}
        BY <2>1, <3>1, <1>t
      <4>2. k = u
        BY <2>2, <4>1, SignInAssumption DEF Cleared
      <4> QED BY <2>1, <2>2, <4>2
    <3>2. CASE q # r
      BY <2>1, <2>2, <3>2, <1>t DEF Cleared
    <3> QED BY <3>1, <3>2
  <2> QED BY <2>1, <2>2 DEF Untouched, Through
<1>2. ASSUME NEW q \in Requests, LookAtSource(q) PROVE Untouched(k)
  <2>1. byKey' = byKey /\ recent' = recent /\ login[q].at = "asked"
    BY <1>2 DEF LookAtSource
  <2>2. ASSUME NEW r \in Requests, k \in Cleared(r)', Blocked(k) PROVE k \in Cleared(r)
    <3>1. CASE q = r
      <4>1. login'[r].keys = login[r].keys /\ k \in login[r].keys
            /\ \A s \in login[r].keys \cap Sources : ~Blocked(s)
        BY <1>2, <2>2, <3>1, <1>t DEF LookAtSource, Cleared, Idle, Logins
      <4>2. k \in Users
        BY <2>2, <4>1 DEF Keys
      <4> QED BY <2>1, <3>1, <4>1, <4>2 DEF Cleared
    <3>2. CASE q # r
      BY <1>2, <2>2, <3>2, <1>t DEF LookAtSource, Cleared
    <3> QED BY <3>1, <3>2
  <2> QED BY <2>1, <2>2 DEF Untouched, Through
<1>3. ASSUME NEW q \in Requests, OpenSession(q) PROVE Untouched(k)
  <2>1. PICK answer \in {"wrong", "right", "error"} :
          login' = [login EXCEPT ![q] = IF answer = "error" THEN Idle ELSE [@ EXCEPT !.at = answer]]
    BY <1>3 DEF OpenSession
  <2>2. byKey' = byKey /\ recent' = recent /\ login[q].at = "compare"
    BY <1>3 DEF OpenSession
  <2>3. ASSUME NEW r \in Requests, k \in Cleared(r)' PROVE k \in Cleared(r)
    BY <2>1, <2>2, <2>3, <1>t DEF Cleared, Idle, Logins
  <2> QED BY <2>2, <2>3 DEF Untouched, Through
<1>4. ASSUME NEW q \in Requests, CountNext(q)
      PROVE  Untouched(k) \/ Guessed(k) \/ Cleaned(k)
  <2> DEFINE c == NextKey(login[q].keys)
  <2>1. c \in Keys /\ c \in login[q].keys /\ login[q].at \in {"wrong", "right"}
    BY <1>4, <1>t, NextKeyIn DEF CountNext, Logins
  <2>2. login' = [login EXCEPT ![q] = IF @.at = "right" /\ @.keys = {c} THEN Idle
                                     ELSE [login[q] EXCEPT !.keys = login[q].keys \ {c}]]
    BY <1>4 DEF CountNext
  <2>3. IF login[q].at = "wrong" THEN Failed(c) ELSE Succeeded(c)
    BY <1>4 DEF CountNext
  <2> HIDE DEF c
  <2>4. ASSUME NEW r \in Requests, k \in Cleared(r)'
        PROVE  k \in Cleared(r) /\ (r = q => k # c)
    <3>1. CASE q = r
      BY <2>1, <2>2, <2>4, <3>1, <1>t DEF Cleared, Idle, Logins
    <3>2. CASE q # r
      BY <2>2, <2>4, <3>2, <1>t DEF Cleared
    <3> QED BY <3>1, <3>2
  <2>5. CASE k # c
    <3>1. byKey'[k] = byKey[k] /\ recent'[k] = recent[k]
      BY <2>1, <2>3, <2>5, <1>t DEF Failed, Succeeded
    <3> QED BY <2>4, <3>1 DEF Untouched, Through
  <2>6. CASE k = c /\ login[q].at = "wrong"
    <3>1. byKey'[k] = Counted(byKey[k])
          /\ recent'[k] = IF Len(recent[k]) > MostGuesses THEN recent[k] ELSE <<0>> \o recent[k]
      BY <2>3, <2>6, <1>t DEF Failed
    <3>2. q \in Through(k) /\ Through(k)' \subseteq Through(k) \ {q}
      BY <2>1, <2>4, <2>6 DEF Through, Cleared
    <3> QED BY <3>1, <3>2 DEF Guessed
  <2>7. CASE k = c /\ login[q].at # "wrong"
    BY <2>3, <2>7, <1>t DEF Succeeded, Cleaned
  <2> QED BY <2>5, <2>6, <2>7
<1>5. ASSUME NEW q \in Requests, Forget(q) PROVE Swept(k)
  <2>1. byKey'[k] = Forgotten(byKey[k]) /\ recent'[k] = recent[k]
    BY <1>5 DEF Forget
  <2>2. ASSUME NEW r \in Requests, k \in Cleared(r)' PROVE k \in Cleared(r)
    BY <1>5, <2>2, <1>t DEF Forget, Cleared, Idle, Logins
  <2> QED BY <2>1, <2>2 DEF Swept, Through
<1>6. ASSUME Tick PROVE Aging(k)
  <2>1. byKey'[k] = Older(byKey[k]) /\ recent'[k] = Aged(recent[k])
    BY <1>6 DEF Tick
  <2>2. ASSUME NEW r \in Requests, k \in Cleared(r)' PROVE k \in Cleared(r)
    BY <1>6, <2>2, <1>t DEF Tick, Cleared, Idle, Logins
  <2> QED BY <2>1, <2>2 DEF Aging, Through
<1>7. ASSUME Restart PROVE Cleaned(k)
  BY <1>7 DEF Restart, Cleaned
<1>8. CASE UNCHANGED vars
  BY <1>8 DEF vars, Untouched, Through, Cleared
<1> QED BY <1>1, <1>2, <1>3, <1>4, <1>5, <1>6, <1>7, <1>8 DEF Next, GoOn

LEMMA LessAreThrough ==
  ASSUME NEW S \in SUBSET Requests, NEW T \in SUBSET S
  PROVE  /\ Cardinality(S) \in Nat /\ Cardinality(T) \in Nat
         /\ Cardinality(T) <= Cardinality(S) /\ Cardinality(S) <= Cardinality(Requests)
         /\ \A r \in S : T \subseteq S \ {r} => Cardinality(T) <= Cardinality(S) - 1
                                               /\ Cardinality(S) >= 1
<1>1. IsFiniteSet(Requests) /\ IsFiniteSet(S) /\ IsFiniteSet(T)
  BY SignInAssumption, FS_Subset
<1>2. Cardinality(S) \in Nat /\ Cardinality(T) \in Nat
      /\ Cardinality(T) <= Cardinality(S) /\ Cardinality(S) <= Cardinality(Requests)
  BY <1>1, FS_Subset, FS_CardinalityType
<1>3. ASSUME NEW r \in S, T \subseteq S \ {r}
      PROVE  Cardinality(T) <= Cardinality(S) - 1 /\ Cardinality(S) >= 1
  <2>1. IsFiniteSet(S \ {r}) /\ Cardinality(S \ {r}) = Cardinality(S) - 1
    BY <1>1, FS_RemoveElement
  <2>2. Cardinality(T) <= Cardinality(S \ {r})
    BY <1>3, <2>1, FS_Subset
  <2> QED BY <1>2, <2>1, <2>2
<1> QED BY <1>2, <1>3

LEMMA StepFits == IInv /\ [Next]_vars => NewestFirst' /\ GuessesFit'
<1> SUFFICES ASSUME IInv, [Next]_vars, NEW k \in Keys
             PROVE  Sorted(recent[k])' /\ Fits(byKey[k], recent[k], Cardinality(Through(k)))'
  BY DEF NewestFirst, GuessesFit
<1> DEFINE x == byKey[k]
           ages == recent[k]
           late == Cardinality(Through(k))
           still == Cardinality(Through(k)')
<1>1. /\ x \in Records /\ ages \in Seq(0..Window) /\ Sorted(ages)
      /\ Fits(x, ages, late) /\ TypeOK
  BY DEF IInv, TypeOK, NewestFirst, GuessesFit
<1>2. x.until \in Nat /\ x.first \in Nat /\ Len(ages) \in Nat
  BY <1>1, AgesAre, Numbers DEF Records
<1>3. Through(k) \in SUBSET Requests /\ Through(k)' \in SUBSET Requests
  BY DEF Through
<1>4. late \in Nat /\ still \in Nat
  BY <1>3, SignInAssumption, FS_Subset, FS_CardinalityType
<1>5. Through(k)' \subseteq Through(k) => still <= late
  BY <1>3, LessAreThrough
<1> SUFFICES Sorted(recent'[k]) /\ Fits(byKey'[k], recent'[k], still)
  OBVIOUS
<1> HIDE DEF x, ages, late, still
<1>6. CASE Untouched(k)
  <2>1. byKey'[k] = x /\ recent'[k] = ages /\ (x.until > 0 => still <= late)
    BY <1>5, <1>6 DEF Untouched, Blocked, x, ages
  <2> QED BY <1>1, <1>4, <2>1, FewerFit
<1>7. CASE Guessed(k)
  <2>1. PICK r \in Through(k) : Through(k)' \subseteq Through(k) \ {r}
    BY <1>7 DEF Guessed
  <2>2. late >= 1 /\ late <= Cardinality(Requests) /\ still <= late - 1 /\ late - 1 \in Nat
    <3>1. Through(k)' \in SUBSET Through(k)
      BY <2>1
    <3>2. late >= 1 /\ late <= Cardinality(Requests) /\ still <= late - 1
      BY <1>3, <2>1, <3>1, LessAreThrough DEF late, still
    <3> QED BY <1>4, <3>2
  <2>3. x.until > 0 => x.first <= 1
    <3>1. r \in Requests /\ k \in Cleared(r)
      BY <2>1 DEF Through
    <3>2. Late(r, k)
      BY <3>1 DEF IInv, LateInv
    <3> QED BY <1>2, <3>2 DEF Late, x
  <2>4. Len(ages) <= MostGuesses
    BY <1>1, <1>4, FitsIsBounded
  <2>5. byKey'[k] = Counted(x) /\ recent'[k] = <<0>> \o ages
    BY <1>2, <1>7, <2>4, MostIs DEF Guessed, x, ages
  <2>6. Fits(Counted(x), <<0>> \o ages, late - 1)
    BY <1>1, <1>4, <2>2, <2>3, CountedFits
  <2>7. <<0>> \o ages \in Seq(0..Window) /\ Sorted(<<0>> \o ages) /\ Counted(x) \in Records
    BY <1>1, OneMore, CountedKeeps
  <2> QED BY <1>4, <2>2, <2>5, <2>6, <2>7, FewerFit
<1>8. CASE Cleaned(k)
  <2>1. Sorted(<<>>)
    BY DEF Sorted
  <2> QED BY <1>8, <2>1, NothingFits DEF Cleaned
<1>9. CASE Swept(k)
  <2>1. byKey'[k] = Forgotten(x) /\ recent'[k] = ages /\ still <= late /\ Forgotten(x) \in Records
    BY <1>1, <1>5, <1>9, ForgottenKeeps DEF Swept, x, ages
  <2>2. Fits(Forgotten(x), ages, late)
    BY <1>1, <1>4, ForgottenFits
  <2> QED BY <1>1, <1>4, <2>1, <2>2, FewerFit
<1>10. CASE Aging(k)
  <2>1. byKey'[k] = Older(x) /\ recent'[k] = Aged(ages) /\ still <= late
    BY <1>5, <1>10 DEF Aging, x, ages
  <2>2. Fits(Older(x), Aged(ages), late) /\ Older(x) \in Records
    BY <1>1, <1>4, OlderFits, OlderKeeps
  <2>3. Aged(ages) \in Seq(0..Window) /\ Sorted(Aged(ages))
    BY <1>1, AgedKeeps
  <2> QED BY <1>4, <2>1, <2>2, <2>3, FewerFit
<1> QED BY <1>1, <1>6, <1>7, <1>8, <1>9, <1>10, StepIs

LEMMA InductiveAlways == Spec => []IInv
<1>1. Init => IInv
  <2>1. Init => LateInv
    BY DEF Init, LateInv, Cleared, Idle
  <2>2. Init => GuessesFit
    BY NothingFits DEF Init, GuessesFit
  <2> QED BY <2>1, <2>2, InitTyped DEF IInv
<1>2. IInv /\ [Next]_vars => IInv'
  BY StepTyped, StepLate, StepFits DEF IInv
<1> QED BY <1>1, <1>2, PTL DEF Spec

----------------------------------------------------------------------------
(* The theorems.                                                              *)

\* The records of Attempts, the logins under way and what is observed of them are
\* well typed: what a record counts stays below the limit.
THEOREM TypeCorrect == Spec => []TypeOK
BY InductiveAlways, PTL DEF IInv

\* In no stretch of a window's length are there more guesses at a key than twice the
\* limit and once more by each login under way, however the logins are counted.
THEOREM GuessesStayBounded == Spec => []SignInInv
<1>1. IInv => GuessesAreBounded
  <2> SUFFICES ASSUME IInv, NEW k \in Keys PROVE Len(recent[k]) <= MostGuesses
    BY DEF GuessesAreBounded
  <2>1. Cardinality(Through(k)) \in Nat
    BY SignInAssumption, FS_Subset, FS_CardinalityType DEF Through
  <2>2. byKey[k] \in Records /\ recent[k] \in Seq(0..Window)
        /\ Fits(byKey[k], recent[k], Cardinality(Through(k)))
    BY DEF IInv, TypeOK, GuessesFit
  <2> QED BY <2>1, <2>2, FitsIsBounded
<1>2. IInv => SignInInv
  BY <1>1 DEF IInv, SignInInv
<1> QED BY <1>2, InductiveAlways, PTL

\* A lock-out is over when its time is, when somebody proves who they are or when
\* the panel starts again - never because of what a late login is counted as.
THEOREM LockOutHolds == Spec => LockHolds
<1>1. ASSUME IInv, [Next]_vars, NEW k \in Keys, Blocked(k), byKey'[k].until < byKey[k].until
      PROVE  \/ byKey'[k].until = byKey[k].until - 1 /\ \A q \in Keys : byKey'[q] = Older(byKey[q])
             \/ Restart
             \/ \E r \in Requests : login[r].at = "right" /\ k \in login[r].keys
  <2>1. byKey \in [Keys -> Records] /\ byKey[k] \in Records /\ login \in [Requests -> Logins]
        /\ byKey[k].until \in Nat /\ byKey[k].until > 0
    BY <1>1 DEF IInv, TypeOK, Blocked, Records
  <2>2. byKey' # byKey
    BY <1>1, <2>1
  <2>3. ASSUME NEW r \in Requests, CountNext(r)
        PROVE  login[r].at = "right" /\ k \in login[r].keys
    <3> DEFINE c == NextKey(login[r].keys)
    <3>1. c \in Keys /\ c \in login[r].keys
      BY <2>3, <2>1, NextKeyIn DEF CountNext, Logins
    <3>2. k = c
      BY <1>1, <2>1, <2>3, <3>1 DEF CountNext, Failed, Succeeded
    <3>3. CASE login[r].at = "wrong"
      <4>1. byKey'[k] = Counted(byKey[k])
        BY <2>1, <2>3, <3>2, <3>3 DEF CountNext, Failed
      <4>2. byKey[k].first <= 1
        BY <1>1, <2>1, <3>1, <3>2, <3>3 DEF IInv, LateInv, Late, Cleared, Records
      <4>3. byKey[k].first <= Window
        BY <4>2, <2>1, Numbers DEF Records
      <4>4. Counted(byKey[k]).until >= byKey[k].until /\ Counted(byKey[k]) \in Records
        BY <4>3, <2>1, CountedKeeps
      <4> QED BY <1>1, <2>1, <4>1, <4>4 DEF Records
    <3> QED BY <2>3, <3>1, <3>2, <3>3 DEF CountNext
  <2>4. ASSUME NEW r \in Requests, Forget(r) PROVE FALSE
    BY <1>1, <2>1, <2>4, ForgottenKeeps DEF Forget
  <2>5. ASSUME Tick
        PROVE  byKey'[k].until = byKey[k].until - 1 /\ \A q \in Keys : byKey'[q] = Older(byKey[q])
    BY <2>1, <2>5 DEF Tick, Older, Records
  <2> QED BY <1>1, <2>2, <2>3, <2>4, <2>5
          DEF Next, GoOn, Login, LookAtSource, OpenSession, vars
<1>2. IInv /\ [Next]_vars =>
        [\A k \in Keys :
           Blocked(k) /\ byKey'[k].until < byKey[k].until =>
             \/ byKey'[k].until = byKey[k].until - 1 /\ \A q \in Keys : byKey'[q] = Older(byKey[q])
             \/ Restart
             \/ \E r \in Requests : login[r].at = "right" /\ k \in login[r].keys]_vars
  BY <1>1
<1> QED BY <1>2, InductiveAlways, PTL DEF Spec, LockHolds
================================================================================
