-------------------------- MODULE DialRoundsProofs --------------------------
(***************************************************************************)
(* The rounds over any number of campaigns and the business hours of any   *)
(* calendar.                                                               *)
(***************************************************************************)
EXTENDS DialRounds, CountingProofs, TLAPS

-----------------------------------------------------------------------------
(* The calendar *)

\* Quotient and remainder.
LEMMA DivMod ==
  ASSUME NEW a \in Int, NEW n \in Nat \ {0}
  PROVE  a \div n \in Int /\ a % n \in 0 .. n - 1 /\ a = n * (a \div n) + (a % n)
OBVIOUS

\* There is only one quotient and one remainder.
LEMMA DivModUnique ==
  ASSUME NEW n \in Nat \ {0}, NEW q \in Int, NEW r \in 0 .. n - 1
  PROVE  (n * q + r) \div n = q /\ (n * q + r) % n = r
<1> DEFINE a == n * q + r  p == a \div n  s == a % n
<1>1. a \in Int /\ r \in Int
  OBVIOUS
<1>2. p \in Int /\ s \in 0 .. n - 1 /\ a = n * p + s
  BY <1>1, DivMod
<1> HIDE DEF p, s
<1>3. \A c, d \in Int : c >= d + 1 => n * c >= n * d + n
  <2> SUFFICES ASSUME NEW c \in Int, NEW d \in Int, c >= d + 1 PROVE n * c >= n * d + n
    OBVIOUS
  <2>1. c - d - 1 \in Nat
    OBVIOUS
  <2>2. n * (c - d - 1) >= 0 /\ n * (c - d - 1) = n * c - n * d - n
    BY <2>1
  <2>3. n * c \in Int /\ n * d \in Int
    OBVIOUS
  <2> QED
    BY <2>2, <2>3
<1>4. n * p \in Int /\ n * q \in Int
  BY <1>2
<1>5. ~(p >= q + 1) /\ ~(q >= p + 1)
  BY <1>2, <1>3, <1>4
<1>6. p = q
  BY <1>2, <1>5
<1> QED
  BY <1>2, <1>4, <1>6 DEF p, s

\* Products of bounded factors stay in their bounds.
LEMMA LengthFacts ==
  /\ HoursPerDay \in Nat \ {0} /\ MinutesPerHour \in Nat \ {0} /\ DaysPerWeek \in Nat \ {0}
  /\ DayLength \in Nat \ {0} /\ WeekLength \in Nat \ {0}
BY CalendarAssumption DEF DayLength, WeekLength

\* A number below a * b, made of a remainder by b and a quotient below a.
LEMMA Digits ==
  ASSUME NEW a \in Nat \ {0}, NEW b \in Nat \ {0}, NEW q \in 0 .. a - 1, NEW r \in 0 .. b - 1
  PROVE  q * b + r \in 0 .. a * b - 1
<1>1. a * b \in Nat /\ q * b \in Nat /\ r \in Nat
  OBVIOUS
<1>2. b * (q + 1) <= b * a /\ b * (q + 1) = b * q + b
  BY Multiples
<1>3. b * a = a * b /\ b * q = q * b
  OBVIOUS
<1> QED
  BY <1>1, <1>2, <1>3

\* Minutes of the day are a number of the day, and give their time back.
LEMMA MinuteRoundTrip ==
  ASSUME NEW t \in TimesOfDay
  PROVE  MinuteOfDay(t) \in 0 .. DayLength - 1 /\ MinuteToTime(MinuteOfDay(t)) = t
<1> DEFINE h == t.hour  m == t.minute
<1>1. h \in 0 .. HoursPerDay - 1 /\ m \in 0 .. MinutesPerHour - 1 /\ t = [hour |-> h, minute |-> m]
  BY DEF TimesOfDay
<1>2. MinuteOfDay(t) = h * MinutesPerHour + m
  BY DEF MinuteOfDay
<1> HIDE DEF h, m
<1>3. h * MinutesPerHour + m \in 0 .. DayLength - 1
  BY <1>1, LengthFacts, Digits DEF DayLength
<1>4. h \in Int /\ h * MinutesPerHour = MinutesPerHour * h /\ h = HoursPerDay * 0 + h
  BY <1>1, LengthFacts
<1>5. /\ (h * MinutesPerHour + m) \div MinutesPerHour = h
      /\ (h * MinutesPerHour + m) % MinutesPerHour = m
  BY <1>1, <1>4, LengthFacts, DivModUnique
<1>6. h % HoursPerDay = h
  BY <1>1, <1>4, LengthFacts, DivModUnique
<1> QED
  BY <1>1, <1>2, <1>3, <1>5, <1>6 DEF MinuteToTime

LEMMA WindowRoundTrip ==
  ASSUME NEW w \in Windows
  PROVE  ListedWindow(StoredWindow(w)) = w
<1>1. /\ w.start \in TimesOfDay /\ w.end \in TimesOfDay
      /\ w = [day |-> w.day, start |-> w.start, end |-> w.end]
  BY DEF Windows
<1> QED
  BY <1>1, MinuteRoundTrip DEF ListedWindow, StoredWindow

\* How long a window is: up to its end on the same day, or on the next.
LEMMA WindowLengths ==
  ASSUME NEW w \in Windows
  PROVE  LET start == MinuteOfDay(w.start)  end == MinuteOfDay(w.end)
         IN  WindowLength(w) = IF end <= start THEN end - start + DayLength ELSE end - start
<1> DEFINE start == MinuteOfDay(w.start)  end == MinuteOfDay(w.end)  L == DayLength
<1>1. start \in 0 .. L - 1 /\ end \in 0 .. L - 1 /\ L \in Nat \ {0}
  BY MinuteRoundTrip, LengthFacts DEF Windows
<1>2. WindowLength(w) = IF (end - start) % L = 0 THEN L ELSE (end - start) % L
  BY DEF WindowLength
<1> HIDE DEF start, end, L
<1>3. CASE end >= start
  <2>1. end - start \in 0 .. L - 1 /\ end - start = L * 0 + (end - start)
    BY <1>1, <1>3
  <2>2. (end - start) % L = end - start
    BY <1>1, <2>1, DivModUnique
  <2> QED
    BY <1>1, <1>2, <1>3, <2>2 DEF start, end, L
<1>4. CASE end < start
  <2>1. end - start + L \in 0 .. L - 1 /\ end - start = L * (-1) + (end - start + L)
    BY <1>1, <1>4
  <2>2. (end - start) % L = end - start + L
    BY <1>1, <2>1, DivModUnique
  <2> QED
    BY <1>1, <1>2, <1>4, <2>2 DEF start, end, L
<1> QED
  BY <1>1, <1>3, <1>4

\* The day after a day.
LEMMA DayAfter ==
  ASSUME NEW d \in 0 .. DaysPerWeek - 1
  PROVE  (d + 1) % DaysPerWeek = IF d = DaysPerWeek - 1 THEN 0 ELSE d + 1
<1> DEFINE D == DaysPerWeek
<1>1. D \in Nat \ {0}
  BY LengthFacts
<1> HIDE DEF D
<1>2. CASE d = D - 1
  <2>1. d + 1 = D * 1 + 0
    BY <1>1, <1>2
  <2>2. (D * 1 + 0) % D = 0
    BY <1>1, DivModUnique
  <2> QED
    BY <1>2, <2>1, <2>2 DEF D
<1>3. CASE d # D - 1
  <2>1. d + 1 \in 0 .. D - 1 /\ d + 1 = D * 0 + (d + 1)
    BY <1>1, <1>3 DEF D
  <2>2. (D * 0 + (d + 1)) % D = d + 1
    BY <1>1, <2>1, DivModUnique
  <2> QED
    BY <1>3, <2>1, <2>2 DEF D
<1> QED
  BY <1>2, <1>3

\* The code's test, by weekday and minute of the day, is the test on the week's circle.
LEMMA InWindowIsCovers ==
  ASSUME NEW w \in Windows, NEW local \in Minutes
  PROVE  InWindow(w, local) <=> Covers(w, local)
<1> DEFINE D == DaysPerWeek  L == DayLength  W == WeekLength
           d == w.day  s == MinuteOfDay(w.start)  e == MinuteOfDay(w.end)
           k == local \div L  m == local % L
           len == IF e <= s THEN e - s + L ELSE e - s
           j == IF k >= d THEN k - d ELSE k - d + D
           next == IF d = D - 1 THEN 0 ELSE d + 1
           x == local - (d * L + s)
<1>1. D \in Nat \ {0} /\ L \in Nat \ {0} /\ W \in Nat \ {0} /\ W = D * L /\ L * D = D * L
  BY LengthFacts DEF WeekLength
<1>2. d \in 0 .. D - 1 /\ s \in 0 .. L - 1 /\ e \in 0 .. L - 1
  BY MinuteRoundTrip DEF Windows
<1>3. local \in 0 .. W - 1
  BY DEF Minutes
<1>4. k \in Int /\ m \in 0 .. L - 1 /\ local = L * k + m
  BY <1>1, <1>3, DivMod
<1>5. WindowLength(w) = len /\ (d + 1) % D = next
  BY <1>2, WindowLengths, DayAfter
<1>6. /\ InWindow(w, local) <=>
           IF e <= s THEN (d = k /\ m >= s) \/ (next = k /\ m < e)
           ELSE d = k /\ s <= m /\ m < e
      /\ Covers(w, local) <=> x % W < len
  BY <1>5 DEF InWindow, Covers, Opening
<1> HIDE DEF D, L, W, d, s, e, k, m
<1>7. \A a, b \in Int : a <= b => L * a <= L * b
  <2> SUFFICES ASSUME NEW a \in Int, NEW b \in Int, a <= b PROVE L * a <= L * b
    OBVIOUS
  <2>1. L * (b - a) >= 0 /\ L * (b - a) = L * b - L * a /\ L * a \in Int /\ L * b \in Int
    BY <1>1
  <2> QED
    BY <2>1
<1>8. k \in 0 .. D - 1
  <2>1. L * k \in Int /\ L * (-1) = -L
    BY <1>1, <1>4
  <2>2. ~(k <= -1)
    BY <1>1, <1>3, <1>4, <1>7, <2>1
  <2>3. ~(D <= k)
    BY <1>1, <1>3, <1>4, <1>7, <2>1
  <2> QED
    BY <1>1, <1>4, <2>2, <2>3
<1>9. j \in 0 .. D - 1
  BY <1>1, <1>2, <1>8
<1>10. \E c \in {0, -1} : x = W * c + (L * j + (m - s))
  <2>1. L * k \in Int /\ L * d \in Int /\ d * L = L * d /\ m \in Int /\ s \in Int
    BY <1>1, <1>2, <1>4, <1>8
  <2>2. CASE k >= d
    <3>1. L * j = L * k - L * d /\ W * 0 = 0
      BY <1>1, <1>2, <1>8, <2>2
    <3> QED
      BY <1>4, <2>1, <3>1
  <2>3. CASE k < d
    <3>1. j = k - d + D
      BY <1>2, <1>8, <2>3
    <3>2. L * j = L * k - L * d + W
      BY <1>1, <1>2, <1>8, <3>1
    <3>3. W * (-1) = -W
      BY <1>1
    <3>4. x = W * (-1) + (L * j + (m - s))
      <4> HIDE DEF j
      <4>1. L * j \in Int /\ W \in Int
        BY <1>1, <2>1, <3>2
      <4> QED
        BY <1>4, <2>1, <3>2, <3>3, <4>1
    <3> QED
      BY <3>4
  <2> QED
    BY <1>2, <1>8, <2>2, <2>3
<1>11. (j = 0 <=> k = d) /\ (j = 1 /\ D > 1 <=> k = next /\ D > 1) /\ (D = 1 => next = d /\ k = d)
  BY <1>1, <1>2, <1>8
<1> DEFINE y == L * j + (m - s)
<1>12. L * j \in Int /\ y \in Int /\ j * L = L * j
  BY <1>1, <1>2, <1>4, <1>9
<1>13. L * 0 = 0 /\ L * 1 = L /\ L * 2 = L + L /\ L * (D - 1) = W - L
  BY <1>1
<1>14. /\ j = 0 => L * j = 0
       /\ j = 1 => L * j = L
       /\ j >= 2 => L * j >= L + L
       /\ L * j <= W - L
       /\ D > 1 => W >= L + L
       /\ D = 1 => W = L
  <2>1. D > 1 => L * 1 <= L * (D - 1)
    BY <1>1, <1>7
  <2>2. L * j <= L * (D - 1)
    BY <1>1, <1>7, <1>9
  <2>3. j >= 2 => L * 2 <= L * j
    BY <1>7, <1>9
  <2> QED
    BY <1>1, <1>12, <1>13, <2>1, <2>2, <2>3
<1> HIDE DEF j, next, x, len
<1>15. x % W = IF y >= 0 THEN y ELSE y + W
  <2>1. PICK c \in {0, -1} : x = W * c + y
    BY <1>10
  <2>2. CASE y >= 0
    <3>1. y \in 0 .. W - 1
      BY <1>1, <1>2, <1>4, <1>12, <1>14, <2>2
    <3>2. (W * c + y) % W = y
      <4> HIDE DEF y
      <4> QED
        BY <1>1, <3>1, DivModUnique
    <3> QED
      BY <2>1, <2>2, <3>2
  <2>3. CASE y < 0
    <3>1. y + W \in 0 .. W - 1
      BY <1>1, <1>2, <1>4, <1>9, <1>12, <1>14, <2>3
    <3>2. c - 1 \in Int /\ W * (c - 1) = W * c - W /\ W * c \in Int
      BY <1>1
    <3>3. x = W * (c - 1) + (y + W)
      BY <1>1, <1>12, <2>1, <3>2
    <3>4. (W * (c - 1) + (y + W)) % W = y + W
      <4> HIDE DEF y
      <4> QED
        BY <1>1, <3>1, <3>2, DivModUnique
    <3> QED
      BY <1>12, <2>3, <3>3, <3>4
  <2> QED
    BY <1>12, <2>2, <2>3
<1>16. len = IF e <= s THEN e - s + L ELSE e - s
  BY DEF len
<1>17. y = L * j + (m - s)
  OBVIOUS
<1> DEFINE z == L * j
<1> HIDE DEF y, z
<1>18. y = z + (m - s) /\ z \in Int
  BY <1>12, <1>17 DEF z
<1>19. /\ j = 0 => z = 0
       /\ j = 1 => z = L
       /\ j >= 2 => z >= L + L
       /\ z <= W - L
       /\ D > 1 => W >= L + L
       /\ D = 1 => W = L
  BY <1>14 DEF z
<1>20. CASE D = 1
  BY <1>1, <1>2, <1>4, <1>6, <1>9, <1>11, <1>15, <1>16, <1>18, <1>19, <1>20
<1>21. CASE D > 1
  <2>1. d # next
    BY <1>1, <1>2, <1>21 DEF next
  <2>2. CASE j = 0
    BY <1>1, <1>2, <1>4, <1>6, <1>11, <1>15, <1>16, <1>18, <1>19, <1>21, <2>1, <2>2
  <2>3. CASE j = 1
    BY <1>1, <1>2, <1>4, <1>6, <1>11, <1>15, <1>16, <1>18, <1>19, <1>21, <2>1, <2>3
  <2>4. CASE j >= 2
    BY <1>1, <1>2, <1>4, <1>6, <1>11, <1>15, <1>16, <1>18, <1>19, <1>21, <2>1, <2>4
  <2> QED
    BY <1>9, <2>2, <2>3, <2>4
<1> QED
  BY <1>1, <1>20, <1>21

\* The local time is a minute of the week again.
LEMMA LocalTimes ==
  ASSUME NEW t \in Int, NEW offset \in Int
  PROVE  LocalTime(t, offset) \in Minutes
BY LengthFacts, DivMod DEF LocalTime, Minutes

\* Whatever the time, a window lets its campaign be dialled just while it lasts.
LEMMA HoursRight ==
  ASSUME now \in Minutes
  PROVE  HoursFollowTheWeek
<1>1. now \in Int
  BY LengthFacts DEF Minutes
<1>2. ASSUME NEW w \in Windows, NEW c \in Campaigns, NEW offset \in Zone[c]
      PROVE  IsWithinBusinessHours(now, {w}, {offset}) <=> Covers(w, LocalTime(now, offset))
  <2>1. offset \in Int
    BY RoundsAssumption
  <2>2. LocalTime(now, offset) \in Minutes
    BY <1>1, <2>1, LocalTimes
  <2>3. InWindow(w, LocalTime(now, offset)) <=> Covers(w, LocalTime(now, offset))
    BY <2>2, InWindowIsCovers
  <2> QED
    BY <2>3 DEF IsWithinBusinessHours
<1>3. IsWithinBusinessHours(now, {}, {})
  BY DEF IsWithinBusinessHours
<1>4. \A w \in Windows : ListedWindow(StoredWindow(w)) = w
  BY WindowRoundTrip
<1> QED
  BY <1>2, <1>3, <1>4 DEF HoursFollowTheWeek

-----------------------------------------------------------------------------
(* The rounds *)

Entries == [id : Campaigns, hours : SUBSET Windows]

\* A listing has running campaigns only, each once, with the hours it has then.
LEMMA ListedFacts ==
  ASSUME RoundsTypeOK, NEW list \in Listed
  PROVE  /\ list \in Seq(Entries)
         /\ \A i \in 1 .. Len(list) :
               list[i].id \in running /\ list[i].hours = hours[list[i].id]
         /\ \A i, j \in 1 .. Len(list) : list[i].id = list[j].id => i = j
<1> DEFINE limit == CampaignFetchLimit
           n == IF Cardinality(running) < limit THEN Cardinality(running) ELSE limit
<1>1. running \in SUBSET Campaigns /\ hours \in [Campaigns -> SUBSET Windows]
  BY DEF RoundsTypeOK
<1>2. Cardinality(running) \in Nat
  BY <1>1, PartsCounted, RoundsAssumption
<1>3. limit \in Nat
  BY RoundsAssumption DEF CampaignFetchLimit
<1> HIDE DEF limit
<1>4. n \in Nat
  BY <1>2, <1>3
<1>5. PICK l \in [1 .. n -> running] :
         /\ \A i \in 1 .. n : Ahead(running, l[i]) = i - 1
         /\ list = [i \in 1 .. n |-> [id |-> l[i], hours |-> hours[l[i]]]]
  BY DEF Listed, OldestOf, limit
<1> HIDE DEF n
<1>6. \A i \in 1 .. n : [id |-> l[i], hours |-> hours[l[i]]] \in Entries
  BY <1>1, <1>5 DEF Entries
<1>7. list \in Seq(Entries) /\ Len(list) = n
  BY <1>4, <1>5, <1>6
<1>8. \A i \in 1 .. n : list[i].id = l[i] /\ list[i].hours = hours[l[i]]
  BY <1>5
<1>9. \A i, j \in 1 .. n : l[i] = l[j] => i = j
  BY <1>4, <1>5
<1> QED
  BY <1>5, <1>7, <1>8, <1>9

\* The head and the tail of a list of campaigns.
LEMMA TailFacts ==
  ASSUME NEW S, NEW list \in Seq(S), list # <<>>
  PROVE  /\ Head(list) = list[1] /\ Head(list) \in S /\ 1 \in 1 .. Len(list)
         /\ Tail(list) \in Seq(S) /\ Len(Tail(list)) = Len(list) - 1
         /\ \A i \in 1 .. Len(list) - 1 : Tail(list)[i] = list[i + 1]
OBVIOUS

LEMMA RoundFacts ==
  ASSUME RoundsTypeOK, round # <<>>
  PROVE  /\ Head(round) = round[1] /\ Head(round).id \in Campaigns /\ 1 \in 1 .. Len(round)
         /\ Tail(round) \in Seq(Entries) /\ Len(Tail(round)) = Len(round) - 1
         /\ \A i \in 1 .. Len(round) - 1 : Tail(round)[i] = round[i + 1]
<1>1. round \in Seq(Entries)
  BY DEF RoundsTypeOK, Entries
<1>2. /\ Head(round) = round[1] /\ Head(round) \in Entries /\ 1 \in 1 .. Len(round)
      /\ Tail(round) \in Seq(Entries) /\ Len(Tail(round)) = Len(round) - 1
      /\ \A i \in 1 .. Len(round) - 1 : Tail(round)[i] = round[i + 1]
  BY <1>1, TailFacts
<1>3. \A entry \in Entries : entry.id \in Campaigns
  BY DEF Entries
<1> QED
  BY <1>2, <1>3

LEMMA EntryTypes ==
  ASSUME RoundsTypeOK
  PROVE  \A i \in 1 .. Len(round) : round[i].id \in Campaigns
<1>1. round \in Seq(Entries)
  BY DEF RoundsTypeOK, Entries
<1>2. \A i \in 1 .. Len(round) : round[i] \in Entries
  BY <1>1
<1>3. \A entry \in Entries : entry.id \in Campaigns
  BY DEF Entries
<1> QED
  BY <1>2, <1>3

LEMMA RestTypes ==
  /\ RoundsTypeOK => \A i \in Rest : i \in 1 .. Len(round)
  /\ RoundsTypeOK' => \A i \in Rest' : i \in 1 .. Len(round')
<1>1. RoundsTypeOK => Len(round) \in Nat
  BY DEF RoundsTypeOK
<1>2. RoundsTypeOK' => Len(round') \in Nat
  BY DEF RoundsTypeOK
<1> QED
  BY <1>1, <1>2 DEF Rest

LEMMA BatchType ==
  ASSUME RoundsTypeOK, NEW c \in Campaigns
  PROVE  Batch(c) \in Nat /\ Batch(c) <= MaxBatchSize /\ targets[c] - Batch(c) \in Nat
BY RoundsAssumption DEF RoundsTypeOK, Batch

LEMMA RoundsTypeStep ==
  ASSUME RoundsTypeOK, RoundInv, [Next]_vars
  PROVE  RoundsTypeOK'
<1> USE DEF RoundsTypeOK, campaignVars, roundVars, history, Pcs
<1>0. 0 \in Minutes
  BY LengthFacts DEF Minutes
<1>t. \A c \in Campaigns : Touch(c) => updated' \in [Campaigns -> Nat]
  <2>1. Cardinality(Campaigns) \in Nat
    BY RoundsAssumption, FS_CardinalityType
  <2> QED
    BY <2>1 DEF Touch
<1>1. CASE ClockTick
  <2>1. now' \in Minutes
    BY <1>1, LengthFacts, DivMod DEF ClockTick, Minutes
  <2> QED
    BY <1>1, <2>1 DEF ClockTick
<1>2. ASSUME NEW c \in Campaigns, Start(c)
      PROVE  RoundsTypeOK'
  BY <1>2, <1>t DEF Start
<1>3. ASSUME NEW c \in Campaigns, Pause(c)
      PROVE  RoundsTypeOK'
  BY <1>3, <1>t DEF Pause
<1>4. ASSUME NEW c \in Campaigns, UpdateHours(c)
      PROVE  RoundsTypeOK'
  <2>1. \A h \in HourLists[c] : h \in SUBSET Windows
    BY RoundsAssumption
  <2>2. hours' \in [Campaigns -> SUBSET Windows]
    BY <1>4, <2>1 DEF UpdateHours
  <2> QED
    BY <1>4, <1>t, <2>2 DEF UpdateHours
<1>5. ASSUME NEW c \in Campaigns, AddTarget(c)
      PROVE  RoundsTypeOK'
  BY <1>5 DEF AddTarget
<1>6. CASE BeginRound
  BY <1>6 DEF BeginRound
<1>7. CASE ListByStatus
  <2>1. round' \in Seq(Entries)
    BY <1>7, ListedFacts DEF ListByStatus, Entries
  <2>2. nowUTC' \in Minutes /\ pc' \in Pcs /\ faults' \in Nat
    BY <1>0, <1>7 DEF ListByStatus, NoFault, Fault
  <2> QED
    BY <1>7, <2>1, <2>2 DEF ListByStatus, Entries
<1>8. CASE EndRound
  BY <1>0, <1>8 DEF EndRound
<1>9. CASE BeginCampaign
  <2> DEFINE c == Head(round).id
  <2>1. round # <<>>
    BY <1>9 DEF BeginCampaign
  <2>2. c \in Campaigns /\ Tail(round) \in Seq(Entries)
    BY <2>1, RoundFacts
  <2>3. Batch(c) \in Nat /\ [targets EXCEPT ![c] = @ - Batch(c)] \in [Campaigns -> Nat]
    BY <2>2, BatchType
  <2>4. /\ targets' \in [Campaigns -> Nat] /\ left' \in Nat /\ pc' \in Pcs
        /\ round' \in {round, Tail(round)}
    BY <1>9, <2>3 DEF BeginCampaign
  <2>5. faults' \in Nat
    BY <1>9 DEF BeginCampaign, Fault, NoFault
  <2> QED
    BY <1>9, <2>2, <2>4, <2>5 DEF BeginCampaign, Entries
<1>10. CASE DialTarget
  <2> DEFINE c == Head(round).id
  <2>1. round # <<>>
    BY <1>10 DEF DialTarget, RoundInv
  <2>2. c \in Campaigns
    BY <2>1, RoundFacts
  <2>3. paused' \in [Campaigns -> Nat] /\ closed' \in [Campaigns -> Nat]
    <3>1. Dialled(c) \/ UNCHANGED history
      BY <1>10 DEF DialTarget
    <3>2. paused \in [Campaigns -> Nat] /\ closed \in [Campaigns -> Nat]
      OBVIOUS
    <3> HIDE DEF c, RoundsTypeOK
    <3> QED
      BY <2>2, <3>1, <3>2 DEF Dialled
  <2>4. left' \in Nat /\ failed' \in Nat /\ faults' \in Nat
    BY <1>10 DEF DialTarget, Fault, NoFault
  <2> QED
    BY <1>10, <2>3, <2>4 DEF DialTarget
<1>11. CASE EndCampaign
  <2> DEFINE c == Head(round).id
  <2>1. round # <<>>
    BY <1>11 DEF EndCampaign, RoundInv
  <2>2. c \in Campaigns /\ Tail(round) \in Seq(Entries)
    BY <2>1, RoundFacts
  <2>3. targets' \in [Campaigns -> Nat] /\ faults' \in Nat
    <3>1. targets' \in {targets, [targets EXCEPT ![c] = @ + failed]}
      BY <1>11 DEF EndCampaign
    <3>2. faults' \in {faults, faults + 1}
      BY <1>11 DEF EndCampaign, Fault, NoFault
    <3>3. targets \in [Campaigns -> Nat] /\ failed \in Nat /\ faults \in Nat
      OBVIOUS
    <3> HIDE DEF c, RoundsTypeOK
    <3> QED
      BY <2>2, <3>1, <3>2, <3>3
  <2> QED
    BY <1>11, <2>2, <2>3 DEF EndCampaign, Entries
<1>12. CASE UNCHANGED vars
  BY <1>12 DEF vars
<1> QED
  BY <1>1, <1>2, <1>3, <1>4, <1>5, <1>6, <1>7, <1>8, <1>9, <1>10, <1>11, <1>12
     DEF Next, RoundStep, Request

LEMMA RoundInvStep ==
  ASSUME RoundsTypeOK, RoundInv, [Next]_vars
  PROVE  RoundInv'
<1> USE DEF RoundInv, campaignVars, roundVars
<1>1. CASE ListByStatus
  BY <1>1, ListedFacts DEF ListByStatus
<1>2. CASE round # <<>> /\ round' = Tail(round) /\ pc' = "next"
  BY <1>2, RoundFacts DEF RoundsTypeOK
<1>3. CASE BeginCampaign \/ EndCampaign
  <2>1. /\ round # <<>>
        /\ \/ round' = round /\ pc' = "dial"
           \/ round' = Tail(round) /\ pc' = "next"
    BY <1>3 DEF BeginCampaign, EndCampaign
  <2>2. CASE round' = round /\ pc' = "dial"
    BY <2>1, <2>2
  <2> QED
    BY <1>2, <2>1, <2>2
<1>4. CASE BeginRound \/ EndRound
  BY <1>4 DEF BeginRound, EndRound
<1>5. CASE round' = round /\ pc' = pc
  BY <1>5
<1> QED
  BY <1>1, <1>3, <1>4, <1>5
     DEF Next, RoundStep, Request, ClockTick, DialTarget, Start, Pause,
         UpdateHours, AddTarget, vars

\* What a step of a round does to the entries not begun: it takes the first of them into
\* hand, skips it, or goes on to it; a listing makes them all new.
LEMMA RestSteps ==
  ASSUME RoundsTypeOK, RoundInv, [Next]_vars, ~ListByStatus, NEW i \in Rest'
  PROVE  \E j \in Rest : round'[i] = round[j]
<1> USE DEF Rest, campaignVars, roundVars
<1>1. Len(round) \in Nat
  BY DEF RoundsTypeOK
<1>2. CASE BeginCampaign
  <2>1. /\ pc = "next" /\ round # <<>>
        /\ \/ round' = round /\ pc' = "dial"
           \/ round' = Tail(round) /\ pc' = pc
    BY <1>2 DEF BeginCampaign
  <2> QED
    BY <1>1, <2>1, RoundFacts
<1>3. CASE EndCampaign
  <2>1. pc = "dial" /\ round # <<>> /\ round' = Tail(round) /\ pc' = "next"
    BY <1>3 DEF EndCampaign, RoundInv
  <2> QED
    BY <1>1, <2>1, RoundFacts
<1>4. CASE round' = round /\ (pc' = "dial" <=> pc = "dial")
  BY <1>4
<1> QED
  BY <1>2, <1>3, <1>4
     DEF Next, RoundStep, Request, ClockTick, BeginRound, EndRound, DialTarget, Start, Pause,
         UpdateHours, AddTarget, vars

\* A dial is one of the campaign in hand, which is not among the rest.
LEMMA DialSteps ==
  ASSUME RoundsTypeOK, RoundInv, DialTarget
  PROVE  LET c == Head(round).id
         IN  /\ c \in Campaigns /\ pc = "dial" /\ pc' = pc /\ round' = round
             /\ left \in Nat /\ left' = left - 1
             /\ Dialled(c) \/ UNCHANGED history
             /\ \A i \in Rest : round[i].id \in Campaigns /\ round[i].id # c
<1>1. /\ pc = "dial" /\ pc' = pc /\ round' = round /\ left \in Nat /\ left' = left - 1
      /\ Dialled(Head(round).id) \/ UNCHANGED history
  BY DEF DialTarget, RoundsTypeOK
<1>2. round # <<>>
  BY <1>1 DEF RoundInv
<1>3. Head(round) = round[1] /\ Head(round).id \in Campaigns /\ 1 \in 1 .. Len(round)
  BY <1>2, RoundFacts
<1>4. \A i \in Rest : i \in 1 .. Len(round) /\ i # 1
  BY <1>1, RestTypes DEF Rest
<1>5. \A i \in 1 .. Len(round) : round[i].id \in Campaigns
  BY EntryTypes
<1>6. \A i \in Rest : round[i].id \in Campaigns /\ round[i].id # Head(round).id
  BY <1>3, <1>4, <1>5 DEF RoundInv
<1> QED
  BY <1>1, <1>3, <1>6

\* What begins a campaign takes a batch of the first entry of the rest, if it may be dialled.
LEMMA BeginSteps ==
  ASSUME RoundsTypeOK, BeginCampaign, pc' = "dial"
  PROVE  /\ round # <<>> /\ 1 \in Rest /\ round' = round /\ Head(round) = round[1]
         /\ MayDial(round[1]) /\ left' \in Nat /\ left' <= MaxBatchSize
         /\ Head(round).id \in Campaigns
<1>1. round # <<>> /\ pc = "next"
  BY DEF BeginCampaign
<1>2. MayDial(Head(round)) /\ round' = round /\ left' = Batch(Head(round).id)
  BY <1>1 DEF BeginCampaign
<1> QED
  BY <1>1, <1>2, RoundFacts, BatchType DEF Rest

-----------------------------------------------------------------------------
(* What is dialled of a campaign after it has been paused, or its hours are over *)

LEMMA PausedStep ==
  ASSUME RoundsTypeOK, RoundInv, PausedInv, PausedDialsBounded, [Next]_vars
  PROVE  PausedInv' /\ PausedDialsBounded'
<1>1. RoundsTypeOK' /\ RoundInv'
  BY RoundsTypeStep, RoundInvStep
<1>t. /\ paused \in [Campaigns -> Nat] /\ left \in Nat /\ MaxBatchSize \in Nat
      /\ running \in SUBSET Campaigns
      /\ \A i \in Rest : round[i].id \in Campaigns
      /\ \A i \in Rest' : i \in 1 .. Len(round')
  <2>1. /\ paused \in [Campaigns -> Nat] /\ left \in Nat /\ MaxBatchSize \in Nat
        /\ running \in SUBSET Campaigns
    BY RoundsAssumption DEF RoundsTypeOK
  <2> QED
    BY <1>1, <2>1, RestTypes, EntryTypes
<1>2. CASE DialTarget
  <2> DEFINE c == Head(round).id
  <2>1. /\ c \in Campaigns /\ pc = "dial" /\ pc' = pc /\ round' = round
        /\ left' = left - 1 /\ running' = running
        /\ Dialled(c) \/ UNCHANGED history
        /\ \A i \in Rest : round[i].id # c
    BY <1>2, DialSteps DEF DialTarget, campaignVars
  <2>2. paused[c] + left <= MaxBatchSize /\ Rest' = Rest
    BY <2>1 DEF PausedInv, Rest
  <2>3. Head(round').id = c
    BY <2>1
  <2> HIDE DEF c
  <2>4. left > 0
    BY <1>2 DEF DialTarget
  <2>5. \/ paused' = paused
        \/ paused' = [paused EXCEPT ![c] = IF c \in running THEN paused[c] ELSE paused[c] + 1]
    BY <2>1 DEF Dialled, history
  <2>6. /\ \A d \in Campaigns : d # c => paused'[d] = paused[d]
        /\ paused'[c] \in {paused[c], paused[c] + 1}
        /\ c \in running => paused'[c] = paused[c]
    BY <1>t, <2>1, <2>5
  <2>7. \A d \in running : paused'[d] = 0
    BY <1>t, <2>1, <2>6 DEF PausedInv
  <2>8. \A i \in Rest : paused'[round[i].id] = 0
    BY <1>t, <2>1, <2>6 DEF PausedInv
  <2>9. paused'[c] + left' <= MaxBatchSize /\ paused'[c] <= MaxBatchSize
    BY <1>t, <2>1, <2>2, <2>4, <2>6
  <2>10. \A d \in Campaigns : paused'[d] <= MaxBatchSize
    BY <2>6, <2>9 DEF PausedDialsBounded
  <2> QED
    BY <2>1, <2>2, <2>3, <2>7, <2>8, <2>9, <2>10 DEF PausedInv, PausedDialsBounded
<1>3. CASE ListByStatus
  <2>1. UNCHANGED <<running, paused>> /\ pc' # "dial"
    BY <1>3 DEF ListByStatus, campaignVars, history
  <2>2. CASE round' \in Listed
    <3>1. \A i \in 1 .. Len(round') : round'[i].id \in running
      BY <2>2, ListedFacts
    <3> QED
      BY <1>t, <2>1, <3>1 DEF PausedInv, PausedDialsBounded
  <2>3. CASE round' = round /\ pc' # "dial" /\ pc # "dial"
    BY <2>1, <2>3 DEF PausedInv, PausedDialsBounded, Rest
  <2> QED
    BY <1>3, <2>2, <2>3 DEF ListByStatus
<1>4. CASE BeginCampaign
  <2>1. UNCHANGED <<running, paused>>
    BY <1>4 DEF BeginCampaign, campaignVars, history
  <2>2. ~ListByStatus
    BY <1>4 DEF BeginCampaign, ListByStatus
  <2>3. \A i \in Rest' : paused'[round'[i].id] = 0
    BY <2>1, <2>2, RestSteps DEF PausedInv
  <2>4. ASSUME pc' = "dial"
        PROVE  paused'[Head(round').id] + left' <= MaxBatchSize
    <3>1. 1 \in Rest /\ round' = round /\ Head(round) = round[1] /\ left' \in Nat /\ left' <= MaxBatchSize
      BY <1>4, <2>4, BeginSteps
    <3>2. paused[round[1].id] = 0
      BY <3>1 DEF PausedInv
    <3> QED
      BY <1>t, <2>1, <3>1, <3>2
  <2> QED
    BY <2>1, <2>3, <2>4 DEF PausedInv, PausedDialsBounded
<1>5. ASSUME NEW c \in Campaigns, Start(c)
      PROVE  PausedInv' /\ PausedDialsBounded'
  <2>1. /\ UNCHANGED roundVars /\ paused' = [paused EXCEPT ![c] = 0]
        /\ running' = running \cup {c}
    BY <1>5 DEF Start
  <2>2. UNCHANGED <<pc, round, left>> /\ Rest' = Rest
    BY <2>1 DEF roundVars, Rest
  <2>3. \A d \in Campaigns : paused'[d] \in {0, paused[d]} /\ paused'[d] <= paused[d]
    BY <1>t, <2>1
  <2>4. pc = "dial" => Head(round).id \in Campaigns
    BY RoundFacts DEF RoundInv
  <2>5. \A i \in Rest : paused'[round[i].id] = 0
    BY <1>t, <2>3 DEF PausedInv
  <2>6. \A d \in Campaigns : paused'[d] \in Nat /\ paused[d] \in Nat
    BY <1>t, <2>3
  <2>7. pc = "dial" => paused'[Head(round).id] + left <= MaxBatchSize
    BY <1>t, <2>3, <2>4, <2>6 DEF PausedInv
  <2>8. \A d \in running' : paused'[d] = 0
    BY <1>t, <2>1 DEF PausedInv
  <2>9. PausedDialsBounded'
    BY <1>t, <2>3, <2>6 DEF PausedDialsBounded
  <2> QED
    BY <2>2, <2>5, <2>7, <2>8, <2>9 DEF PausedInv
<1>6. CASE EndCampaign
  <2>1. UNCHANGED <<running, paused>> /\ pc' # "dial" /\ ~ListByStatus
    BY <1>6 DEF EndCampaign, ListByStatus, campaignVars, history
  <2> QED
    BY <2>1, RestSteps DEF PausedInv, PausedDialsBounded
<1>7. CASE /\ paused' = paused /\ running' \subseteq running /\ round' = round /\ left' = left
           /\ pc' = "dial" <=> pc = "dial"
  BY <1>7 DEF PausedInv, PausedDialsBounded, Rest
<1> QED
  BY <1>2, <1>3, <1>4, <1>5, <1>6, <1>7
     DEF Next, RoundStep, Request, ClockTick, BeginRound, EndRound, Pause, UpdateHours,
         AddTarget, vars, campaignVars, roundVars, history

\* Entries keep their hours and the time they are looked at while the round goes on.
LEMMA ClosedStep ==
  ASSUME RoundsTypeOK, RoundInv, ClosedInv, ClosedDialsBounded, [Next]_vars
  PROVE  ClosedInv' /\ ClosedDialsBounded'
<1>1. RoundsTypeOK' /\ RoundInv'
  BY RoundsTypeStep, RoundInvStep
<1>t. /\ closed \in [Campaigns -> Nat] /\ left \in Nat /\ MaxBatchSize \in Nat
      /\ hours \in [Campaigns -> SUBSET Windows]
      /\ \A i \in Rest : round[i].id \in Campaigns
      /\ \A i \in Rest' : i \in 1 .. Len(round')
      /\ pc = "dial" => Head(round).id \in Campaigns
  <2>1. /\ closed \in [Campaigns -> Nat] /\ left \in Nat /\ MaxBatchSize \in Nat
        /\ hours \in [Campaigns -> SUBSET Windows]
    BY RoundsAssumption DEF RoundsTypeOK
  <2>2. pc = "dial" => Head(round).id \in Campaigns
    BY RoundFacts DEF RoundInv
  <2> QED
    BY <1>1, <2>1, <2>2, RestTypes, EntryTypes
<1>2. CASE DialTarget
  <2> DEFINE c == Head(round).id
  <2>1. /\ c \in Campaigns /\ pc = "dial" /\ pc' = pc /\ round' = round
        /\ left' = left - 1 /\ UNCHANGED <<now, hours, nowUTC>>
        /\ Dialled(c) \/ UNCHANGED history
        /\ \A i \in Rest : round[i].id # c
    BY <1>2, DialSteps DEF DialTarget, campaignVars
  <2>2. closed[c] + left <= MaxBatchSize /\ Rest' = Rest
    BY <2>1 DEF ClosedInv, Rest
  <2>3. Head(round').id = c
    BY <2>1
  <2> HIDE DEF c
  <2>4. left > 0
    BY <1>2 DEF DialTarget
  <2>5. \/ closed' = closed
        \/ closed' = [closed EXCEPT ![c] = IF Open(c) THEN closed[c] ELSE closed[c] + 1]
    BY <2>1 DEF Dialled, history
  <2>6. /\ \A d \in Campaigns : d # c => closed'[d] = closed[d]
        /\ closed'[c] \in {closed[c], closed[c] + 1}
        /\ Open(c) => closed'[c] = closed[c]
    BY <1>t, <2>1, <2>5
  <2>7. \A d \in Campaigns : Open(d)' => closed'[d] = 0
    BY <2>1, <2>6 DEF ClosedInv, Open
  <2>8. \A i \in Rest : MayDial(round[i])' => closed'[round[i].id] = 0
    BY <1>t, <2>1, <2>6 DEF ClosedInv, MayDial
  <2>9. closed'[c] + left' <= MaxBatchSize /\ closed'[c] <= MaxBatchSize
    BY <1>t, <2>1, <2>2, <2>4, <2>6
  <2>10. \A d \in Campaigns : closed'[d] <= MaxBatchSize
    BY <2>6, <2>9 DEF ClosedDialsBounded
  <2>11. \A i \in Rest' : MayDial(round[i])' => closed'[round'[i].id] = 0
    BY <2>1, <2>2, <2>8
  <2> QED
    BY <2>1, <2>3, <2>7, <2>9, <2>10, <2>11 DEF ClosedInv, ClosedDialsBounded
<1>3. CASE ListByStatus
  <2>1. UNCHANGED <<now, hours, closed>> /\ pc = "list" /\ pc' \notin {"dial", "list"}
    BY <1>3 DEF ListByStatus, campaignVars, history
  <2>2. \A c \in Campaigns : Open(c)' => closed'[c] = 0
    BY <2>1 DEF ClosedInv, Open
  <2>3. \A i \in Rest' : MayDial(round[i])' => closed'[round'[i].id] = 0
    <3>1. CASE round' \in Listed /\ nowUTC' = nowUTC
      <4>1. \A i \in 1 .. Len(round') :
               /\ round'[i].id \in Campaigns
               /\ round'[i].hours = hours[round'[i].id]
        BY <3>1, ListedFacts DEF RoundsTypeOK
      <4>2. \A c \in Campaigns : IsWithinBusinessHours(nowUTC, hours[c], Zone[c]) => closed[c] = 0
        BY <2>1 DEF ClosedInv
      <4> QED
        BY <1>t, <2>1, <3>1, <4>1, <4>2 DEF MayDial
    <3>2. CASE pc' = "idle"
      <4>1. round' = <<>>
        BY <1>1, <3>2 DEF RoundInv
      <4> QED
        BY <1>t, <4>1
    <3> QED
      BY <1>3, <3>1, <3>2 DEF ListByStatus
  <2> QED
    BY <2>1, <2>2, <2>3 DEF ClosedInv, ClosedDialsBounded
<1>4. CASE BeginCampaign \/ EndCampaign
  <2>1. UNCHANGED <<now, hours, nowUTC, closed>> /\ ~ListByStatus /\ pc' # "list"
    BY <1>4 DEF BeginCampaign, EndCampaign, ListByStatus, campaignVars, history
  <2>2. \A c \in Campaigns : Open(c)' => closed'[c] = 0
    BY <2>1 DEF ClosedInv, Open
  <2>3. \A i \in Rest' : MayDial(round[i])' => closed'[round'[i].id] = 0
    <3> TAKE i \in Rest'
    <3>1. PICK j \in Rest : round'[i] = round[j]
      BY <2>1, RestSteps
    <3>2. MayDial(round[j]) => closed[round[j].id] = 0
      BY DEF ClosedInv
    <3> QED
      BY <2>1, <3>1, <3>2 DEF MayDial
  <2>4. ASSUME pc' = "dial"
        PROVE  closed'[Head(round').id] + left' <= MaxBatchSize
    <3>1. /\ 1 \in Rest /\ round' = round /\ Head(round) = round[1] /\ MayDial(round[1])
          /\ left' \in Nat /\ left' <= MaxBatchSize
      BY <1>4, <2>4, BeginSteps DEF EndCampaign
    <3>2. closed[round[1].id] = 0
      BY <3>1 DEF ClosedInv
    <3> QED
      BY <1>t, <2>1, <3>1, <3>2
  <2> QED
    BY <2>1, <2>2, <2>3, <2>4 DEF ClosedInv, ClosedDialsBounded
<1>5. CASE BeginRound \/ EndRound
  <2>1. /\ UNCHANGED <<now, hours, closed>> /\ round' = <<>> /\ pc' # "dial"
        /\ pc' = "list" => nowUTC' = now
    BY <1>1, <1>5 DEF BeginRound, EndRound, RoundInv, campaignVars, history
  <2>2. \A c \in Campaigns : Open(c)' => closed'[c] = 0
    BY <2>1 DEF ClosedInv, Open
  <2>3. pc' = "list" =>
           \A c \in Campaigns :
              IsWithinBusinessHours(nowUTC', hours'[c], Zone[c]) => closed'[c] = 0
    BY <2>1, <2>2 DEF Open
  <2>4. \A i \in Rest' : MayDial(round[i])' => closed'[round'[i].id] = 0
    BY <1>t, <2>1
  <2> QED
    BY <2>1, <2>2, <2>3, <2>4 DEF ClosedInv, ClosedDialsBounded
<1>6. ASSUME UNCHANGED <<pc, nowUTC, round, left>>,
             \A c \in Campaigns :
                /\ closed'[c] \in {0, closed[c]}
                /\ Open(c)' => closed'[c] = 0
                /\ hours'[c] = hours[c] \/ closed'[c] = 0
      PROVE  ClosedInv' /\ ClosedDialsBounded'
  <2>1. \A c \in Campaigns : closed[c] = 0 => closed'[c] = 0
    BY <1>6
  <2>2. Rest' = Rest
    BY <1>6 DEF Rest
  <2>3. \A i \in Rest : MayDial(round[i])' => closed'[round[i].id] = 0
    BY <1>6, <1>t, <2>1 DEF ClosedInv, MayDial
  <2>4. \A c \in Campaigns : closed'[c] <= closed[c] /\ closed'[c] \in Nat /\ closed[c] \in Nat
    BY <1>6, <1>t
  <2>5. pc = "dial" => closed'[Head(round).id] + left <= MaxBatchSize
    BY <1>t, <2>4 DEF ClosedInv
  <2>6. \A c \in Campaigns : closed'[c] <= MaxBatchSize
    BY <1>t, <2>4 DEF ClosedDialsBounded
  <2>7. pc = "list" =>
           \A c \in Campaigns :
              IsWithinBusinessHours(nowUTC, hours'[c], Zone[c]) => closed'[c] = 0
    BY <1>6, <2>1 DEF ClosedInv
  <2>8. \A i \in Rest' : MayDial(round[i])' => closed'[round'[i].id] = 0
    BY <1>6, <2>2, <2>3
  <2> QED
    BY <1>6, <2>5, <2>6, <2>7, <2>8 DEF ClosedInv, ClosedDialsBounded
<1>7. CASE ClockTick
  <2>1. /\ UNCHANGED <<pc, nowUTC, round, left, hours>>
        /\ \A c \in Campaigns :
              closed'[c] = IF IsWithinBusinessHours(now', hours[c], Zone[c]) THEN 0 ELSE closed[c]
    BY <1>7 DEF ClockTick, campaignVars, roundVars
  <2> QED
    BY <1>6, <2>1 DEF Open
<1>8. ASSUME NEW c \in Campaigns, UpdateHours(c)
      PROVE  ClosedInv' /\ ClosedDialsBounded'
  <2>1. /\ UNCHANGED <<pc, nowUTC, round, left, now>> /\ closed' = [closed EXCEPT ![c] = 0]
        /\ \E h \in HourLists[c] : hours' = [hours EXCEPT ![c] = h]
    BY <1>8 DEF UpdateHours, roundVars
  <2>2. \A d \in Campaigns : d # c => closed'[d] = closed[d] /\ hours'[d] = hours[d]
    BY <1>t, <2>1
  <2>3. closed'[c] = 0
    BY <1>t, <2>1
  <2>4. \A d \in Campaigns : Open(d)' => closed'[d] = 0
    BY <2>1, <2>2, <2>3 DEF ClosedInv, Open
  <2> QED
    BY <1>6, <2>1, <2>2, <2>3, <2>4
<1>9. CASE UNCHANGED <<pc, nowUTC, round, left, now, hours, closed>>
  BY <1>6, <1>9 DEF ClosedInv, Open
<1> QED
  BY <1>2, <1>3, <1>4, <1>5, <1>7, <1>8, <1>9
     DEF Next, RoundStep, Request, Start, Pause, AddTarget, vars, campaignVars, roundVars, history

LEMMA InitiallyDialling == Init => DialsInv
<1> SUFFICES ASSUME Init PROVE DialsInv
  OBVIOUS
<1>1. 0 \in Minutes
  BY LengthFacts DEF Minutes
<1>2. updated \in [Campaigns -> Nat]
  <2>1. Cardinality(Campaigns) \in Nat
    BY RoundsAssumption, FS_CardinalityType
  <2> QED
    BY <2>1 DEF Init
<1>3. /\ paused \in [Campaigns -> Nat] /\ closed \in [Campaigns -> Nat]
      /\ targets \in [Campaigns -> Nat] /\ hours \in [Campaigns -> SUBSET Windows]
  BY RoundsAssumption DEF Init
<1>4. RoundsTypeOK
  BY <1>1, <1>2, <1>3 DEF Init, RoundsTypeOK, Pcs
<1>5. \A c \in Campaigns : paused[c] = 0 /\ closed[c] = 0
  BY DEF Init
<1>6. round = <<>> /\ pc = "idle" /\ Len(round) = 0 /\ running = {}
  BY DEF Init
<1>7. Rest = {}
  BY <1>6 DEF Rest
<1>8. RoundInv /\ PausedInv /\ ClosedInv
  BY <1>5, <1>6, <1>7 DEF RoundInv, PausedInv, ClosedInv
<1> QED
  BY <1>4, <1>5, <1>8, RoundsAssumption DEF DialsInv, PausedDialsBounded, ClosedDialsBounded

LEMMA DialsInvariant == Spec => []DialsInv
<1>1. DialsInv /\ [Next]_vars => DialsInv'
  BY RoundsTypeStep, RoundInvStep, PausedStep, ClosedStep DEF DialsInv
<1> QED
  BY <1>1, InitiallyDialling, PTL DEF Spec

\* Type correctness, in any calendar and under every fault.
THEOREM RoundsTypeCorrect == Spec => []RoundsTypeOK
<1>1. DialsInv => RoundsTypeOK
  BY DEF DialsInv
<1> QED
  BY <1>1, DialsInvariant, PTL

\* At any time of any week, in any zone, a window lets its campaign be dialled just while it is
\* open, also over midnight and the end of the week, and one the table accepts is read back as
\* it was written.
THEOREM HoursAlwaysRight == Spec => []HoursFollowTheWeek
<1>1. DialsInv => HoursFollowTheWeek
  BY HoursRight DEF DialsInv, RoundsTypeOK
<1> QED
  BY <1>1, DialsInvariant, PTL

\* However slow the rounds are and however many campaigns they go over, one that is paused
\* is dialled for no more than one batch before it runs again.
THEOREM PausedDialsStayBounded == Spec => []PausedDialsBounded
<1>1. DialsInv => PausedDialsBounded
  BY DEF DialsInv
<1> QED
  BY <1>1, DialsInvariant, PTL

\* Nor is it dialled for more than one batch after its hours are over.
THEOREM ClosedDialsStayBounded == Spec => []ClosedDialsBounded
<1>1. DialsInv => ClosedDialsBounded
  BY DEF DialsInv
<1> QED
  BY <1>1, DialsInvariant, PTL
=============================================================================
